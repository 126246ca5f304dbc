--------------------------- MODULE ConvertProofs ---------------------------
(***************************************************************************)
(* What Convert promises, for every width of the C types, every format of  *)
(* doubles, and all numbers that a script stores and the kernel hands over.*)
(***************************************************************************)
EXTENDS Convert, WellFoundedInduction, TLAPS

-----------------------------------------------------------------------------
(* Arithmetic. *)

\* Quotient and remainder.
LEMMA Division ==
  ASSUME NEW d \in Nat \ {0}, NEW n \in Int
  PROVE  /\ n \div d \in Int /\ n % d \in 0 .. d - 1
         /\ n = d * (n \div d) + (n % d)
BY SMT

\* A multiple of d is divided by d without a remainder.
LEMMA Multiple ==
  ASSUME NEW d \in Nat \ {0}, NEW k \in Int
  PROVE  (d * k) % d = 0 /\ (d * k) \div d = k
<1> DEFINE q == (d * k) \div d
           r == (d * k) % d
<1>1. q \in Int /\ r \in 0 .. d - 1 /\ d * k = d * q + r  BY SMT
<1>2. d * (k - q) = r  BY <1>1, SMT
<1>3. k - q = 0
  <2> HIDE DEF q, r
  <2>1. CASE k - q >= 1
    <3>1. d * (k - q) >= d  BY <1>1, <2>1, SMT
    <3>2. QED BY <1>1, <1>2, <3>1, SMT
  <2>2. CASE k - q <= -1
    <3>1. d * (k - q) <= -d  BY <1>1, <2>2, SMT
    <3>2. QED BY <1>1, <1>2, <3>1, SMT
  <2>3. QED BY <1>1, <2>1, <2>2, SMT
<1>4. k = q /\ r = 0  BY <1>1, <1>2, <1>3, SMT
<1>5. QED BY <1>4

\* Quotient and remainder of a natural number.
LEMMA Divided ==
  ASSUME NEW d \in Nat \ {0}, NEW a \in Nat
  PROVE  a \div d \in Nat /\ a % d \in 0 .. d - 1 /\ a = d * (a \div d) + (a % d)
<1> DEFINE q == a \div d
           r == a % d
<1>1. q \in Int /\ r \in 0 .. d - 1 /\ a = d * q + r  BY SMT
<1>2. q >= 0
  <2> HIDE DEF q, r
  <2>1. SUFFICES ASSUME q <= -1 PROVE FALSE  BY <1>1, SMT
  <2>2. d * q <= -d  BY <1>1, <2>1, SMT
  <2>3. QED BY <1>1, <2>2, SMT
<1>3. q \in Nat
  <2> HIDE DEF q
  <2>1. QED BY <1>1, <1>2, SMT
<1>4. QED BY <1>1, <1>3

\* A number below m is its own remainder.
LEMMA Small ==
  ASSUME NEW m \in Nat \ {0}, NEW x \in 0 .. m - 1
  PROVE  x % m = x
BY SMT

\* A greater number has a greater multiple.
LEMMA Ordered ==
  ASSUME NEW d \in Nat \ {0}, NEW a \in Int, NEW b \in Int
  PROVE  /\ a <= b => a * d <= b * d
         /\ a < b => a * d + d <= b * d
         /\ a * d < b * d => a < b
         /\ a * d \in Int /\ b * d \in Int
<1>1. a * d \in Int /\ b * d \in Int  BY SMT
<1>2. ASSUME a <= b PROVE a * d <= b * d
  <2>1. (b - a) * d >= 0  BY <1>2, SMT
  <2>2. QED BY <1>1, <2>1, SMT
<1>3. ASSUME a < b PROVE a * d + d <= b * d
  <2>1. (b - a) * d >= d  BY <1>3, SMT
  <2>2. QED BY <1>1, <2>1, SMT
<1>4. ASSUME a * d < b * d PROVE a < b
  <2>1. SUFFICES ASSUME b <= a PROVE FALSE  BY SMT
  <2>2. (a - b) * d >= 0  BY <2>1, SMT
  <2>3. QED BY <1>1, <1>4, <2>2, SMT
<1>5. QED BY <1>1, <1>2, <1>3, <1>4

\* What truncation leaves has the sign of the number and is less than d.
LEMMA Truncated ==
  ASSUME NEW d \in Nat \ {0}, NEW n \in Int
  PROVE  LET q == Truncate(n, d)
         IN  /\ q \in Int /\ q * d \in Int
             /\ n >= 0 => q >= 0 /\ n - q * d \in 0 .. d - 1
             /\ n < 0 => q <= 0 /\ n - q * d \in -(d - 1) .. 0
<1>1. CASE n >= 0
  <2> DEFINE q == n \div d
             r == n % d
  <2>1. q \in Nat /\ r \in 0 .. d - 1 /\ n = d * q + r
    <3>1. n \in Nat  BY <1>1
    <3>2. QED BY <3>1, Divided
  <2>2. Truncate(n, d) = q  BY <1>1 DEF Truncate
  <2> HIDE DEF q, r
  <2>3. d * q = q * d /\ q * d \in Int  BY <2>1, SMT
  <2>4. QED BY <1>1, <2>1, <2>2, <2>3, SMT
<1>2. CASE n < 0
  <2> DEFINE q == (-n) \div d
             r == (-n) % d
  <2>1. q \in Nat /\ r \in 0 .. d - 1 /\ -n = d * q + r
    <3>1. -n \in Nat  BY <1>2
    <3>2. QED BY <3>1, Divided
  <2>2. Truncate(n, d) = -q  BY <1>2, SMT DEF Truncate
  <2> HIDE DEF q, r
  <2>3. (-q) * d = -(d * q) /\ (-q) * d \in Int /\ d * q \in Int  BY <2>1, SMT
  <2>4. QED BY <1>2, <2>1, <2>2, <2>3, SMT
<1>3. QED BY <1>1, <1>2, SMT

\* A multiple of d is truncated to what it is a multiple of.
LEMMA TruncatedWhole ==
  ASSUME NEW d \in Nat \ {0}, NEW k \in Int
  PROVE  Truncate(k * d, d) = k /\ (k * d) % d = 0 /\ (k * d) \div d = k
<1>1. k * d = d * k /\ k * d \in Int  BY SMT
<1>2. (k * d) % d = 0 /\ (k * d) \div d = k  BY <1>1, Multiple
<1> DEFINE q == Truncate(k * d, d)
<1>3. q \in Int /\ q * d \in Int /\ k * d - q * d \in -(d - 1) .. d - 1
  BY <1>1, Truncated
<1> HIDE DEF q
<1>4. ~ (q < k) /\ ~ (k < q)
  BY <1>1, <1>3, Ordered, SMT
<1>5. QED BY <1>2, <1>3, <1>4, SMT DEF q

\* Less is the order of Nat as a relation.
Less == {p \in Nat \X Nat : p[1] < p[2]}

LEMMA LessWellFounded == IsWellFoundedOn(Less, Nat)
BY NatLessThanWellFounded DEF OpToRel, Less

\* Every set of natural numbers has a least one.
LEMMA LeastNumber ==
  ASSUME NEW T \in SUBSET Nat, T # {}
  PROVE  \E x \in T : \A y \in T : x <= y
<1>1. \E x \in T : \A y \in T : ~ (<<y, x>> \in Less)
  BY LessWellFounded, WFMin
<1>2. PICK x \in T : \A y \in T : ~ (<<y, x>> \in Less)  BY <1>1
<1>3. ASSUME NEW y \in T PROVE x <= y
  <2>1. SUFFICES ASSUME y < x PROVE FALSE  BY SMT
  <2>2. <<y, x>> \in Nat \X Nat  OBVIOUS
  <2>3. <<y, x>>[1] = y /\ <<y, x>>[2] = x  OBVIOUS
  <2>4. <<y, x>> \in Less  BY <2>1, <2>2, <2>3 DEF Less
  <2>5. QED BY <1>2, <2>4
<1>4. QED BY <1>3

LEMMA TicksIn == Ticks \in Nat \ {0} /\ Ticks \in Int
BY ConvertAssumption, SMT

\* There is a nearest double, and at most two are.
LEMMA NearestIn ==
  ASSUME NEW n \in Int
  PROVE  /\ Nearest(n) \in Doubles /\ Nearest(n) \in Int
         /\ \A d \in Doubles : Distance(Nearest(n), n) <= Distance(d, n)
<1> DEFINE T == {Distance(m, n) : m \in Doubles}
<1>1. 0 \in Doubles /\ Doubles \subseteq Int
  <2>1. 0 \in -Exact .. Exact /\ 0 * Ticks = 0  BY ConvertAssumption, SMT
  <2>2. QED BY <2>1, DoubleAssumption
<1>2. \A m \in Doubles : Distance(m, n) \in Nat
  BY <1>1, SMT DEF Distance
<1>3. T \in SUBSET Nat /\ T # {}
  BY <1>1, <1>2
<1>4. PICK x \in T : \A y \in T : x <= y
  <2> HIDE DEF T
  <2>1. QED BY <1>3, LeastNumber
<1>5. PICK m \in Doubles : x = Distance(m, n)
  BY <1>4
<1>6. m \in Near(n)
  BY <1>4, <1>5 DEF Near
<1>7. ASSUME NEW a \in Near(n), NEW b \in Near(n), NEW c \in Near(n)
      PROVE  a = b \/ b = c \/ a = c
  <2>1. a \in Int /\ b \in Int /\ c \in Int
    BY <1>1 DEF Near
  <2>2. Distance(a, n) = Distance(b, n) /\ Distance(a, n) = Distance(c, n)
    <3>1. /\ Distance(a, n) <= Distance(b, n) /\ Distance(b, n) <= Distance(a, n)
          /\ Distance(a, n) <= Distance(c, n) /\ Distance(c, n) <= Distance(a, n)
      BY DEF Near
    <3>2. QED BY <2>1, <3>1, SMT DEF Distance
  <2>3. QED BY <2>1, <2>2, SMT DEF Distance
<1> DEFINE Best(k) == \A d \in Near(n) \ {k} : IsEven(d, k) => IsEven(k, d)
<1>8. \E k \in Near(n) : Best(k)
  <2>1. CASE Best(m)  BY <1>6, <2>1
  <2>2. CASE ~ Best(m)
    <3>1. PICK d \in Near(n) \ {m} : IsEven(d, m)  BY <2>2
    <3>2. \A e \in Near(n) \ {d} : e = m  BY <1>6, <1>7, <3>1
    <3>3. Best(d)  BY <3>1, <3>2
    <3>4. QED BY <3>1, <3>3
  <2>3. QED BY <2>1, <2>2
<1>9. Nearest(n) \in Near(n)
  <2>1. CASE n \in Doubles
    <3>1. Nearest(n) = n  BY <2>1 DEF Nearest
    <3>2. \A d \in Doubles : Distance(n, n) <= Distance(d, n)
      BY <1>1, SMT DEF Distance
    <3>3. QED BY <2>1, <3>1, <3>2 DEF Near
  <2>2. CASE n \notin Doubles
    <3>1. Nearest(n) = CHOOSE k \in Near(n) : Best(k)  BY <2>2 DEF Nearest
    <3> HIDE DEF Best
    <3>2. QED BY <1>8, <3>1
  <2>3. QED BY <2>1, <2>2
<1>10. QED BY <1>1, <1>9 DEF Near

\* A number that lies between two doubles is rounded to one between them.
LEMMA NearestBetween ==
  ASSUME NEW n \in Int, NEW a \in Doubles, NEW b \in Doubles, a <= n, n <= b
  PROVE  a <= Nearest(n) /\ Nearest(n) <= b
<1>1. a \in Int /\ b \in Int  BY DoubleAssumption
<1>2. /\ Nearest(n) \in Int
      /\ Distance(Nearest(n), n) <= Distance(a, n)
      /\ Distance(Nearest(n), n) <= Distance(b, n)
  BY NearestIn
<1>3. QED BY <1>1, <1>2, SMT DEF Distance

\* The whole part of a double is a double.
LEMMA WholePart ==
  ASSUME NEW d \in Doubles
  PROVE  Truncate(d, Ticks) \in Int /\ Truncate(d, Ticks) * Ticks \in Doubles
<1> DEFINE q == Truncate(d, Ticks)
           r == d - q * Ticks
<1>1. d \in Int /\ Ticks \in Nat \ {0} /\ Exact \in Nat
  BY DoubleAssumption, ConvertAssumption
<1>2. /\ q \in Int /\ q * Ticks \in Int
      /\ d >= 0 => q >= 0 /\ r \in 0 .. Ticks - 1
      /\ d < 0 => q <= 0 /\ r \in -(Ticks - 1) .. 0
  BY <1>1, Truncated
<1>3. CASE Distance(d, 0) >= Exact * Ticks
  <2>1. d % Ticks = 0  BY <1>3, DoubleAssumption
  <2> DEFINE k == d \div Ticks
  <2>2. k \in Int /\ d = Ticks * k + (d % Ticks)  BY <1>1, Division
  <2>3. d = k * Ticks
    <3> HIDE DEF k
    <3>1. QED BY <1>1, <2>1, <2>2, SMT
  <2>4. Truncate(d, Ticks) = k
    <3> HIDE DEF k
    <3>1. QED BY <1>1, <2>2, <2>3, TruncatedWhole
  <2>5. QED BY <1>2, <2>3, <2>4
<1>4. CASE ~ (Distance(d, 0) >= Exact * Ticks)
  <2> HIDE DEF q
  <2>1. Exact * Ticks \in Int /\ (-Exact) * Ticks = -(Exact * Ticks)
    BY <1>1, SMT
  <2>2. d < Exact * Ticks /\ -(Exact * Ticks) < d
    BY <1>1, <1>4, <2>1, SMT DEF Distance
  <2>3. q <= Exact
    <3>1. SUFFICES ASSUME Exact < q PROVE FALSE  BY <1>1, <1>2, SMT
    <3>2. Exact * Ticks + Ticks <= q * Ticks  BY <1>1, <1>2, <3>1, Ordered
    <3>3. QED BY <1>1, <1>2, <2>1, <2>2, <3>1, <3>2, SMT
  <2>4. -Exact <= q
    <3>1. SUFFICES ASSUME q < -Exact PROVE FALSE  BY <1>1, <1>2, SMT
    <3>2. q * Ticks + Ticks <= (-Exact) * Ticks  BY <1>1, <1>2, <3>1, Ordered
    <3>3. QED BY <1>1, <1>2, <2>1, <2>2, <3>1, <3>2, SMT
  <2>5. q \in -Exact .. Exact  BY <1>1, <1>2, <2>3, <2>4, SMT
  <2>6. q * Ticks \in Doubles  BY <2>5, DoubleAssumption
  <2>7. QED BY <1>2, <2>6 DEF q
<1>5. QED BY <1>3, <1>4

\* What C makes of a double is an intmax_t.
LEMMA ToIntegerIn ==
  ASSUME NEW d \in Int
  PROVE  ToInteger(d) \in Signed
<1>1. (d > 0) \in BOOLEAN
  OBVIOUS
<1>2. QED BY <1>1, BeyondAssumption DEF ToInteger

-----------------------------------------------------------------------------
(* Conversions. *)

\* What is in the range of intmax_t stays what it is.
LEMMA SignedSmall ==
  ASSUME NEW n \in -Long .. Long - 1
  PROVE  ToSigned(n) = n
<1>1. 2 * Long \in Nat \ {0} /\ n + Long \in 0 .. (2 * Long) - 1
  BY ConvertAssumption, SMT
<1>2. (n + Long) % (2 * Long) = n + Long  BY <1>1, Small
<1>3. QED BY <1>2, ConvertAssumption, SMT DEF ToSigned

LEMMA SignedIn ==
  ASSUME NEW n \in Int
  PROVE  ToSigned(n) \in Int /\ ToSigned(n) \in Signed
<1>1. 2 * Long \in Nat \ {0} /\ n + Long \in Int
  BY ConvertAssumption, SMT
<1>2. (n + Long) % (2 * Long) \in 0 .. (2 * Long) - 1  BY <1>1, Division
<1>3. QED BY <1>2, ConvertAssumption, SMT DEF ToSigned, Signed

\* A Lua keeps some number for every number, and would keep that again.
LEMMA RoundedIn ==
  ASSUME NEW n \in Int
  PROVE  /\ Rounded(n) \in Int /\ Rounded(Rounded(n)) = Rounded(n)
         /\ lua = "double" => Rounded(n) \in Doubles
<1>1. Nearest(n) \in Doubles /\ Nearest(n) \in Int  BY NearestIn
<1>2. Nearest(Nearest(n)) = Nearest(n)  BY <1>1 DEF Nearest
<1>3. QED BY <1>1, <1>2 DEF Rounded

LEMMA PushedIn ==
  ASSUME NEW n \in Int
  PROVE  lua_pushinteger(n).type = "number" /\ lua_pushinteger(n).n \in Int
<1>1. ToSigned(n) * Ticks \in Int  BY SignedIn, TicksIn, SMT
<1>2. QED BY <1>1, RoundedIn DEF lua_pushinteger, Number

\* What a Lua holds is pushed as it is.
LEMMA PushedExactly ==
  ASSUME NEW n \in Int, Held(n)
  PROVE  lua_pushinteger(n) = Number(n * Ticks)
BY SignedSmall DEF lua_pushinteger, Held, Signed

\* A number of ticks without a fraction is an integer.
LEMMA WholeTicks ==
  ASSUME NEW v, v.n \in Int, IsWhole(v)
  PROVE  v.n \div Ticks \in Int /\ (v.n \div Ticks) * Ticks = v.n
<1> DEFINE q == v.n \div Ticks
<1>2. q \in Int /\ v.n = (Ticks * q) + (v.n % Ticks)
  BY TicksIn, Division
<1>3. v.n = Ticks * q
  <2> HIDE DEF q
  <2>1. QED BY TicksIn, <1>2, SMT DEF IsWhole
<1>4. q * Ticks = v.n
  <2> HIDE DEF q
  <2>1. QED BY TicksIn, <1>2, <1>3, SMT
<1>5. QED BY <1>2, <1>4

\* Any number is read as an intmax_t.
LEMMA ReadIn ==
  ASSUME NEW v, v.n \in Int, lua \in {"integer", "double"}
  PROVE  lua_tointeger(v) \in Signed /\ lua_tointeger(v) \in Int
<1>1. 0 \in Signed /\ Signed \subseteq Int  BY ConvertAssumption, SMT DEF Signed
<1> DEFINE d == Rounded(v.n)
<1>2. d \in Int  BY RoundedIn
<1>3. Truncate(d, Ticks) \in Int
  <2> HIDE DEF d
  <2>1. QED BY <1>2, TicksIn, Truncated
<1>4. ToInteger(Truncate(d, Ticks)) \in Signed  BY <1>3, ToIntegerIn
<1>5. QED BY <1>1, <1>4 DEF lua_tointeger

\* An integer that this Lua holds is read as it was written.
LEMMA ReadHeld ==
  ASSUME NEW v, NEW k \in Int, v.n = k * Ticks, Held(k), lua \in {"integer", "double"}
  PROVE  lua_tointeger(v) = k
<1>1. Rounded(v.n) = k * Ticks /\ k \in Signed  BY DEF Held
<1>2. Truncate(k * Ticks, Ticks) = k /\ (k * Ticks) % Ticks = 0 /\ (k * Ticks) \div Ticks = k
  BY TicksIn, TruncatedWhole
<1>3. QED BY <1>1, <1>2 DEF lua_tointeger, ToInteger

\* Every Lua holds an integer of a C type that is small.
LEMMA SmallHeld ==
  ASSUME NEW k \in -Exact .. Exact, k \in Signed
  PROVE  k \in Int /\ Held(k)
<1>1. k * Ticks \in Doubles  BY DoubleAssumption
<1>2. QED BY <1>1, ConvertAssumption DEF Held, Rounded, Nearest

\* What is pushed can be read, and what this Lua holds is read as it was pushed.
LEMMA RoundTrip ==
  ASSUME NEW n \in Int, n \in Signed, lua \in {"integer", "double"}
  PROVE  /\ lua_isnumber(lua_pushinteger(n))
         /\ \A d : Source(lua_pushinteger(n), d) \in Signed
         /\ Held(n) => \A d : Source(lua_pushinteger(n), d) = n
<1>1. lua_pushinteger(n).type = "number" /\ lua_pushinteger(n).n \in Int  BY PushedIn
<1>2. \A d : Source(lua_pushinteger(n), d) = lua_tointeger(lua_pushinteger(n))
  BY <1>1 DEF Source
<1>3. lua_tointeger(lua_pushinteger(n)) \in Signed  BY <1>1, ReadIn
<1>4. ASSUME Held(n) PROVE lua_tointeger(lua_pushinteger(n)) = n
  <2>1. lua_pushinteger(n).n = n * Ticks  BY <1>4, PushedExactly DEF Number
  <2>2. QED BY <1>4, <2>1, ReadHeld
<1>5. QED BY <1>1, <1>2, <1>3, <1>4 DEF lua_isnumber

\* The five types of a field.
FieldTypes == {TInt, TUnsigned, TFlag, TOff, TUnsignedLong}

LEMMA LayoutTypes ==
  ASSUME NEW k \in Kinds, NEW f \in DOMAIN Layout[k]
  PROVE  Layout[k][f] \in FieldTypes
<1>1. k \in {"fuse_file_info", "fuse_conn_info", "fuse_operations", "flock",
             "stat", "statvfs"}
  BY DEF Kinds, Layout
<1>2. CASE k = "fuse_file_info"  BY <1>2 DEF Layout, FileInfo, FieldTypes
<1>3. CASE k = "fuse_conn_info"  BY <1>3 DEF Layout, ConnInfo, FieldTypes
<1>4. CASE k = "fuse_operations"  BY <1>4 DEF Layout, OperationFlags, FieldTypes
<1>5. CASE k = "flock"  BY <1>5 DEF Layout, FieldTypes
<1>6. CASE k = "stat"  BY <1>6 DEF Layout, FieldTypes
<1>7. CASE k = "statvfs"  BY <1>7 DEF Layout, FieldTypes
<1>8. QED BY <1>1, <1>2, <1>3, <1>4, <1>5, <1>6, <1>7

\* A field of an integer type holds every integer of its range; a bit-field
\* holds some integer.
LEMMA AssignedIn ==
  ASSUME NEW t \in FieldTypes, NEW n \in t.range
  PROVE  /\ n \in Int /\ Assigned(n, t) \in Int
         /\ t.keeps > 2 => Assigned(n, t) = n
<1>1. PICK low \in Int, values \in Nat \ {0}, keeps \in Nat \ {0} :
        t = CType(low, values, keeps) /\ (keeps = values \/ keeps = 2)
  <2>1. /\ 2 * Long \in Nat \ {0} /\ 2 * Short \in Nat \ {0} /\ 2 \in Nat \ {0}
        /\ -Long \in Int /\ -Short \in Int /\ 0 \in Int
    BY ConvertAssumption, SMT
  <2>2. CASE t = TInt  BY <2>1, <2>2, Zenon DEF TInt
  <2>3. CASE t = TUnsigned  BY <2>1, <2>3, Zenon DEF TUnsigned
  <2>4. CASE t = TFlag  BY <2>1, <2>4, Zenon DEF TFlag
  <2>5. CASE t = TOff  BY <2>1, <2>5, Zenon DEF TOff
  <2>6. CASE t = TUnsignedLong  BY <2>1, <2>6, Zenon DEF TUnsignedLong
  <2>7. QED BY <2>2, <2>3, <2>4, <2>5, <2>6 DEF FieldTypes
<1>2. t.range = low .. low + values - 1 /\ t.low = low /\ t.keeps = keeps
  BY <1>1 DEF CType
<1>3. n \in low .. low + values - 1  BY <1>2
<1>4. n - low \in 0 .. values - 1  BY <1>3, SMT
<1>5. (n - low) % keeps \in Int  BY <1>3, SMT
<1>6. Assigned(n, t) = ((n - low) % keeps) + low  BY <1>2 DEF Assigned
<1>7. ASSUME keeps > 2 PROVE Assigned(n, t) = n
  <2>1. keeps = values  BY <1>1, <1>7
  <2>2. (n - low) % keeps = n - low  BY <1>4, <2>1, Small
  <2>3. QED BY <1>3, <1>6, <2>2, SMT
<1>8. QED BY <1>2, <1>3, <1>5, <1>6, <1>7, SMT

\* Fields and keys of an exchange, and what the types of structures allow.
Filled ==
  /\ kind \in Kinds /\ lua \in {"integer", "double"}
  /\ DOMAIN that = Fields /\ DOMAIN table = Keys
  /\ \A f \in IntegerFields : that[f] \in Int
  /\ kept \in Int
  /\ \A f \in IntegerFields : lua_isnumber(table[f]) => table[f].n \in Int

\* Times that utimens and scripts can leave behind.
Timed ==
  /\ kind = "stat" =>
       \A k \in TimeKeys : table[k].type = "number" => table[k].n \in Int
  /\ asked \in [tv_sec : TOff.range, tv_nsec : 0 .. Second]

IInv == Filled /\ Timed

\* The widest type has the integers of intmax_t.
LEMMA OffRange == TOff.range = Signed /\ Signed \subseteq Int /\ 0 \in Signed
BY ConvertAssumption, SMT DEF TOff, CType, Signed

\* The integer fields are keys and fields, and neither lock_owner nor times.
LEMMA FieldNames ==
  ASSUME kind \in Kinds
  PROVE  /\ IntegerFields \subseteq Keys /\ IntegerFields \subseteq Fields
         /\ "lock_owner" \notin IntegerFields
         /\ IntegerFields \intersect TimeKeys = {}
         /\ Keys \subseteq IntegerFields \union {"lock_owner"} \union TimeKeys
<1>1. "lock_owner" \notin IntegerFields /\ IntegerFields \intersect TimeKeys = {}
  <2>1. kind \in {"fuse_file_info", "fuse_conn_info", "fuse_operations", "flock",
                  "stat", "statvfs"}
    BY DEF Kinds, Layout
  <2>2. CASE kind = "fuse_file_info"
    BY <2>2 DEF Layout, FileInfo, IntegerFields, TimeKeys
  <2>3. CASE kind = "fuse_conn_info"
    BY <2>3 DEF Layout, ConnInfo, IntegerFields, TimeKeys
  <2>4. CASE kind = "fuse_operations"
    BY <2>4 DEF Layout, OperationFlags, IntegerFields, TimeKeys
  <2>5. CASE kind = "flock"  BY <2>5 DEF Layout, IntegerFields, TimeKeys
  <2>6. CASE kind = "stat"  BY <2>6 DEF Layout, IntegerFields, TimeKeys
  <2>7. CASE kind = "statvfs"  BY <2>7 DEF Layout, IntegerFields, TimeKeys
  <2>8. QED BY <2>1, <2>2, <2>3, <2>4, <2>5, <2>6, <2>7
<1>2. QED BY <1>1 DEF Keys, Fields

LEMMA InvInit == Init => IInv
<1> SUFFICES ASSUME Init PROVE IInv
  OBVIOUS
<1>1. /\ kind \in Kinds /\ lua \in {"integer", "double"}
      /\ that = Zero /\ table = Empty /\ kept = 0
  BY DEF Init
<1>2. DOMAIN that = Fields /\ DOMAIN table = Keys
  BY <1>1 DEF Zero, Empty
<1>3. \A f \in IntegerFields : that[f] = 0
  BY <1>1, FieldNames DEF Zero, TimeKeys
<1>4. \A k \in Keys : table[k].type = "nil"
  BY <1>1 DEF Empty, Nil
<1>5. Filled
  <2>1. \A f \in IntegerFields : ~ lua_isnumber(table[f])
    BY <1>1, <1>4, FieldNames DEF lua_isnumber
  <2>2. QED BY <1>1, <1>2, <1>3, <2>1 DEF Filled
<1>6. Timed
  <2>1. kind = "stat" => TimeKeys \subseteq Keys  BY DEF Keys
  <2>2. asked = [tv_sec |-> 0, tv_nsec |-> 0]  BY DEF Init, Timespec
  <2>3. QED BY <1>4, <2>1, <2>2, OffRange, ConvertAssumption, SMT DEF Timed
<1>7. QED BY <1>5, <1>6 DEF IInv

\* An accepted field gets an integer.
LEMMA PulledIn ==
  ASSUME Filled, Accepted, NEW f \in IntegerFields
  PROVE  /\ Pulled[f] = Assigned(Source(table[f], Default(f)), Layout[kind][f])
         /\ Layout[kind][f] \in FieldTypes
         /\ Source(table[f], Default(f)) \in Layout[kind][f].range
         /\ Pulled[f] \in Int
<1>1. f \in Fields /\ f # "lock_owner" /\ f # "st_atim"
  BY FieldNames DEF Filled, TimeKeys
<1>2. Pulled[f] = Assigned(Source(table[f], Default(f)), Layout[kind][f])
  BY <1>1 DEF Pulled
<1>3. Layout[kind][f] \in FieldTypes
  BY LayoutTypes DEF Filled, IntegerFields
<1>4. Source(table[f], Default(f)) \in Layout[kind][f].range
  BY DEF Accepted, Accepts
<1>5. QED BY <1>2, <1>3, <1>4, AssignedIn

\* A script writes some number.
LEMMA LiteralIn ==
  ASSUME NEW n \in ScriptTicks
  PROVE  Literal(n).type = "number" /\ Literal(n).n \in Int
<1>1. n \in Int  BY ConvertAssumption
<1>2. QED BY <1>1, RoundedIn DEF Literal, Number

\* libfuse fills every field with an integer of its type.
LEMMA SuppliedIn ==
  ASSUME kind \in Lent, kept \in Int, NEW s \in Supplied
  PROVE  DOMAIN s = Fields /\ \A f \in IntegerFields : s[f] \in Int
<1>1. TInt.range \subseteq Int /\ TUnsigned.range \subseteq Int /\ TOff.range \subseteq Int
  BY ConvertAssumption, SMT DEF TInt, TUnsigned, TOff, CType
<1>2. CASE kind = "fuse_file_info"
  <2>1. s \in [flags : Kernel \intersect TInt.range, direct_io : {0, 1}, fh : {kept},
                lock_owner : Kernel \intersect TUnsignedLong.range]
    BY <1>2 DEF Supplied
  <2>2. Fields = {"flags", "direct_io", "fh", "lock_owner"}
          /\ IntegerFields = {"flags", "direct_io", "fh"}
    BY <1>2 DEF Fields, Keys, IntegerFields, Layout, FileInfo, TimeKeys
  <2>3. QED BY <1>1, <2>1, <2>2
<1>3. CASE kind = "fuse_conn_info"
  <2>1. s \in [max_write : Kernel \intersect TUnsigned.range]
    BY <1>3 DEF Supplied
  <2>2. Fields = {"max_write"} /\ IntegerFields = {"max_write"}
    BY <1>3 DEF Fields, Keys, IntegerFields, Layout, ConnInfo, TimeKeys
  <2>3. QED BY <1>1, <2>1, <2>2
<1>4. CASE kind = "flock"
  <2>1. s \in [l_type : Kernel \intersect TInt.range, l_start : Kernel \intersect TOff.range]
    BY <1>4 DEF Supplied
  <2>2. Fields = {"l_type", "l_start"} /\ IntegerFields = {"l_type", "l_start"}
    BY <1>4 DEF Fields, Keys, IntegerFields, Layout, TimeKeys
  <2>3. QED BY <1>1, <2>1, <2>2
<1>5. QED BY <1>2, <1>3, <1>4 DEF Lent

LEMMA InvNext == IInv /\ [Next]_vars => IInv'
<1> SUFFICES ASSUME IInv, [Next]_vars PROVE IInv'
  OBVIOUS
<1> USE DEF IInv
<1>0. kind' = kind /\ lua' = lua
  BY DEF Next, Lend, Ask, Utimens, Edit, Take, Refuse, Done, vars
<1>1. kind' \in Kinds /\ Keys' = Keys /\ Fields' = Fields
        /\ IntegerFields' = IntegerFields
  BY <1>0 DEF Filled, Keys, Fields, IntegerFields, TimeKeys
<1>2. ASSUME kept' # kept PROVE Take /\ kind = "fuse_file_info" /\ kept' = that'.fh
  BY <1>2 DEF Next, Lend, Ask, Utimens, Edit, Take, Refuse, Done, vars
<1> DEFINE Numbers(t) == \A f \in IntegerFields : lua_isnumber(t[f]) => t[f].n \in Int
           Clock(t) == \A k \in TimeKeys : t[k].type = "number" => t[k].n \in Int
<1>3. ASSUME DOMAIN that' = Fields, DOMAIN table' = Keys,
             \A f \in IntegerFields : that'[f] \in Int,
             Numbers(table'), kind = "stat" => Clock(table'),
             asked' \in [tv_sec : TOff.range, tv_nsec : 0 .. Second]
      PROVE  IInv'
  <2>1. TimeKeys' = TimeKeys  BY DEF TimeKeys
  <2>2. kept' \in Int
    <3>1. kind = "fuse_file_info" => "fh" \in IntegerFields
      BY DEF IntegerFields, Layout, FileInfo
    <3>2. QED BY <1>3, <1>2, <3>1 DEF Filled
  <2>3. Filled'
    BY <1>0, <1>1, <1>3, <2>2 DEF Filled, lua_isnumber
  <2>4. Timed'
    BY <1>0, <1>3, <2>1 DEF Timed
  <2>5. QED BY <2>3, <2>4
<1>4. CASE Lend
  <2>1. DOMAIN that' = Fields /\ \A f \in IntegerFields : that'[f] \in Int
    BY <1>4, SuppliedIn DEF Lend, Filled
  <2>2. table' = [k \in Keys |-> IF k = "lock_owner" THEN PushOwner(that'[k])
                                 ELSE lua_pushinteger(that'[k])]
    BY <1>4 DEF Lend, Push
  <2>3. Numbers(table')
    <3>1. \A n \in Int : lua_pushinteger(n).n \in Int
      BY PushedIn
    <3>2. QED BY <2>1, <2>2, <3>1, FieldNames DEF Filled
  <2>4. kind # "stat" /\ asked' = asked
    BY <1>4 DEF Lend, Lent
  <2>5. QED BY <1>3, <2>1, <2>2, <2>3, <2>4 DEF Timed
<1>5. CASE Utimens
  <2>1. PICK sec \in Kernel \intersect TOff.range, nsec \in 0 .. Second, k \in TimeKeys :
          /\ asked' = Timespec(sec, nsec)
          /\ table' = [table EXCEPT ![k] = PushTimespec(asked')]
    BY <1>5 DEF Utimens
  <2>2. that' = that  BY <1>5 DEF Utimens
  <2>3. k \notin IntegerFields  BY FieldNames DEF Filled
  <2>4. Numbers(table')  BY <2>1, <2>3, FieldNames DEF Filled
  <2>5. PushTimespec(asked').type = "table"  BY DEF PushTimespec, Times
  <2>6. kind = "stat" => Clock(table')
    <3>1. kind = "stat" => TimeKeys \subseteq Keys  BY DEF Keys
    <3>2. QED BY <2>1, <2>5, <3>1 DEF Filled, Timed
  <2>7. asked' \in [tv_sec : TOff.range, tv_nsec : 0 .. Second]
    BY <2>1, OffRange, SMT DEF Timespec
  <2>8. QED BY <1>3, <2>1, <2>2, <2>4, <2>6, <2>7, SMT DEF Filled
<1>6. CASE Edit
  <2>1. PICK k \in Keys, v \in {Nil, Text, Other} \union {Literal(n) : n \in ScriptTicks}
                                         \union {Digit(n) : n \in ScriptTicks} :
          table' = [table EXCEPT ![k] = v]
    BY <1>6 DEF Edit
  <2>2. v.n \in Int
    BY LiteralIn, ConvertAssumption DEF Nil, Text, Other, Digit
  <2>3. that' = that /\ asked' = asked  BY <1>6 DEF Edit
  <2>4. Numbers(table')  BY <2>1, <2>2, FieldNames DEF Filled
  <2>5. kind = "stat" => Clock(table')
    <3>1. kind = "stat" => TimeKeys \subseteq Keys  BY DEF Keys
    <3>2. QED BY <2>1, <2>2, <3>1 DEF Filled, Timed
  <2>6. QED BY <1>3, <2>1, <2>3, <2>4, <2>5 DEF Filled, Timed
<1>7. CASE Take
  <2>1. that' = Pulled /\ asked' = asked /\ Accepted  BY <1>7 DEF Take
  <2>2. DOMAIN that' = Fields  BY <2>1 DEF Pulled
  <2>3. \A f \in IntegerFields : that'[f] \in Int  BY <2>1, PulledIn
  <2>4. CASE kind \in Lent
    <3>1. table' = [k \in Keys |-> Nil]  BY <1>1, <1>7, <2>4 DEF Take, Empty
    <3>2. Numbers(table')
      BY <3>1, FieldNames DEF Filled, lua_isnumber, Nil
    <3>3. kind # "stat"  BY <2>4 DEF Lent
    <3>4. QED BY <1>3, <2>1, <2>2, <2>3, <3>1, <3>2, <3>3 DEF Timed
  <2>5. CASE kind \notin Lent
    <3>1. table' = table  BY <1>7, <2>5 DEF Take
    <3>2. QED BY <1>3, <2>1, <2>2, <2>3, <3>1 DEF Filled, Timed
  <2>6. QED BY <2>4, <2>5
<1>8. CASE Ask \/ Refuse \/ Done \/ UNCHANGED vars
  <2>1. that' = that /\ table' = table /\ asked' = asked
    BY <1>8 DEF Ask, Refuse, Done, vars
  <2>2. QED BY <1>3, <2>1 DEF Filled, Timed
<1>9. QED BY <1>4, <1>5, <1>6, <1>7, <1>8 DEF Next

LEMMA InvAlways == Spec => []IInv
<1>1. Init => IInv  BY InvInit
<1>2. IInv /\ [Next]_vars => IInv'  BY InvNext
<1>3. QED BY <1>1, <1>2, PTL DEF Spec

-----------------------------------------------------------------------------
(* What libfuse keeps. *)

\* A Lua that keeps x as a number reads x again.
Reads(x) ==
  /\ x \in Int /\ x \in Signed
  /\ lua = "double" => ToInteger(Truncate(Nearest(x * Ticks), Ticks)) = x

(***************************************************************************)
(* While a callback has the table, the structure is what libfuse supplied. *)
(* The file handle is an intmax_t, and a Lua of doubles knows it as one; if*)
(* the script stored an integer that its Lua holds, this is the handle.    *)
(***************************************************************************)
Kept ==
  /\ phase = "script" /\ kind \in Lent => that \in Supplied
  /\ kind = "fuse_file_info" =>
       /\ Reads(kept) /\ kept \in TUnsignedLong.range
       /\ handle = Nil \/ (handle = Number(kept * Ticks) /\ Held(kept))

\* What is read from a number would be read again.
LEMMA ReadAgain ==
  ASSUME NEW v, v.n \in Int, lua \in {"integer", "double"}
  PROVE  Reads(lua_tointeger(v))
<1> DEFINE d == Rounded(v.n)
           q == Truncate(d, Ticks)
           x == lua_tointeger(v)
<1>1. x \in Signed /\ x \in Int  BY ReadIn
<1>2. ASSUME lua = "double" PROVE ToInteger(Truncate(Nearest(x * Ticks), Ticks)) = x
  <2>1. d \in Doubles  BY <1>2, RoundedIn
  <2> HIDE DEF d
  <2>2. q \in Int /\ q * Ticks \in Doubles  BY <2>1, WholePart
  <2>3. x = ToInteger(q)  BY <1>2 DEF lua_tointeger, d
  <2> HIDE DEF q, x
  <2>4. CASE q \in Signed
    <3>1. x = q  BY <2>3, <2>4 DEF ToInteger
    <3>2. Nearest(q * Ticks) = q * Ticks  BY <2>2 DEF Nearest
    <3>3. Truncate(q * Ticks, Ticks) = q  BY <2>2, TicksIn, TruncatedWhole
    <3>4. QED BY <2>3, <3>1, <3>2, <3>3
  <2>5. CASE q \notin Signed
    <3>1. (q > 0) \in BOOLEAN  OBVIOUS
    <3>2. x = Beyond[q > 0]  BY <2>3, <2>5 DEF ToInteger
    <3>3. QED BY <3>1, <3>2, BeyondAssumption
  <2>6. QED BY <2>4, <2>5
<1>3. QED BY <1>1, <1>2 DEF Reads

\* What would be read again is read as it is pushed.
LEMMA ReadsReturned ==
  ASSUME NEW x, Reads(x), lua \in {"integer", "double"}
  PROVE  /\ lua_isnumber(lua_pushinteger(x))
         /\ \A d : Source(lua_pushinteger(x), d) = x
<1> DEFINE v == lua_pushinteger(x)
<1>1. x \in Int /\ x \in Signed  BY DEF Reads
<1>2. x * Ticks \in Int  BY <1>1, TicksIn, SMT
<1>3. ToSigned(x) = x  BY <1>1, SignedSmall DEF Signed
<1>4. v = Number(Rounded(x * Ticks))  BY <1>3 DEF lua_pushinteger
<1>5. v.n = Rounded(x * Ticks) /\ v.type = "number"  BY <1>4 DEF Number
<1>6. Rounded(v.n) = Rounded(x * Ticks)  BY <1>2, <1>5, RoundedIn
<1>7. CASE lua = "double"
  <2>1. Rounded(x * Ticks) = Nearest(x * Ticks)  BY <1>7 DEF Rounded
  <2>2. lua_tointeger(v) = x
    BY <1>6, <1>7, <2>1 DEF lua_tointeger, Reads
  <2>3. QED BY <1>5, <2>2 DEF Source, lua_isnumber
<1>8. CASE lua = "integer"
  <2>1. (x * Ticks) % Ticks = 0 /\ (x * Ticks) \div Ticks = x
    BY <1>1, TicksIn, TruncatedWhole
  <2>2. Held(x)  BY <1>1, <1>8, <2>1 DEF Held, Rounded
  <2>3. QED BY <1>1, <1>8, <2>2, RoundTrip
<1>9. QED BY <1>7, <1>8

\* A handle is taken as it will be read.
LEMMA HandleTaken ==
  ASSUME IInv, Kept, Accepted, phase = "script", kind = "fuse_file_info"
  PROVE  /\ Reads(Pulled.fh) /\ Pulled.fh \in TUnsignedLong.range
         /\ lua_isnumber(table.fh) => Pulled.fh = lua_tointeger(table.fh)
         /\ lua_isnumber(table.fh) => table.fh.n \in Int
<1>1. /\ "fh" \in IntegerFields /\ Layout[kind]["fh"] = TUnsignedLong
      /\ TUnsignedLong.keeps > 2
  BY ConvertAssumption, SMT
     DEF IntegerFields, Layout, FileInfo, TUnsignedLong, CType
<1>2. Filled /\ lua \in {"integer", "double"}  BY DEF IInv, Filled
<1>3. Pulled.fh = Source(table.fh, Default("fh")) /\ Pulled.fh \in TUnsignedLong.range
  BY <1>1, <1>2, PulledIn, AssignedIn
<1>4. Default("fh") = kept
  <2>1. that \in Supplied /\ kind \notin Cleared  BY DEF Kept, Lent, Cleared
  <2>2. that.fh = kept
    <3>1. that \in [flags : Kernel \intersect TInt.range, direct_io : {0, 1}, fh : {kept},
                    lock_owner : Kernel \intersect TUnsignedLong.range]
      BY <2>1 DEF Supplied
    <3>2. QED BY <3>1
  <2>3. QED BY <2>1, <2>2 DEF Default
<1>5. CASE table.fh.type = "nil"
  <2>1. ToSigned(kept) = kept
    BY SignedSmall DEF Kept, Reads, Signed
  <2>2. Pulled.fh = kept  BY <1>3, <1>4, <1>5, <2>1 DEF Source
  <2>3. QED BY <1>3, <1>5, <2>2 DEF Kept, lua_isnumber
<1>6. CASE table.fh.type # "nil"
  <2>1. lua_isnumber(table.fh)  BY <1>1, <1>6 DEF Accepted, Accepts
  <2>2. table.fh.n \in Int  BY <1>1, <1>2, <2>1 DEF Filled
  <2>3. Pulled.fh = lua_tointeger(table.fh)  BY <1>3, <1>6 DEF Source
  <2>4. QED BY <1>2, <1>3, <2>2, <2>3, ReadAgain
<1>7. QED BY <1>5, <1>6

LEMMA KeptInit == Init => Kept
<1> SUFFICES ASSUME Init PROVE Kept
  OBVIOUS
<1>1. phase = "libfuse" /\ kept = 0 /\ handle = Nil /\ lua \in {"integer", "double"}
  BY DEF Init
<1>2. 0 \in Signed /\ 0 \in -Exact .. Exact /\ 0 \in TUnsignedLong.range
  BY ConvertAssumption, SMT DEF Signed, TUnsignedLong, CType
<1>3. 0 * Ticks \in Doubles  BY <1>2, DoubleAssumption
<1>4. Nearest(0 * Ticks) = 0 * Ticks  BY <1>3 DEF Nearest
<1>5. Truncate(0 * Ticks, Ticks) = 0  BY TicksIn, TruncatedWhole
<1>6. Reads(0)  BY <1>2, <1>4, <1>5 DEF Reads, ToInteger
<1>7. QED BY <1>1, <1>2, <1>6 DEF Kept

LEMMA KeptNext == IInv /\ Kept /\ [Next]_vars => Kept'
<1> SUFFICES ASSUME IInv, Kept, [Next]_vars PROVE Kept'
  OBVIOUS
<1>0. kind' = kind /\ lua' = lua /\ Lent' = Lent
  BY DEF Next, Lend, Ask, Utimens, Edit, Take, Refuse, Done, vars, Lent
<1> DEFINE Handled(k, h) ==
             /\ Reads(k) /\ k \in TUnsignedLong.range
             /\ h = Nil \/ (h = Number(k * Ticks) /\ Held(k))
<1>1. ASSUME kind = "fuse_file_info", Handled(kept', handle')
      PROVE  (Reads(kept) /\ kept \in TUnsignedLong.range /\
                (handle = Nil \/ (handle = Number(kept * Ticks) /\ Held(kept))))'
  BY <1>0, <1>1 DEF Reads, Held, Rounded
<1>2. ASSUME phase' = "script" /\ kind \in Lent => that' \in Supplied,
             kept' = kept, handle' = handle
      PROVE  Kept'
  <2>1. Supplied' = Supplied  BY <1>0, <1>2 DEF Supplied
  <2>2. kind = "fuse_file_info" => Handled(kept', handle')  BY <1>2 DEF Kept
  <2>3. QED BY <1>0, <1>1, <1>2, <2>1, <2>2 DEF Kept
<1>3. CASE Lend
  BY <1>2, <1>3 DEF Lend
<1>4. CASE Take
  <2>1. Accepted /\ phase = "script" /\ phase' = "libfuse" /\ that' = Pulled
    BY <1>4 DEF Take
  <2>2. CASE kind = "fuse_file_info" /\ ~opened
    <3>1. kept' = Pulled.fh
      BY <1>4, <2>1, <2>2 DEF Take
    <3>2. Reads(kept') /\ kept' \in TUnsignedLong.range
      BY <2>1, <2>2, <3>1, HandleTaken
    <3>3. CASE lua_isnumber(table.fh) /\ IsWhole(table.fh) /\ Held(table.fh.n \div Ticks)
      <4>1. handle' = Number(table.fh.n)  BY <1>4, <2>2, <3>3 DEF Take
      <4>2. /\ Pulled.fh = lua_tointeger(table.fh) /\ table.fh.n \in Int
            /\ lua \in {"integer", "double"}
        BY <2>1, <2>2, <3>3, HandleTaken DEF IInv, Filled
      <4>3. table.fh.n \div Ticks \in Int /\ (table.fh.n \div Ticks) * Ticks = table.fh.n
        BY <3>3, <4>2, WholeTicks
      <4>4. Pulled.fh = table.fh.n \div Ticks
        BY <3>3, <4>2, <4>3, ReadHeld
      <4>5. Handled(kept', handle')  BY <3>1, <3>2, <3>3, <4>1, <4>3, <4>4
      <4>6. QED BY <1>0, <1>1, <2>1, <2>2, <4>5 DEF Kept
    <3>4. CASE ~ (lua_isnumber(table.fh) /\ IsWhole(table.fh)
                    /\ Held(table.fh.n \div Ticks))
      <4>1. handle' = Nil  BY <1>4, <2>2, <3>4 DEF Take
      <4>2. Handled(kept', handle')  BY <3>2, <4>1
      <4>3. QED BY <1>0, <1>1, <2>1, <2>2, <4>2 DEF Kept
    <3>5. QED BY <3>3, <3>4
  <2>3. CASE ~ (kind = "fuse_file_info" /\ ~opened)
    BY <1>2, <1>4, <2>1, <2>3 DEF Take
  <2>4. QED BY <2>2, <2>3
<1>5. CASE Edit
  BY <1>2, <1>5 DEF Edit, Kept
<1>6. CASE Ask \/ Utimens \/ Refuse
  <2>1. (phase' = "script" => kind \notin Lent) /\ kept' = kept /\ handle' = handle
    BY <1>6 DEF Ask, Utimens, Refuse, Lent
  <2>2. QED BY <1>2, <2>1
<1>7. CASE Done \/ UNCHANGED vars
  BY <1>2, <1>7 DEF Done, vars, Kept
<1>8. QED BY <1>3, <1>4, <1>5, <1>6, <1>7 DEF Next

LEMMA KeptAlways == Spec => [](IInv /\ Kept)
<1>1. Init => IInv /\ Kept  BY InvInit, KeptInit
<1>2. IInv /\ Kept /\ [Next]_vars => (IInv /\ Kept)'  BY InvNext, KeptNext
<1>3. QED BY <1>1, <1>2, PTL DEF Spec

-----------------------------------------------------------------------------
(* The promises. *)

(***************************************************************************)
(* For every width: convert never stores another integer than the one the  *)
(* script wrote, unless it refuses or the field is one bit wide.           *)
(***************************************************************************)
THEOREM NothingWrapsAlways == Spec => []NothingWraps
<1>1. IInv => NothingWraps
  <2> SUFFICES ASSUME IInv, Accepted, NEW f \in IntegerFields,
                      Layout[kind][f].keeps > 2, lua_isnumber(table[f]),
                      IsWhole(table[f]), Held(table[f].n \div Ticks)
               PROVE  Pulled[f] * Ticks = table[f].n
    BY DEF NothingWraps
  <2>1. Filled  BY DEF IInv
  <2>2. table[f].n \in Int  BY <2>1 DEF Filled
  <2>3. Source(table[f], Default(f)) = lua_tointeger(table[f])
    BY DEF Source, lua_isnumber
  <2>4. Pulled[f] = Source(table[f], Default(f))
    BY <2>1, PulledIn, AssignedIn
  <2>5. QED BY <2>1, <2>2, <2>3, <2>4, ReadHeld, WholeTicks DEF Filled
<1>2. QED BY <1>1, InvAlways, PTL

(***************************************************************************)
(* For every width: convert fills a stat or statvfs with 0 wherever the    *)
(* table has no field, whatever the structure held.                        *)
(***************************************************************************)
THEOREM NothingStaleAlways == Spec => []NothingStale
<1>1. IInv => NothingStale
  <2> SUFFICES ASSUME IInv, kind \in Cleared, NEW f \in Fields \ TimeKeys, table[f] = Nil
               PROVE  Pulled[f] = 0
    BY DEF NothingStale
  <2>1. Filled  BY DEF IInv
  <2>2. f \in Fields /\ f \in IntegerFields /\ f # "lock_owner" /\ f # "st_atim"
    <3>1. kind # "fuse_file_info"  BY DEF Cleared
    <3>2. f \in Keys  BY DEF Fields
    <3>3. f \in IntegerFields  BY <3>1, <3>2 DEF Keys
    <3>4. QED BY <2>1, <3>3, FieldNames DEF Filled, TimeKeys
  <2>3. Source(table[f], Default(f)) = ToSigned(0)
    BY DEF Source, Default, Nil
  <2>4. ToSigned(0) = 0
    <3>1. 0 \in -Long .. Long - 1  BY ConvertAssumption, SMT
    <3>2. QED BY <3>1, SignedSmall
  <2>5. Pulled[f] = Assigned(0, Layout[kind][f])
    BY <2>2, <2>3, <2>4 DEF Pulled
  <2>6. Layout[kind][f] \in {TUnsigned, TOff, TUnsignedLong}
    <3>1. CASE kind = "stat"  BY <2>2, <3>1 DEF IntegerFields, Layout
    <3>2. CASE kind = "statvfs"  BY <2>2, <3>2 DEF IntegerFields, Layout
    <3>3. QED BY <3>1, <3>2 DEF Cleared
  <2>7. \A t \in {TUnsigned, TOff, TUnsignedLong} : 0 \in t.range /\ t.keeps > 2
    BY ConvertAssumption, SMT DEF TUnsigned, TOff, TUnsignedLong, CType
  <2>8. QED BY <2>5, <2>6, <2>7, AssignedIn DEF FieldTypes
<1>2. QED BY <1>1, InvAlways, PTL

\* Truncation of a number that lies between two multiples.
LEMMA TruncatedBetween ==
  ASSUME NEW d \in Nat \ {0}, NEW a \in Nat, NEW r \in Int, a * d <= r, r <= (a + 1) * d
  PROVE  /\ Truncate(r, d) \in {a, a + 1}
         /\ r < (a + 1) * d => Truncate(r, d) = a
         /\ Truncate(-r, d) = -Truncate(r, d)
<1> DEFINE q == Truncate(r, d)
<1>1. a \in Int /\ a + 1 \in Int /\ a + 2 \in Int  OBVIOUS
<1>2. a * d \in Int /\ (a + 1) * d \in Int /\ a * d >= 0
  BY SMT
<1>3. r >= 0  BY <1>2, SMT
<1>4. q \in Int /\ q * d \in Int /\ q >= 0 /\ r - q * d \in 0 .. d - 1
  BY <1>3, Truncated
<1>5. Truncate(-r, d) = -q
  <2>1. CASE r = 0
    <3>1. 0 * d = 0  BY SMT
    <3>2. 0 \in Int /\ Truncate(0 * d, d) = 0  BY TruncatedWhole
    <3>3. Truncate(0, d) = 0  BY <3>1, <3>2
    <3>4. q = 0  BY <2>1, <3>3
    <3>5. \A z \in Int : z >= 0 /\ z <= 0 => -z = z
      BY SMT
    <3>6. r >= 0 /\ r <= 0  BY <2>1, SMT
    <3>7. q \in Int /\ q >= 0 /\ q <= 0
      <4> HIDE DEF q
      <4>1. q <= 0  BY <3>4, SMT
      <4>2. QED BY <1>4, <4>1
    <3>8. -r = r /\ -q = q  BY <3>5, <3>6, <3>7
    <3>9. QED BY <3>8
  <2>2. CASE r > 0
    <3>1. ~ (-r >= 0) /\ -(-r) = r  BY <2>2, SMT
    <3>2. QED BY <1>3, <3>1 DEF Truncate
  <2>3. QED BY <1>3, <2>1, <2>2, SMT
<1> HIDE DEF q
<1>6. a <= q
  <2>1. SUFFICES ASSUME q < a PROVE FALSE  BY <1>1, <1>4, SMT
  <2>2. q * d + d <= a * d  BY <1>1, <1>4, <2>1, Ordered
  <2>3. QED BY <1>2, <1>4, <2>2, SMT
<1>7. q <= a + 1
  <2>1. SUFFICES ASSUME a + 1 < q PROVE FALSE  BY <1>1, <1>4, SMT
  <2>2. (a + 1) * d + d <= q * d  BY <1>1, <1>4, <2>1, Ordered
  <2>3. QED BY <1>2, <1>4, <2>2, SMT
<1>8. ASSUME r < (a + 1) * d PROVE q = a
  <2>1. q # a + 1  BY <1>2, <1>4, <1>8, SMT
  <2>2. QED BY <1>4, <1>6, <1>7, <2>1, SMT
<1>9. q \in {a, a + 1}  BY <1>4, <1>6, <1>7, SMT
<1>10. QED BY <1>5, <1>8, <1>9 DEF q

\* The double for f units is less than a second, and at most the truncated
\* fraction's successor.
LEMMA FractionUp ==
  ASSUME NEW f \in Doubles, 0 <= f, f < Ticks
  PROVE  LET p == f * Second
             a == Truncate(p, Ticks)
         IN  /\ p \in Int /\ a \in 0 .. Second - 1 /\ Truncate(-p, Ticks) = -a
             /\ a * Ticks \in Doubles /\ (a + 1) * Ticks \in Doubles
             /\ -(a * Ticks) \in Doubles /\ -((a + 1) * Ticks) \in Doubles
             /\ a * Ticks <= p /\ p < (a + 1) * Ticks
             /\ a + 1 = Second => \E d \in Doubles :
                  Distance(d, p) < Distance((a + 1) * Ticks, p)
<1> DEFINE p == f * Second
           a == Truncate(p, Ticks)
<1>1. /\ f \in Int /\ Second \in Nat \ {0, 1} /\ Second <= Exact /\ Exact \in Nat
      /\ Ticks \in Nat \ {0}
  BY DoubleAssumption, ConvertAssumption
<1>2. p \in Int /\ 0 <= p /\ Ticks * Second \in Int /\ p < Ticks * Second
  <2>1. p \in Int /\ Ticks * Second \in Int  BY <1>1, SMT
  <2>2. 0 <= p  BY <1>1, SMT
  <2>3. f * Second + Second <= Ticks * Second
    BY <1>1, Ordered
  <2>4. QED BY <1>1, <2>1, <2>2, <2>3, SMT
<1>3. a \in Int /\ a >= 0 /\ a * Ticks \in Int /\ p - a * Ticks \in 0 .. Ticks - 1
  <2> HIDE DEF p
  <2>1. QED BY <1>1, <1>2, Truncated
<1> HIDE DEF a, p
<1>4. (a + 1) * Ticks = a * Ticks + Ticks /\ a + 1 \in Int  BY <1>1, <1>3, SMT
<1>5. a * Ticks <= p /\ p < (a + 1) * Ticks  BY <1>1, <1>2, <1>3, <1>4, SMT
<1>6. a \in 0 .. Second - 1
  <2>1. Second * Ticks = Ticks * Second  BY <1>1, SMT
  <2>2. a * Ticks < Second * Ticks  BY <1>2, <1>3, <1>5, <2>1, SMT
  <2>3. a < Second  BY <1>1, <1>3, <2>2, Ordered
  <2>4. QED BY <1>1, <1>3, <2>3, SMT
<1>7. a \in -Exact .. Exact /\ a + 1 \in -Exact .. Exact
  BY <1>1, <1>6, SMT
<1>8. /\ a * Ticks \in Doubles /\ (a + 1) * Ticks \in Doubles
      /\ -(a * Ticks) \in Doubles /\ -((a + 1) * Ticks) \in Doubles
  BY <1>7, DoubleAssumption
<1>9. Truncate(-p, Ticks) = -a
  <2>1. a \in Nat /\ p <= (a + 1) * Ticks
    <3>1. (a + 1) * Ticks \in Int  BY <1>1, <1>3, <1>4, SMT
    <3>2. QED BY <1>2, <1>3, <1>5, <3>1, SMT
  <2>2. Truncate(-p, Ticks) = -Truncate(p, Ticks)
    BY <1>1, <1>2, <1>5, <2>1, TruncatedBetween
  <2>3. QED BY <2>2 DEF a
<1>10. ASSUME a + 1 = Second
       PROVE  \E d \in Doubles : Distance(d, p) < Distance((a + 1) * Ticks, p)
  <2>1. f # 0
    <3>1. SUFFICES ASSUME f = 0 PROVE FALSE  OBVIOUS
    <3>2. p = 0  BY <1>1, <3>1, SMT DEF p
    <3>3. 0 * Ticks = 0  BY <1>1, SMT
    <3>4. a = 0  BY <1>1, <3>2, <3>3, TruncatedWhole DEF a
    <3>5. QED BY <1>1, <1>10, <3>4
  <2>2. 0 < f  BY <1>1, <2>1, SMT
  <2>3. QED BY <1>10, <2>2, SecondAssumption DEF p
<1>11. QED BY <1>2, <1>5, <1>6, <1>8, <1>9, <1>10 DEF a, p

\* The double nearest to p, and what is left of it, when p is positive.
LEMMA RoundedUp ==
  ASSUME NEW f \in Doubles, 0 <= f, f < Ticks
  PROVE  LET a == Truncate(f * Second, Ticks)
         IN  Truncate(Nearest(f * Second), Ticks)
               \in {a, a + 1} \intersect (0 .. Second - 1)
<1> DEFINE p == f * Second
           a == Truncate(p, Ticks)
           r == Nearest(p)
<1>1. /\ p \in Int /\ a \in 0 .. Second - 1
      /\ a * Ticks \in Doubles /\ (a + 1) * Ticks \in Doubles
      /\ a * Ticks <= p /\ p < (a + 1) * Ticks
      /\ a + 1 = Second => \E d \in Doubles :
           Distance(d, p) < Distance((a + 1) * Ticks, p)
  BY FractionUp
<1> HIDE DEF a, p
<1>2. a \in Nat /\ Second \in Nat /\ a * Ticks \in Int /\ (a + 1) * Ticks \in Int
  BY <1>1, ConvertAssumption, DoubleAssumption
<1>3. p <= (a + 1) * Ticks  BY <1>1, <1>2, SMT
<1>4. /\ a * Ticks <= r /\ r <= (a + 1) * Ticks
      /\ r \in Int /\ \A d \in Doubles : Distance(r, p) <= Distance(d, p)
  BY <1>1, <1>3, NearestBetween, NearestIn
<1> HIDE DEF r
<1>5. Truncate(r, Ticks) \in {a, a + 1} /\ (r < (a + 1) * Ticks => Truncate(r, Ticks) = a)
  BY <1>2, <1>4, TicksIn, TruncatedBetween
<1>6. ASSUME a + 1 = Second PROVE Truncate(r, Ticks) = a
  <2>1. PICK d \in Doubles : Distance(d, p) < Distance((a + 1) * Ticks, p)
    BY <1>1, <1>6
  <2>2. d \in Int  BY DoubleAssumption
  <2>3. r # (a + 1) * Ticks
    BY <1>1, <1>2, <1>4, <2>1, <2>2, SMT DEF Distance
  <2>4. QED BY <1>2, <1>4, <1>5, <2>3, SMT
<1>7. Truncate(r, Ticks) \in {a, a + 1} \intersect (0 .. Second - 1)
  BY <1>1, <1>2, <1>5, <1>6, SMT
<1>8. QED BY <1>7 DEF r, a, p

\* The same when p is negative.
LEMMA RoundedDown ==
  ASSUME NEW f \in Doubles, f <= 0, -f < Ticks
  PROVE  LET b == Truncate(f * Second, Ticks)
         IN  Truncate(Nearest(f * Second), Ticks)
               \in {b, b - 1} \intersect (-(Second - 1) .. 0)
<1> DEFINE p == (-f) * Second
           a == Truncate(p, Ticks)
           r == Nearest(f * Second)
<1>1. f \in Int /\ -f \in Doubles /\ 0 <= -f /\ Second \in Nat
  <2>1. f \in Int /\ -f \in Doubles  BY DoubleAssumption
  <2>2. QED BY <2>1, ConvertAssumption, SMT
<1>2. /\ p \in Int /\ a \in 0 .. Second - 1 /\ Truncate(-p, Ticks) = -a
      /\ a * Ticks \in Doubles /\ (a + 1) * Ticks \in Doubles
      /\ -(a * Ticks) \in Doubles /\ -((a + 1) * Ticks) \in Doubles
      /\ a * Ticks <= p /\ p < (a + 1) * Ticks
      /\ a + 1 = Second => \E d \in Doubles :
           Distance(d, p) < Distance((a + 1) * Ticks, p)
  BY <1>1, FractionUp
<1>3. f * Second = -p  BY <1>1, SMT
<1> HIDE DEF a, p
<1>4. a \in Nat /\ a * Ticks \in Int /\ (a + 1) * Ticks \in Int
  <2>1. a \in Nat  BY <1>1, <1>2, SMT
  <2>2. a * Ticks \in Int /\ (a + 1) * Ticks \in Int  BY <1>2, DoubleAssumption
  <2>3. QED BY <2>1, <2>2
<1>5. -((a + 1) * Ticks) <= -p /\ -p <= -(a * Ticks) /\ -p \in Int
  BY <1>2, <1>4, SMT
<1>6. r = Nearest(-p)  BY <1>3
<1>7. /\ -((a + 1) * Ticks) <= r /\ r <= -(a * Ticks)
      /\ r \in Int /\ \A d \in Doubles : Distance(r, -p) <= Distance(d, -p)
  BY <1>2, <1>5, <1>6, NearestBetween, NearestIn
<1> HIDE DEF r
<1>8. a * Ticks <= -r /\ -r <= (a + 1) * Ticks /\ -r \in Int /\ -(-r) = r
  BY <1>4, <1>7, SMT
<1>9. /\ Truncate(-r, Ticks) \in {a, a + 1}
      /\ -r < (a + 1) * Ticks => Truncate(-r, Ticks) = a
      /\ Truncate(r, Ticks) = -Truncate(-r, Ticks)
  <2> DEFINE s == -r
  <2>1. a * Ticks <= s /\ s <= (a + 1) * Ticks /\ s \in Int /\ -s = r
    BY <1>8
  <2> HIDE DEF s
  <2>2. /\ Truncate(s, Ticks) \in {a, a + 1}
        /\ s < (a + 1) * Ticks => Truncate(s, Ticks) = a
        /\ Truncate(-s, Ticks) = -Truncate(s, Ticks)
    BY <1>4, <2>1, TicksIn, TruncatedBetween
  <2>3. QED BY <2>1, <2>2 DEF s
<1>10. ASSUME a + 1 = Second PROVE Truncate(-r, Ticks) = a
  <2>1. PICK d \in Doubles : Distance(d, p) < Distance((a + 1) * Ticks, p)
    BY <1>2, <1>10
  <2>2. d \in Int /\ -d \in Doubles  BY DoubleAssumption
  <2>3. Distance(r, -p) <= Distance(-d, -p)  BY <1>7, <2>2
  <2>4. -r # (a + 1) * Ticks
    BY <1>2, <1>4, <1>7, <2>1, <2>2, <2>3, SMT DEF Distance
  <2>5. QED BY <1>4, <1>8, <1>9, <2>4, SMT
<1>11. Truncate(r, Ticks) \in {-a, -a - 1} \intersect (-(Second - 1) .. 0)
  <2> DEFINE t == Truncate(-r, Ticks)
  <2>1. t \in {a, a + 1} /\ (a + 1 = Second => t = a) /\ Truncate(r, Ticks) = -t
    BY <1>9, <1>10
  <2> HIDE DEF t
  <2>2. QED BY <1>1, <1>2, <1>4, <2>1, SMT
<1>12. Truncate(f * Second, Ticks) = -a  BY <1>2, <1>3
<1>13. QED BY <1>11, <1>12 DEF r

(***************************************************************************)
(* For every format of doubles and every unit of tv_nsec in which 1 is not *)
(* rounded up to from below: modf, the rounded product and the conversion  *)
(* of both parts split a time into whole seconds and less than one second, *)
(* which is off by at most one unit.                                       *)
(***************************************************************************)
THEOREM TimeSplitAlways == Spec => []TimeSplit
<1>1. IInv => TimeSplit
  <2> DEFINE n == lua_tonumber(table[TimeKey])
             sec == Truncate(n, Ticks)
             f == n - sec * Ticks
             nsec == Truncate(f * Second, Ticks)
             t == Pulled.st_atim
  <2> SUFFICES ASSUME IInv, kind = "stat", table[TimeKey].type = "number"
               PROVE  /\ sec \in Signed => t.tv_sec = sec
                      /\ n >= 0 => t.tv_nsec \in {nsec, nsec + 1} \intersect (0 .. Second - 1)
                      /\ n < 0 => t.tv_nsec \in {nsec, nsec - 1} \intersect (-(Second - 1) .. 0)
    BY DEF TimeSplit
  <2>1. TimeKey \in TimeKeys  BY DEF TimeKey, TimeKeys
  <2>2. n \in Doubles
    <3>1. table[TimeKey].n \in Int  BY <2>1 DEF IInv, Timed
    <3>2. QED BY <3>1, NearestIn DEF lua_tonumber
  <2>3. "st_atim" \in Fields  BY DEF Fields, Keys, TimeKeys
  <2>4. t = SplitTime(n)
    <3>1. t = PullTime  BY <2>3 DEF Pulled
    <3>2. PullTime = SplitTime(n)  BY DEF PullTime
    <3>3. QED BY <3>1, <3>2
  <2>5. t.tv_sec = ToInteger(sec) /\ t.tv_nsec = Truncate(Nearest(f * Second), Ticks)
    BY <2>4 DEF SplitTime, Timespec
  <2> HIDE DEF n, t
  <2>6. n \in Int /\ f \in Doubles  BY <2>2, DoubleAssumption
  <2>7. /\ n >= 0 => f \in 0 .. Ticks - 1
        /\ n < 0 => f \in -(Ticks - 1) .. 0
    BY <2>6, TicksIn, Truncated
  <2> HIDE DEF sec, f
  <2>8. sec \in Signed => t.tv_sec = sec  BY <2>5 DEF ToInteger
  <2>9. ASSUME n >= 0 PROVE t.tv_nsec \in {nsec, nsec + 1} \intersect (0 .. Second - 1)
    <3>1. 0 <= f /\ f < Ticks  BY <2>7, <2>9, TicksIn, SMT
    <3>2. QED BY <2>5, <2>6, <3>1, RoundedUp
  <2>10. ASSUME n < 0 PROVE t.tv_nsec \in {nsec, nsec - 1} \intersect (-(Second - 1) .. 0)
    <3>1. f <= 0 /\ -f < Ticks  BY <2>7, <2>10, TicksIn, SMT
    <3>2. QED BY <2>5, <2>6, <3>1, RoundedDown
  <2>11. QED BY <2>8, <2>9, <2>10
<1>2. QED BY <1>1, InvAlways, PTL

(***************************************************************************)
(* For every width: what utimens was given under the native name is what   *)
(* getattr answers, for every tv_sec that this Lua can hold; another tv_sec*)
(* is accepted, too, and its tv_nsec is kept.                              *)
(***************************************************************************)
THEOREM TimeReturnedAlways == Spec => []TimeReturned
<1>1. IInv => TimeReturned
  <2> DEFINE sec == asked.tv_sec
             nsec == asked.tv_nsec
             v == table.st_atim
  <2> SUFFICES ASSUME IInv, kind = "stat", nsec < Second, v = PushTimespec(asked)
               PROVE  /\ TimeAccepted /\ Pulled.st_atim.tv_nsec = nsec
                      /\ Held(sec) => Pulled.st_atim.tv_sec = sec
    BY DEF TimeReturned
  <2>1. /\ sec \in Int /\ sec \in Signed /\ lua \in {"integer", "double"}
        /\ nsec \in 0 .. Second - 1
    <3>1. sec \in TOff.range /\ nsec \in 0 .. Second /\ lua \in {"integer", "double"}
      BY DEF IInv, Filled, Timed
    <3>2. Second \in Nat  BY ConvertAssumption
    <3> HIDE DEF sec, nsec
    <3>3. sec \in Int /\ sec \in Signed  BY <3>1, OffRange
    <3>4. nsec \in 0 .. Second - 1
      <4>1. nsec < Second  BY DEF nsec
      <4>2. QED BY <3>1, <3>2, <4>1, SMT
    <3>5. QED BY <3>1, <3>3, <3>4
  <2>2. nsec \in -Exact .. Exact /\ nsec \in Signed /\ nsec \in Int
    BY <2>1, ConvertAssumption, SMT DEF Signed
  <2>3. v.type = "table" /\ v.tv_sec = lua_pushinteger(sec)
          /\ v.tv_nsec = lua_pushinteger(nsec)
    BY DEF PushTimespec, Times
  <2>4. TimeKey = "st_atim"  BY <2>3 DEF TimeKey, HasTime
  <2> HIDE DEF sec, nsec, v
  <2>5. /\ lua_isnumber(v.tv_sec) /\ Source(v.tv_sec, 0) \in TOff.range
        /\ Held(sec) => Source(v.tv_sec, 0) = sec
    BY <2>1, <2>3, RoundTrip, OffRange
  <2>6. lua_isnumber(v.tv_nsec) /\ Source(v.tv_nsec, 0) = nsec
    BY <2>1, <2>2, <2>3, SmallHeld, RoundTrip
  <2>7. TimeAccepted
    <3>1. Accepts(v.tv_sec, 0, TOff.range)  BY <2>5 DEF Accepts
    <3>2. Accepts(v.tv_nsec, 0, 0 .. Second - 1)  BY <2>1, <2>6 DEF Accepts
    <3>3. QED BY <2>4, <3>1, <3>2 DEF TimeAccepted, v
  <2>8. "st_atim" \in Fields  BY DEF Fields, Keys, TimeKeys
  <2>9. Pulled.st_atim = PullTime  BY <2>8 DEF Pulled
  <2>10. PullTime = Timespec(Source(v.tv_sec, 0), Source(v.tv_nsec, 0))
    BY <2>3, <2>4 DEF PullTime, v
  <2>11. QED BY <2>5, <2>6, <2>7, <2>9, <2>10 DEF Timespec
<1>2. QED BY <1>1, InvAlways, PTL

\* An unsigned integer is extracted from its digits.
LEMMA OwnerReturned ==
  ASSUME NEW n \in 0 .. 2 * Long - 1
  PROVE  PullOwner(PushOwner(n)) = n
<1>1. 2 * Long \in Nat \ {0} /\ n \in 0 .. (2 * Long) - 1 /\ n \in Int /\ n >= 0
  BY ConvertAssumption, SMT
<1>2. Truncate(n * Ticks, Ticks) = n  BY <1>1, TicksIn, TruncatedWhole
<1>3. n % (2 * Long) = n  BY <1>1, Small
<1>4. Extracted(n) = n  BY <1>1, <1>3, SMT DEF Extracted, Distance
<1>5. QED BY <1>2, <1>4 DEF PullOwner, PushOwner, Digit, lua_isnumber

\* Every Lua gives back an int, an unsigned int and a flag.
LEMMA SmallReturned ==
  ASSUME NEW t \in {TInt, TUnsigned, TFlag}, NEW x \in t.range, lua \in {"integer", "double"}
  PROVE  /\ lua_isnumber(lua_pushinteger(x))
         /\ \A d : Source(lua_pushinteger(x), d) = x
<1>1. x \in -Exact .. Exact /\ x \in Signed
  BY ConvertAssumption, SMT DEF TInt, TUnsigned, TFlag, CType, Signed
<1>2. x \in Int /\ Held(x)  BY <1>1, SmallHeld
<1>3. QED BY <1>1, <1>2, RoundTrip

\* What an untouched field of type t is read as.
Given(v, x, t) == lua_isnumber(v) /\ \A d : Source(v, d) \in t.range /\ Source(v, d) = x

(***************************************************************************)
(* For every width, every set of doubles and whatever libfuse supplies: a  *)
(* callback that leaves its table alone changes nothing, except an l_start *)
(* that a Lua of doubles cannot hold.                                      *)
(***************************************************************************)
THEOREM UntouchedAlways == Spec => []Untouched
<1>1. IInv /\ Kept => Untouched
  <2> SUFFICES ASSUME IInv, Kept, phase = "script", kind \in Lent, table = Push(that)
               PROVE  /\ Accepted
                      /\ \A f \in Fields : Pulled[f] # that[f] =>
                           f = "l_start" /\ lua = "double" /\ ~Held(that[f])
    BY DEF Untouched
  <2>1. /\ Filled /\ lua \in {"integer", "double"} /\ that \in Supplied
        /\ IntegerFields \subseteq Keys /\ IntegerFields \subseteq Fields
        /\ "lock_owner" \notin IntegerFields
    BY FieldNames DEF IInv, Filled, Kept
  <2>2. ASSUME NEW f \in IntegerFields PROVE table[f] = lua_pushinteger(that[f])
    BY <2>1, <2>2 DEF Push
  <2>3. ASSUME NEW f \in IntegerFields, NEW t \in {TInt, TUnsigned, TFlag},
               Layout[kind][f] = t, that[f] \in t.range
        PROVE  Given(table[f], that[f], Layout[kind][f])
    BY <2>1, <2>2, <2>3, SmallReturned DEF Given
  <2>4. ASSUME NEW f \in IntegerFields
        PROVE  \/ Given(table[f], that[f], Layout[kind][f])
               \/ /\ f = "l_start" /\ lua = "double" /\ ~Held(that[f])
                  /\ lua_isnumber(table[f])
                  /\ \A d : Source(table[f], d) \in Layout[kind][f].range
    <3>1. CASE kind = "fuse_file_info"
      <4>1. that \in [flags : Kernel \intersect TInt.range, direct_io : {0, 1}, fh : {kept},
                      lock_owner : Kernel \intersect TUnsignedLong.range]
        BY <2>1, <3>1 DEF Supplied
      <4>2. f \in {"flags", "direct_io", "fh"}
        BY <3>1 DEF IntegerFields, Layout, FileInfo
      <4>3. /\ Layout[kind]["flags"] = TInt /\ Layout[kind]["direct_io"] = TFlag
            /\ Layout[kind]["fh"] = TUnsignedLong
        BY <3>1 DEF Layout, FileInfo
      <4>4. {0, 1} \subseteq TFlag.range
        BY ConvertAssumption, SMT DEF TFlag, CType
      <4>5. CASE f = "flags"
        <5>1. that[f] \in TInt.range  BY <4>1, <4>5
        <5>2. QED BY <2>3, <4>3, <4>5, <5>1
      <4>6. CASE f = "direct_io"
        <5>1. that[f] \in TFlag.range  BY <4>1, <4>4, <4>6
        <5>2. QED BY <2>3, <4>3, <4>6, <5>1
      <4>7. CASE f = "fh"
        <5>1. that[f] = kept  BY <4>1, <4>7
        <5>2. Reads(kept) /\ kept \in TUnsignedLong.range  BY <3>1 DEF Kept
        <5>3. QED BY <2>1, <2>2, <4>3, <4>7, <5>1, <5>2, ReadsReturned DEF Given
      <4>8. QED BY <4>2, <4>5, <4>6, <4>7
    <3>2. CASE kind = "fuse_conn_info"
      <4>1. that \in [max_write : Kernel \intersect TUnsigned.range]
        BY <2>1, <3>2 DEF Supplied
      <4>2. f = "max_write"  BY <3>2 DEF IntegerFields, Layout, ConnInfo
      <4>3. Layout[kind]["max_write"] = TUnsigned  BY <3>2 DEF Layout, ConnInfo
      <4>4. that[f] \in TUnsigned.range  BY <4>1, <4>2
      <4>5. QED BY <2>3, <4>2, <4>3, <4>4
    <3>3. CASE kind = "flock"
      <4>1. that \in [l_type : Kernel \intersect TInt.range,
                      l_start : Kernel \intersect TOff.range]
        BY <2>1, <3>3 DEF Supplied
      <4>2. f \in {"l_type", "l_start"}  BY <3>3 DEF IntegerFields, Layout
      <4>3. Layout[kind]["l_type"] = TInt /\ Layout[kind]["l_start"] = TOff
        BY <3>3 DEF Layout
      <4>4. CASE f = "l_type"
        <5>1. that[f] \in TInt.range  BY <4>1, <4>4
        <5>2. QED BY <2>3, <4>3, <4>4, <5>1
      <4>5. CASE f = "l_start"
        <5>1. that[f] \in TOff.range  BY <4>1, <4>5
        <5>2. that[f] \in Int /\ that[f] \in Signed  BY <5>1, OffRange
        <5>3. /\ lua_isnumber(table[f]) /\ \A d : Source(table[f], d) \in TOff.range
              /\ Held(that[f]) => \A d : Source(table[f], d) = that[f]
          BY <2>1, <2>2, <5>2, RoundTrip, OffRange
        <5>4. ASSUME lua = "integer" PROVE Held(that[f])
          <6>1. /\ (that[f] * Ticks) % Ticks = 0
                /\ (that[f] * Ticks) \div Ticks = that[f]
            BY <5>2, TicksIn, TruncatedWhole
          <6>2. QED BY <5>2, <5>4, <6>1 DEF Held, Rounded
        <5>5. QED BY <2>1, <4>3, <4>5, <5>3, <5>4 DEF Given
      <4>6. QED BY <4>2, <4>4, <4>5
    <3>4. QED BY <3>1, <3>2, <3>3 DEF Lent
  <2>5. kind # "stat"  BY DEF Lent
  <2>6. Accepted
    BY <2>4, <2>5 DEF Accepted, Accepts, Given
  <2>7. ASSUME NEW f \in Fields, Pulled[f] # that[f]
        PROVE  f = "l_start" /\ lua = "double" /\ ~Held(that[f])
    <3>1. f \in IntegerFields \/ (f = "lock_owner" /\ kind = "fuse_file_info")
      BY <2>5, <2>7 DEF Fields, Keys, TimeKeys
    <3>2. CASE f \in IntegerFields
      <4>1. SUFFICES ASSUME Given(table[f], that[f], Layout[kind][f]) PROVE FALSE
        BY <2>4, <3>2
      <4>2. /\ Pulled[f] = Assigned(Source(table[f], Default(f)), Layout[kind][f])
            /\ Layout[kind][f] \in FieldTypes
        BY <2>1, <2>6, <3>2, PulledIn
      <4>3. Source(table[f], Default(f)) = that[f] /\ that[f] \in Layout[kind][f].range
        BY <4>1 DEF Given
      <4>4. CASE Layout[kind][f].keeps > 2
        BY <2>7, <4>2, <4>3, <4>4, AssignedIn
      <4>5. CASE ~ (Layout[kind][f].keeps > 2)
        <5>1. Layout[kind][f] = TFlag
          BY <4>2, <4>5, ConvertAssumption, SMT DEF FieldTypes, TInt, TUnsigned, TOff,
             TUnsignedLong, CType
        <5>2. f = "direct_io" /\ kind = "fuse_file_info"
          <6>1. \A t \in {TInt, TUnsigned, TOff, TUnsignedLong} : t # TFlag
            BY ConvertAssumption, SMT DEF TInt, TUnsigned, TOff, TUnsignedLong, TFlag, CType
          <6>2. QED BY <3>2, <5>1, <6>1 DEF Lent, IntegerFields, Layout, FileInfo, ConnInfo
        <5>3. that[f] \in {0, 1}
          <6>1. that \in [flags : Kernel \intersect TInt.range, direct_io : {0, 1}, fh : {kept},
                          lock_owner : Kernel \intersect TUnsignedLong.range]
            BY <2>1, <5>2 DEF Supplied
          <6>2. QED BY <5>2, <6>1
        <5>4. \A x \in {0, 1} : Assigned(x, TFlag) = x
          BY SMT DEF Assigned, TFlag, CType
        <5>5. QED BY <2>7, <4>2, <4>3, <5>1, <5>3, <5>4
      <4>6. QED BY <4>4, <4>5
    <3>3. CASE f = "lock_owner" /\ kind = "fuse_file_info"
      <4>1. that \in [flags : Kernel \intersect TInt.range, direct_io : {0, 1}, fh : {kept},
                      lock_owner : Kernel \intersect TUnsignedLong.range]
        BY <2>1, <3>3 DEF Supplied
      <4>2. that[f] \in TUnsignedLong.range  BY <3>3, <4>1
      <4>3. TUnsignedLong.range = 0 .. 2 * Long - 1
        BY ConvertAssumption, SMT DEF TUnsignedLong, CType
      <4>4. "lock_owner" \in Keys  BY <3>3 DEF Keys
      <4>5. table[f] = PushOwner(that[f])  BY <3>3, <4>4 DEF Push
      <4>6. Pulled[f] = PullOwner(table[f])  BY <2>7, <3>3 DEF Pulled
      <4>7. QED BY <2>7, <4>2, <4>3, <4>5, <4>6, OwnerReturned
    <3>4. QED BY <3>1, <3>2, <3>3
  <2>8. QED BY <2>6, <2>7
<1>2. QED BY <1>1, KeptAlways, PTL

(***************************************************************************)
(* For every width and every set of doubles: all requests of an open file  *)
(* show the handle that its open stored, if this Lua can hold it.          *)
(***************************************************************************)
THEOREM HandleKeptAlways == Spec => HandleKept
<1>1. ASSUME IInv, Kept, Lend, kind = "fuse_file_info", handle # Nil
      PROVE  table'.fh = handle
  <2>1. "fh" \in Keys /\ "fh" # "lock_owner"
    BY <1>1 DEF IntegerFields, Keys, Layout, FileInfo
  <2>2. kept \in Int /\ Held(kept) /\ handle = Number(kept * Ticks)
    BY <1>1 DEF IInv, Filled, Kept
  <2>3. that'.fh = kept
    <3>1. that' \in [flags : Kernel \intersect TInt.range, direct_io : {0, 1}, fh : {kept},
                     lock_owner : Kernel \intersect TUnsignedLong.range]
      BY <1>1 DEF Lend, Supplied
    <3>2. QED BY <3>1
  <2>4. table'.fh = lua_pushinteger(kept)
    <3>1. table' = Push(that')  BY <1>1 DEF Lend
    <3>2. QED BY <2>1, <2>3, <3>1 DEF Push
  <2>5. QED BY <2>2, <2>4, PushedExactly
<1>2. IInv /\ Kept /\ [Next]_vars =>
        [Lend /\ kind = "fuse_file_info" /\ handle # Nil => table'.fh = handle]_vars
  BY <1>1
<1>3. QED BY <1>2, KeptAlways, PTL DEF Spec, HandleKept
=============================================================================
