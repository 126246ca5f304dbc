--------------------------- MODULE OptRangeProofs ---------------------------
(***************************************************************************)
(* For every width of lua_Integer: the range of luaX_opt_range_i and       *)
(* luaX_opt_range_j is the substring of Lua.  The arithmetic is that of    *)
(* two's complement, so the lemmas first get rid of the modulus.           *)
(***************************************************************************)
EXTENDS OptRange, TLAPS

\* i and j say what the two functions return, once the call has returned.
IInv ==
  /\ size \in 0 .. Huge
  /\ first \in lua_Integer \union {None}
  /\ last \in lua_Integer \union {None}
  /\ returned \in BOOLEAN
  /\ returned => /\ i = luaX_opt_range_i(first, size)
                 /\ j = luaX_opt_range_j(last, size)
  /\ ~returned => i = 0 /\ j = 0

\* A sum of a negative lua_Integer and at most Huge + 1 does not wrap, though
\* C++ computes it as a size_t.
LEMMA SumFromEnd ==
  ASSUME NEW a \in -Huge - 1 .. -1, NEW n \in 0 .. Huge + 1
  PROVE  ToInteger((ToSize(a) + n) % (2 * Huge + 2)) = a + n
<1>1. Huge \in Nat
  BY OptRangeAssumption
<1>2. ToSize(a) + n = a + n + (2 * Huge + 2)
  BY <1>1 DEF ToSize
<1>3. CASE a + n < 0
  <2>1. (a + n + (2 * Huge + 2)) % (2 * Huge + 2) = a + n + (2 * Huge + 2)
    BY <1>1, <1>3
  <2> QED
    BY <1>1, <1>2, <1>3, <2>1 DEF ToInteger
<1>4. CASE a + n >= 0
  <2>1. (a + n + (2 * Huge + 2)) % (2 * Huge + 2) = a + n
    BY <1>1, <1>4
  <2> QED
    BY <1>1, <1>2, <1>4, <2>1 DEF ToInteger
<1> QED
  BY <1>1, <1>3, <1>4

\* luaX_opt_range_i without the modulus: the offset of the first character,
\* and no conversion is needed.
LEMMA FirstOffset ==
  ASSUME NEW n \in 0 .. Huge, NEW arg \in lua_Integer \union {None}
  PROVE  LET a == Opt(arg, 0) IN
         luaX_opt_range_i(arg, n) =
           IF a < 0 THEN IF a + n < 0 THEN 0 ELSE a + n
           ELSE IF a > 0 THEN a - 1 ELSE 0
<1> DEFINE a == Opt(arg, 0)
<1>1. Huge \in Nat /\ a \in lua_Integer
  BY OptRangeAssumption DEF Opt, lua_Integer
<1>2. CASE a < 0
  <2>1. ToInteger((ToSize(a) + n) % (2 * Huge + 2)) = a + n
    BY <1>1, <1>2, SumFromEnd DEF lua_Integer
  <2> QED
    BY <1>1, <1>2, <2>1 DEF luaX_opt_range_i, ToSize, lua_Integer
<1>3. CASE a >= 0
  BY <1>1, <1>3 DEF luaX_opt_range_i, ToSize, lua_Integer
<1> QED
  BY <1>1, <1>2, <1>3 DEF lua_Integer

\* luaX_opt_range_j without the modulus, up to the last conversion.
LEMMA LastOffset ==
  ASSUME NEW n \in 0 .. Huge, NEW arg \in lua_Integer \union {None}
  PROVE  LET a == Opt(arg, n) IN
         luaX_opt_range_j(arg, n) =
           ToSize(IF a < 0 THEN a + n + 1 ELSE IF a > n THEN n ELSE a)
<1> DEFINE a == Opt(arg, n)
<1>1. Huge \in Nat /\ a \in lua_Integer
  BY OptRangeAssumption DEF Opt, lua_Integer
<1>2. CASE a < 0
  <2>1. ToInteger((ToSize(a) + (n + 1)) % (2 * Huge + 2)) = a + (n + 1)
    <3>1. a \in -Huge - 1 .. -1 /\ n + 1 \in 0 .. Huge + 1
      BY <1>1, <1>2 DEF lua_Integer
    <3> QED
      BY <3>1, SumFromEnd
  <2>2. ToSize(a) \in Int
    BY <1>1 DEF ToSize, lua_Integer
  <2>3. /\ ToSize(a) + n + 1 = ToSize(a) + (n + 1)
        /\ a + (n + 1) = a + n + 1
    BY <1>1, <2>2 DEF lua_Integer
  <2> QED
    BY <1>2, <2>1, <2>3 DEF luaX_opt_range_j
<1>3. CASE a >= 0
  BY <1>1, <1>3 DEF luaX_opt_range_j, lua_Integer
<1> QED
  BY <1>1, <1>2, <1>3 DEF lua_Integer

LEMMA IInvAlways == Spec => []IInv
<1>1. Init => IInv
  BY DEF Init, IInv
<1>2. IInv /\ [Next]_vars => IInv'
  <2> SUFFICES ASSUME IInv, [Next]_vars PROVE IInv'
    OBVIOUS
  <2>1. CASE impl_opt_range
    BY <2>1 DEF IInv, impl_opt_range
  <2>2. CASE Done \/ UNCHANGED vars
    BY <2>2 DEF IInv, Done, vars
  <2> QED
    BY <2>1, <2>2 DEF Next
<1> QED
  BY <1>1, <1>2, PTL DEF Spec

LEMMA IInvTypeOK == IInv => TypeOK
<1> SUFFICES ASSUME IInv PROVE TypeOK
  OBVIOUS
<1>1. Huge \in Nat
  BY OptRangeAssumption
<1>2. CASE ~returned
  BY <1>1, <1>2 DEF IInv, TypeOK, size_t
<1>3. CASE returned
  <2>1. i \in size_t
    <3>1. Opt(first, 0) \in lua_Integer
      BY <1>1 DEF IInv, Opt, lua_Integer
    <3> QED
      BY <1>1, <1>3, <3>1, FirstOffset DEF IInv, size_t, lua_Integer
  <2>2. j \in size_t
    <3>1. Opt(last, size) \in lua_Integer
      BY <1>1 DEF IInv, Opt, lua_Integer
    <3> QED
      BY <1>1, <1>3, <3>1, LastOffset DEF IInv, size_t, lua_Integer, ToSize
  <2> QED
    BY <1>3, <2>1, <2>2 DEF IInv, TypeOK
<1> QED
  BY <1>2, <1>3

\* What the calls return has the type size_t, though they compute in both.
THEOREM TypeOKAlways == Spec => []TypeOK
BY IInvAlways, IInvTypeOK, PTL

LEMMA IInvTakesSubstring == IInv => TakesSubstring
<1> SUFFICES ASSUME IInv, returned, Reaches PROVE
      {k \in size_t : i <= k /\ k < j} = Substring /\ j <= size
  BY DEF TakesSubstring
<1> DEFINE a == Opt(first, 0)
           b == Opt(last, size)
<1>1. Huge \in Nat /\ size \in 0 .. Huge /\ a \in lua_Integer /\ b \in lua_Integer
  BY OptRangeAssumption DEF IInv, Opt, lua_Integer
<1>2. i = IF a < 0 THEN IF a + size < 0 THEN 0 ELSE a + size
          ELSE IF a > 0 THEN a - 1 ELSE 0
  BY FirstOffset DEF IInv
<1>3. j = IF b < 0 THEN b + size + 1 ELSE IF b > size THEN size ELSE b
  <2>1. b < 0 => b + size + 1 >= 0
    BY <1>1, OptRangeAssumption DEF Reaches, Position, Opt, IInv, lua_Integer
  <2>2. j = ToSize(IF b < 0 THEN b + size + 1 ELSE IF b > size THEN size ELSE b)
    BY LastOffset DEF IInv
  <2> QED
    BY <1>1, <2>1, <2>2 DEF ToSize, lua_Integer
<1>4. i \in Nat /\ j \in 0 .. size
  BY <1>1, <1>2, <1>3, Reaches DEF Reaches, Position, Opt, IInv, lua_Integer
<1>5. ASSUME NEW k \in 0 .. size - 1
      PROVE  i <= k <=> Position(Opt(first, 1)) <= k + 1
  BY <1>1, <1>2, OptRangeAssumption DEF Position, Opt, IInv, lua_Integer
<1>6. ASSUME NEW k \in 0 .. size - 1
      PROVE  k < j <=> k + 1 <= Position(Opt(last, -1))
  BY <1>1, <1>3, OptRangeAssumption DEF Position, Opt, IInv, lua_Integer
<1>7. {k \in size_t : i <= k /\ k < j} = {k \in 0 .. size - 1 : i <= k /\ k < j}
  BY <1>1, <1>4 DEF size_t
<1> QED
  BY <1>4, <1>5, <1>6, <1>7 DEF Substring

\* For every width and every size: the calls return the range of offsets
\* that string.sub takes, unless the last bound makes j wrap.
THEOREM TakesSubstringAlways == Spec => []TakesSubstring
BY IInvAlways, IInvTakesSubstring, PTL
=============================================================================
