------------------------------ MODULE Convert ------------------------------
(***************************************************************************)
(* convert.cpp and the integer half of luaX.hpp: C structures that become  *)
(* Lua tables, are edited by a script, and are read back.                  *)
(*                                                                         *)
(* A session exchanges one structure again and again, as libfuse does with *)
(* the fuse_file_info of an open file.  Integers keep their width:         *)
(* intmax_t, lua_Integer and every 64 bit field have 2 * Long values, int  *)
(* has 2 * Short values; these are 2^63 and 2^31, but 16 and 4 where TLC   *)
(* checks.  Lua 5.1 keeps an integer in a double.                          *)
(*                                                                         *)
(* A number is a count of ticks, a fraction of 1 so small that every double*)
(* is a whole count; so doubles have their gaps, between integers and      *)
(* between fractions, and arithmetic on them rounds.                       *)
(* One field stands for all fields of a structure that have the same type. *)
(***************************************************************************)
EXTENDS Integers

CONSTANTS
  Long,          \* half the values of intmax_t
  Short,         \* half the values of int
  Ticks,         \* ticks of 1
  Doubles,       \* the doubles, in ticks
  Exact,         \* up to here every whole number is a double, and from here
                 \* on every double is whole: 2^53
  Beyond,        \* what C makes of a double beyond intmax_t: Beyond[TRUE] if
                 \* it is positive, Beyond[FALSE] if it is negative
  Second,        \* units of tv_nsec in a second
  Kernel,        \* the integers that libfuse hands to a handler
  ScriptTicks,   \* the numbers a script stores, in ticks
  MaxEdits       \* bound: fields a script sets in one session

Signed == -Long .. Long - 1      \* intmax_t, and lua_Integer

VARIABLES
  lua,      \* how this Lua keeps integers: "integer" (5.3) or "double"
  kind,     \* the structure of this session
  that,     \* the C structure
  table,    \* the Lua table
  phase,    \* "libfuse", "script", or "raised" after a Lua error
  edits,    \* how many fields the script set in this session
  opened,   \* the file is open: libfuse has taken its handle
  kept,     \* the file handle that libfuse keeps
  handle,   \* history: the number the script stored in fh when it opened the
            \* file, Nil if it was no integer that this Lua holds
  asked     \* history: the time utimens was last asked to set

vars == <<lua, kind, that, table, phase, edits, opened, kept, handle, asked>>

-----------------------------------------------------------------------------
(* Integers. *)

\* Conversion to intmax_t.
ToSigned(n) == ((n + Long) % (2 * Long)) - Long

\* Division that truncates, as C and modf do.
Truncate(a, b) == IF a >= 0 THEN a \div b ELSE -((-a) \div b)

Distance(m, n) == IF m > n THEN m - n ELSE n - m

(***************************************************************************)
(* The double for the number n: the nearest, and where two are equally near*)
(* the even one, a multiple of twice their distance.                       *)
(***************************************************************************)
Near(n) == {m \in Doubles : \A d \in Doubles : Distance(m, n) <= Distance(d, n)}
IsEven(m, d) == m % (2 * Distance(m, d)) = 0

Nearest(n) ==
  LET near == Near(n)
  IN  IF n \in Doubles THEN n
      ELSE CHOOSE m \in near : \A d \in near \ {m} : IsEven(d, m) => IsEven(m, d)

\* Conversion of a double without a fraction to intmax_t.
ToInteger(d) == IF d \in Signed THEN d ELSE Beyond[d > 0]

ASSUME ConvertAssumption ==
  /\ Short \in Nat \ {0, 1} /\ Long \in Nat /\ Long >= 2 * Short
  /\ Exact \in Nat /\ Exact >= 2 * Short /\ Long >= Exact
  /\ Second \in Nat \ {0, 1} /\ Second <= Exact /\ Ticks \in Nat \ {0}
  /\ Kernel \subseteq Int /\ ScriptTicks \subseteq Int /\ MaxEdits \in Nat

\* The format of doubles: a sign, and as many digits for every size; the
\* fraction of a double is one too.
ASSUME DoubleAssumption ==
  /\ Doubles \subseteq Int /\ \A d \in Doubles : -d \in Doubles
  /\ \A k \in -Exact .. Exact : k * Ticks \in Doubles
  /\ \A d \in Doubles : Distance(d, 0) >= Exact * Ticks => d % Ticks = 0
  /\ \A d \in Doubles : d - Truncate(d, Ticks) * Ticks \in Doubles

(***************************************************************************)
(* What C makes of a double beyond intmax_t is unspecified, but not changed*)
(* by another round through a double: that of x86 is -Long, always, that of*)
(* ARM the limit of intmax_t that is nearer.                               *)
(***************************************************************************)
ASSUME BeyondAssumption ==
  /\ Beyond \in [BOOLEAN -> Signed]
  /\ \A b \in BOOLEAN :
       ToInteger(Truncate(Nearest(Beyond[b] * Ticks), Ticks)) = Beyond[b]

(***************************************************************************)
(* A double below 1 times Second is nearer to a double below Second than to*)
(* Second.  With 10^9, the product of the greatest one is 10^9 - 2^-53*10^9*)
(* or 10^9 - 1.11e-7, and the last double before 10^9 is 2^-23 or 1.19e-7  *)
(* away from it.                                                           *)
(***************************************************************************)
ASSUME SecondAssumption ==
  \A f \in Doubles : 0 < f /\ f < Ticks =>
    \E d \in Doubles :
      /\ d < Second * Ticks
      /\ Distance(d, f * Second) < Distance(Second * Ticks, f * Second)

\* Type of a field: the integers of its C type, from low on, and how many of
\* them the field tells apart.
CType(low, values, keeps) ==
  [range |-> low .. low + values - 1, low |-> low, keeps |-> keeps]
TInt == CType(-Short, 2 * Short, 2 * Short)
TUnsigned == CType(0, 2 * Short, 2 * Short)
TFlag == CType(0, 2 * Short, 2)      \* unsigned int : 1
TOff == CType(-Long, 2 * Long, 2 * Long)
TUnsignedLong == CType(0, 2 * Long, 2 * Long)

-----------------------------------------------------------------------------
(* Lua values. *)

Nil == [type |-> "nil", n |-> 0]
Number(n) == [type |-> "number", n |-> n]
Digit(n) == [type |-> "digits", n |-> n]       \* a string that is a number
Text == [type |-> "text", n |-> 0]             \* a string that is not
Other == [type |-> "other", n |-> 0]
Times(sec, nsec) == [type |-> "table", tv_sec |-> sec, tv_nsec |-> nsec]

IsWhole(v) == v.n % Ticks = 0
lua_isnumber(v) == v.type \in {"number", "digits"}

\* The number this Lua keeps for n: 5.3 has all integers of intmax_t.
Rounded(n) ==
  IF lua = "integer" /\ n % Ticks = 0 /\ n \div Ticks \in Signed THEN n
  ELSE Nearest(n)

\* An integer that this Lua keeps, and C reads back.
Held(k) == k \in Signed /\ Rounded(k * Ticks) = k * Ticks

\* A number that a script writes.
Literal(n) == Number(Rounded(n))

\* A Lua without integers keeps the nearest double.
lua_pushinteger(n) == Number(Rounded(ToSigned(n) * Ticks))

\* Lua 5.3 has no integer for a fraction or a number that is too large and
\* answers 0, the others convert the double as C does.
lua_tointeger(v) ==
  LET d == Rounded(v.n)
  IN  IF lua = "double" THEN ToInteger(Truncate(d, Ticks))
      ELSE IF d % Ticks = 0 /\ d \div Ticks \in Signed THEN d \div Ticks ELSE 0

lua_tonumber(v) == Nearest(v.n)

-----------------------------------------------------------------------------
(* One integer field of a table. *)

\* luaX_opt_integer_field_impl: the integer a field v stands for, d when the
\* field is absent.
Source(v, d) == IF v.type = "nil" THEN ToSigned(d) ELSE lua_tointeger(v)

\* Faulty form: no bounds.
AcceptsAny(v, d, range) == lua_isnumber(v) \/ v.type = "nil"

\* luaX_opt_integer_field raises "not an integer" or "out of bounds" unless
\* this holds.
Accepts(v, d, range) ==
  /\ lua_isnumber(v) \/ v.type = "nil"
  /\ Source(v, d) \in range

\* The assignment to a field of type t wraps; a bit-field keeps its low bits.
Assigned(n, t) == ((n - t.low) % t.keeps) + t.low

-----------------------------------------------------------------------------
(* The structures. *)

\* flags and writepage; the one-bit flags; fh.  lock_owner is treated apart.
FileInfo == [flags |-> TInt, direct_io |-> TFlag, fh |-> TUnsignedLong]

ConnInfo == [max_write |-> TUnsigned]          \* every member is unsigned

OperationFlags == [flag_nopath |-> TFlag]      \* what fuse.main takes

Layout ==
  [fuse_file_info  |-> FileInfo,
   fuse_conn_info  |-> ConnInfo,
   fuse_operations |-> OperationFlags,
   flock           |-> [l_type |-> TInt, l_start |-> TOff],
   stat            |-> [st_mode |-> TUnsigned, st_size |-> TOff],
   statvfs         |-> [f_blocks |-> TUnsignedLong]]

Kinds == DOMAIN Layout
Lent == {"fuse_file_info", "fuse_conn_info", "flock"}     \* shown to a callback
Cleared == {"stat", "statvfs"}                            \* memset first

IntegerFields == DOMAIN Layout[kind]
TimeKeys == {"st_atim", "st_atimespec", "st_atime"}
Keys == IntegerFields
        \union (IF kind = "fuse_file_info" THEN {"lock_owner"} ELSE {})
        \union (IF kind = "stat" THEN TimeKeys ELSE {})
Fields == (Keys \ TimeKeys) \union (Keys \intersect {"st_atim"})

Timespec(sec, nsec) == [tv_sec |-> sec, tv_nsec |-> nsec]
Empty == [k \in Keys |-> Nil]
Zero == [f \in Fields |-> IF f = "st_atim" THEN Timespec(0, 0) ELSE 0]

\* Faulty form: lock_owner is pushed like the other fields.
PushOwnerInteger(n) == lua_pushinteger(n)

\* convert(L, const T*): lock_owner becomes a decimal string.
PushOwner(n) == Digit(n * Ticks)

Push(s) ==
  [k \in Keys |-> IF k = "lock_owner" THEN PushOwner(s[k]) ELSE lua_pushinteger(s[k])]

PushTimespec(t) == Times(lua_pushinteger(t.tv_sec), lua_pushinteger(t.tv_nsec))

\* operator>> for unsigned integers: a negative one wraps round.
Extracted(n) == IF Distance(n, 0) < 2 * Long THEN n % (2 * Long) ELSE 2 * Long - 1

\* The string of lock_owner is read as an unsigned integer, up to the first
\* character that is not part of one.
PullOwner(v) ==
  IF lua_isnumber(v) THEN Extracted(Truncate(v.n, Ticks))
  ELSE IF v.type = "text" THEN 0
  ELSE that.lock_owner

\* convert_timespec looks at three keys in this order and takes the first
\* that is a number or a table.
HasTime(k) == table[k].type \in {"number", "table"}

\* Faulty form: the portable name first.
TimeKeyPortable == IF HasTime("st_atime") THEN "st_atime" ELSE "st_atim"

TimeKey ==
  IF HasTime("st_atim") THEN "st_atim"
  ELSE IF HasTime("st_atimespec") THEN "st_atimespec"
  ELSE "st_atime"

TimeAccepted ==
  LET v == table[TimeKey]
  IN  v.type = "table" =>
        /\ Accepts(v.tv_sec, 0, TOff.range)
        /\ Accepts(v.tv_nsec, 0, 0 .. Second - 1)

\* Faulty form: seconds are rounded, not truncated.
SplitTimeRounded(n) ==
  LET sec == (2 * n + Ticks) \div (2 * Ticks)
  IN  Timespec(ToInteger(sec), Truncate(Nearest((n - sec * Ticks) * Second), Ticks))

\* modf, the product, which is rounded to a double, and the conversion of both
\* parts.
SplitTime(n) ==
  LET sec == Truncate(n, Ticks)
  IN  Timespec(ToInteger(sec), Truncate(Nearest((n - sec * Ticks) * Second), Ticks))

PullTime ==
  LET v == table[TimeKey]
  IN  CASE v.type = "number" -> SplitTime(lua_tonumber(v))
        [] v.type = "table" -> Timespec(Source(v.tv_sec, 0), Source(v.tv_nsec, 0))
        [] OTHER -> Timespec(0, 0)

\* Faulty form: the structure is not cleared.
DefaultKept(f) == that[f]

\* What an absent field becomes: the structure is cleared first, or keeps it.
Default(f) == IF kind \in Cleared THEN 0 ELSE that[f]

Accepted ==
  /\ \A f \in IntegerFields : Accepts(table[f], Default(f), Layout[kind][f].range)
  /\ kind = "stat" => TimeAccepted

\* Faulty form: fh is not read back.
PulledWithoutHandle ==
  [f \in Fields |->
     CASE f = "lock_owner" -> PullOwner(table[f])
       [] f = "st_atim" -> PullTime
       [] f = "fh" -> that[f]
       [] OTHER -> Assigned(Source(table[f], Default(f)), Layout[kind][f])]

\* convert(L, index, T*)
Pulled ==
  [f \in Fields |->
     CASE f = "lock_owner" -> PullOwner(table[f])
       [] f = "st_atim" -> PullTime
       [] OTHER -> Assigned(Source(table[f], Default(f)), Layout[kind][f])]

-----------------------------------------------------------------------------
(* A session. *)

Init ==
  /\ lua \in {"integer", "double"}
  /\ kind \in Kinds
  /\ that = Zero
  /\ table = Empty
  /\ phase = "libfuse"
  /\ edits = 0
  /\ opened = FALSE /\ kept = 0
  /\ handle = Nil
  /\ asked = Timespec(0, 0)

(***************************************************************************)
(* What libfuse and the kernel fill a structure with: any integers of the  *)
(* types of its fields.  They keep the handle of a file from its open on;  *)
(* every request has new values for the rest.                              *)
(***************************************************************************)
Supplied ==
  CASE kind = "fuse_file_info" ->
         [flags : Kernel \intersect TInt.range, direct_io : {0, 1}, fh : {kept},
          lock_owner : Kernel \intersect TUnsignedLong.range]
    [] kind = "fuse_conn_info" -> [max_write : Kernel \intersect TUnsigned.range]
    [] kind = "flock" ->
         [l_type : Kernel \intersect TInt.range, l_start : Kernel \intersect TOff.range]

\* A handler shows the structure to a callback.
Lend ==
  /\ phase = "libfuse" /\ kind \in Lent
  /\ that' \in Supplied
  /\ table' = Push(that')
  /\ phase' = "script"
  /\ UNCHANGED <<lua, kind, edits, opened, kept, handle, asked>>

(***************************************************************************)
(* A handler asks for a table the script keeps, and has a structure with   *)
(* old contents to fill.                                                   *)
(***************************************************************************)
Ask ==
  /\ phase = "libfuse" /\ kind \notin Lent
  /\ phase' = "script"
  /\ UNCHANGED <<lua, kind, that, table, edits, opened, kept, handle, asked>>

(***************************************************************************)
(* utimens converts the time, which can be UTIME_NOW or UTIME_OMIT with a  *)
(* tv_nsec that is out of range.  The script keeps the table.              *)
(***************************************************************************)
Utimens ==
  /\ phase = "libfuse" /\ kind = "stat" /\ edits < MaxEdits
  /\ \E sec \in Kernel \intersect TOff.range, nsec \in 0 .. Second, k \in TimeKeys :
       /\ asked' = Timespec(sec, nsec)
       /\ table' = [table EXCEPT ![k] = PushTimespec(asked')]
  /\ edits' = edits + 1
  /\ UNCHANGED <<lua, kind, that, phase, opened, kept, handle>>

\* The callback sets one field.
Edit ==
  /\ phase = "script" /\ edits < MaxEdits
  /\ \E k \in Keys, v \in {Nil, Text, Other} \union {Literal(n) : n \in ScriptTicks}
                                         \union {Digit(n) : n \in ScriptTicks} :
       table' = [table EXCEPT ![k] = v]
  /\ edits' = edits + 1
  /\ UNCHANGED <<lua, kind, that, phase, opened, kept, handle, asked>>

(***************************************************************************)
(* The callback returns and the table is read back.  A table that was lent *)
(* is garbage then.  The first request is the open of the file, and libfuse*)
(* takes the handle from it.                                               *)
(***************************************************************************)
Take ==
  /\ phase = "script" /\ Accepted
  /\ that' = Pulled
  /\ table' = IF kind \in Lent THEN Empty ELSE table
  /\ phase' = "libfuse"
  /\ IF kind = "fuse_file_info" /\ ~opened
     THEN /\ opened' = TRUE /\ kept' = that'.fh
          /\ handle' = IF lua_isnumber(table.fh) /\ IsWhole(table.fh)
                          /\ Held(table.fh.n \div Ticks)
                       THEN Number(table.fh.n) ELSE Nil
     ELSE UNCHANGED <<opened, kept, handle>>
  /\ UNCHANGED <<lua, kind, edits, asked>>

\* A field is refused: luaX_field_error.
Refuse ==
  /\ phase = "script" /\ ~Accepted
  /\ phase' = "raised"
  /\ UNCHANGED <<lua, kind, that, table, edits, opened, kept, handle, asked>>

Done == phase = "raised" /\ UNCHANGED vars

Next == Lend \/ Ask \/ Utimens \/ Edit \/ Take \/ Refuse \/ Done

Spec == Init /\ [][Next]_vars

-----------------------------------------------------------------------------
(* Properties. *)

(***************************************************************************)
(* A table the callback leaves alone is accepted and changes nothing, also *)
(* for a lock_owner that no lua_Integer or double can hold: this is why it *)
(* travels as a string (convert.cpp:121).  The exception is l_start, which *)
(* stands for l_len too: it travels as a number, and a Lua of doubles      *)
(* changes one that is no double.                                          *)
(***************************************************************************)
Untouched ==
  phase = "script" /\ kind \in Lent /\ table = Push(that) =>
    /\ Accepted
    /\ \A f \in Fields :
         Pulled[f] # that[f] => f = "l_start" /\ lua = "double" /\ ~Held(that[f])

(***************************************************************************)
(* "File handle.  May be filled in by filesystem in open().  Available in  *)
(* all other file operations" (fuse_common.h:82): every later request      *)
(* shows the callbacks the integer they stored in open().                  *)
(***************************************************************************)
HandleKept ==
  [][Lend /\ kind = "fuse_file_info" /\ handle # Nil => table'.fh = handle]_vars

(***************************************************************************)
(* No structure is accepted with another integer than the one the script   *)
(* wrote, other than in one-bit flags, for fractions and for numbers that  *)
(* are no integer of this Lua.                                             *)
(***************************************************************************)
NothingWraps ==
  phase = "script" /\ Accepted =>
    \A f \in IntegerFields :
      Layout[kind][f].keeps > 2 /\ lua_isnumber(table[f]) /\ IsWhole(table[f])
        /\ Held(table[f].n \div Ticks)
        => Pulled[f] * Ticks = table[f].n

(***************************************************************************)
(* A stat or statvfs says nothing the script did not: a field the table    *)
(* does not have is 0, whatever the structure held before.                 *)
(***************************************************************************)
NothingStale ==
  phase = "script" /\ kind \in Cleared =>
    \A f \in Fields \ TimeKeys : table[f] = Nil => Pulled[f] = 0

(***************************************************************************)
(* A valid time that utimens was asked to set, and that the script keeps   *)
(* as it is under the native name, is what getattr reports, also when the  *)
(* table has the portable name with another time.  Only a tv_sec that this *)
(* Lua cannot hold comes back as another.                                  *)
(***************************************************************************)
TimeReturned ==
  phase = "script" /\ kind = "stat" /\ asked.tv_nsec < Second
    /\ table.st_atim = PushTimespec(asked)
    => /\ TimeAccepted
       /\ Pulled.st_atim.tv_nsec = asked.tv_nsec
       /\ Held(asked.tv_sec) => Pulled.st_atim.tv_sec = asked.tv_sec

(***************************************************************************)
(* A time that is a number is split into whole seconds and less than one   *)
(* second of the same sign: rounding the product can add a unit to the     *)
(* truncated fraction, as it does to 0.3, but never makes it a full second *)
(* (convert.cpp:42).                                                       *)
(***************************************************************************)
TimeSplit ==
  phase = "script" /\ kind = "stat" /\ table[TimeKey].type = "number" =>
    LET n == lua_tonumber(table[TimeKey])
        sec == Truncate(n, Ticks)
        nsec == Truncate((n - sec * Ticks) * Second, Ticks)
        t == Pulled.st_atim
    IN  /\ sec \in Signed => t.tv_sec = sec
        /\ n >= 0 => t.tv_nsec \in {nsec, nsec + 1} \intersect (0 .. Second - 1)
        /\ n < 0 => t.tv_nsec \in {nsec, nsec - 1} \intersect (-(Second - 1) .. 0)
=============================================================================
