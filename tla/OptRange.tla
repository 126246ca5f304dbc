------------------------------ MODULE OptRange ------------------------------
(***************************************************************************)
(* luaX_opt_range_i and luaX_opt_range_j (luaX.hpp) as impl_opt_range of   *)
(* the bind test module calls them: the optional bounds of a substring, as *)
(* Lua counts them (from one, or from the end when negative, both ends     *)
(* included), become a half-open range of offsets of type size_t.          *)
(*                                                                         *)
(* A lua_Integer is -Huge - 1 .. Huge and a size_t is 0 .. 2 * Huge + 1.   *)
(***************************************************************************)
EXTENDS Integers

CONSTANTS
  Huge,   \* the largest lua_Integer
  None    \* the argument is absent or nil

ASSUME OptRangeAssumption == Huge \in Nat /\ None \notin Int

lua_Integer == -Huge - 1 .. Huge
size_t == 0 .. 2 * Huge + 1

VARIABLES size, first, last,   \* the arguments
          i, j,                \* the results
          returned

vars == <<size, first, last, i, j, returned>>

\* The conversions of C++ between the two types.
ToSize(n) == IF n < 0 THEN n + 2 * Huge + 2 ELSE n
ToInteger(n) == IF n > Huge THEN n - 2 * Huge - 2 ELSE n

\* luaL_optinteger
Opt(arg, default) == IF arg = None THEN default ELSE arg

luaX_opt_range_i(arg, n) ==
  LET a == Opt(arg, 0)
      fromEnd == ToInteger((ToSize(a) + n) % (2 * Huge + 2))
  IN ToSize(IF a < 0 THEN IF fromEnd < 0 THEN 0 ELSE fromEnd
            ELSE IF a > 0 THEN a - 1 ELSE a)

\* Faulty form of luaX_opt_range_j: a negative bound is excluded.
OptRangeExclusive(arg, n) ==
  LET a == Opt(arg, n)
  IN ToSize(IF a < 0 THEN ToInteger((ToSize(a) + n) % (2 * Huge + 2))
            ELSE IF a > n THEN n ELSE a)

luaX_opt_range_j(arg, n) ==
  LET a == Opt(arg, n)
  IN ToSize(IF a < 0 THEN ToInteger((ToSize(a) + n + 1) % (2 * Huge + 2))
            ELSE IF a > n THEN n ELSE a)

Init ==
  /\ size \in 0 .. Huge
  /\ first \in lua_Integer \union {None}
  /\ last \in lua_Integer \union {None}
  /\ i = 0 /\ j = 0 /\ returned = FALSE

impl_opt_range ==
  /\ ~returned
  /\ i' = luaX_opt_range_i(first, size)
  /\ j' = luaX_opt_range_j(last, size)
  /\ returned' = TRUE
  /\ UNCHANGED <<size, first, last>>

Done == returned /\ UNCHANGED vars

Next == impl_opt_range \/ Done

Spec == Init /\ [][Next]_vars
-----------------------------------------------------------------------------
(***************************************************************************)
(* The characters that string.sub(s, first, last) takes from a string of   *)
(* length size, by their offsets.                                          *)
(***************************************************************************)
Position(bound) == IF bound < 0 THEN size + bound + 1 ELSE bound

Substring ==
  {k \in 0 .. size - 1 :
     /\ Position(Opt(first, 1)) <= k + 1
     /\ k + 1 <= Position(Opt(last, -1))}

\* The last bound is at most one position before the string.
Reaches == last = None \/ Position(last) >= 0

(***************************************************************************)
(* i and j delimit exactly the characters string.sub would take, and j     *)
(* never points past the end.  The exception is a last bound that lies     *)
(* further before the string than one position: j then wraps round to a    *)
(* huge size_t, where string.sub takes nothing.                            *)
(***************************************************************************)
TakesSubstring ==
  returned /\ Reaches =>
    /\ {k \in size_t : i <= k /\ k < j} = Substring
    /\ j <= size

TypeOK ==
  /\ size \in 0 .. Huge
  /\ first \in lua_Integer \union {None}
  /\ last \in lua_Integer \union {None}
  /\ i \in size_t /\ j \in size_t /\ returned \in BOOLEAN
=============================================================================
