---------------------------- MODULE MCOperations ----------------------------
(***************************************************************************)
(* Instances of Operations: two requests that share one universe (the main *)
(* manager) or run in two (a pool), and one request at a time for the      *)
(* whole table of operations.                                              *)
(***************************************************************************)
EXTENDS Operations

CONSTANTS r1, r2, s1, s2

OneRequest == {r1}
TwoRequests == {r1, r2}
OneState == {s1}
TwoStates == {s1, s2}
MainOnly == {{s1}}
MainAndPool == {{s1}, {s1, s2}}

Value1(t, k) == [type |-> t, n |-> k]

\* Integers, nil, strings that fit and do not, a float, tables good and bad.
AllResults ==
  {Value1("integer", 0), Value1("integer", -2), Value1("integer", 7),
   Value1("nil", 0), Value1("boolean", 0), Value1("number", 3),
   Value1("string", 0), Value1("string", 2), Value1("string", 3),
   [type |-> "table", ok |-> TRUE], [type |-> "table", ok |-> FALSE]}

FewResults ==
  {Value1("nil", 0), Value1("string", 3), [type |-> "table", ok |-> FALSE]}

OneResult == {Value1("nil", 0)}

LongString == {Value1("string", 3)}

OneSize == {2}
AllSizes == {0, 1, 2}

\* init, destroy and readdir, and universes whose
\* chunk did not define readdir.
SharedScripts == {{"readdir"}, {}}

FullScripts == {OpNames, OpNames \ {"lock"}, {}}
FlockScript == {{"lock", "flock"}}
ReadScript == {{"read"}}
=============================================================================
