---------------------------- MODULE MCStatePool ----------------------------
(***************************************************************************)
(* Model values for StatePool.  The lua_State* values are interchangeable, *)
(* and so are the threads of libfuse other than the script's.              *)
(***************************************************************************)
EXTENDS StatePool, TLC

CONSTANTS t1, t2, t3, s1, s2, s3, s4, s5

TwoThreads == {t1, t2}
ThreeThreads == {t1, t2, t3}
FourStates == {s1, s2, s3, s4}
FiveStates == {s1, s2, s3, s4, s5}

StatesSymmetry == Permutations(States)
PoolSymmetry == Permutations(States) \union Permutations(Threads \ {Main})
=============================================================================
