---------------------------- MODULE MCStateMain ----------------------------
(***************************************************************************)
(* Model values for StateMain: three threads, so that one can hold the     *)
(* state while two wait and another operation barges in.                   *)
(***************************************************************************)
EXTENDS StateMain

CONSTANTS t1, t2, t3

MCThreads == {t1, t2, t3}
=============================================================================
