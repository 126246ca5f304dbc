----------------------------- MODULE MCSession -----------------------------
(* Model values for Session.  The main manager, pools with fewer slots than
   there are threads, and one with a slot for every thread. *)
EXTENDS Session

CONSTANTS t1, t2, t3

ThreeThreads == {t1, t2, t3}
MCSlots == {1, 2, 3}
=============================================================================
