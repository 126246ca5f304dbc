----------------------------- MODULE MCUserdata -----------------------------
(* Model values for Userdata: two callbacks, one of which may refer to the
   other. *)
EXTENDS Userdata

CONSTANTS h1, c1, c2, co1, f1

MCHandles == {h1}
MCCallbacks == {c1, c2}
MCCoroutines == {co1}
MCFills == {f1}
=============================================================================
