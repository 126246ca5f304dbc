------------------------------- MODULE Lease -------------------------------
(***************************************************************************)
(* What a state_manager promises to managed_state (common.hpp): open()     *)
(* lends one Lua state to the calling thread, close() gives it back, and   *)
(* no two threads ever hold the same state.  The two implementations,      *)
(* StateMain and StatePool, are shown to implement this specification.     *)
(* The modules that instantiate it state what they assume of Threads,      *)
(* States and NoState.                                                     *)
(***************************************************************************)
EXTENDS Naturals, FiniteSets

CONSTANTS
  Threads,    \* the threads that run fuse operations
  States,     \* the lua_State* values that can be lent
  NoState,    \* "holds nothing"
  Capacity    \* how many states may be lent at the same time

VARIABLE
  lease       \* lease[t]: the state that thread t holds

Holders == {t \in Threads : lease[t] # NoState}
Lent == {lease[t] : t \in Holders}

Init == lease = [t \in Threads |-> NoState]

(***************************************************************************)
(* open() returns: the thread now holds a state nobody else holds.         *)
(***************************************************************************)
Grant(t) ==
  /\ lease[t] = NoState
  /\ Cardinality(Holders) < Capacity
  /\ \E s \in States \ Lent : lease' = [lease EXCEPT ![t] = s]

(***************************************************************************)
(* close() takes the state back.                                           *)
(***************************************************************************)
Return(t) ==
  /\ lease[t] # NoState
  /\ lease' = [lease EXCEPT ![t] = NoState]

Next == \E t \in Threads : Grant(t) \/ Return(t)

Spec == Init /\ [][Next]_lease
=============================================================================
