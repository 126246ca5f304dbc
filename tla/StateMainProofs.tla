-------------------------- MODULE StateMainProofs --------------------------
(***************************************************************************)
(* Proofs about StateMain: the invariant, the absence of lost wakeups and  *)
(* the refinement of Lease, for every set of threads and every workload.   *)
(***************************************************************************)
EXTENDS StateMain, FiniteSetTheorems, TLAPS

LEMMA InitInv == Init => Inv
  BY MainAssumption DEF Init, Inv, TypeOK, MutexOwner, Custody, Labels,
     Critical, Owning

(***************************************************************************)
(* Every step keeps the mutex with the thread in the critical section, the *)
(* wait set with the waiting threads and the coroutine in one place.       *)
(***************************************************************************)
LEMMA NextInv == Inv /\ [Next]_vars => Inv'
<1> SUFFICES ASSUME Inv, [Next]_vars PROVE Inv'
  OBVIOUS
<1> USE MainAssumption DEF Inv, TypeOK, MutexOwner, Custody, Labels, Critical,
        Owning, Goto
<1>1. ASSUME NEW t \in Threads, Request(t) PROVE Inv'
  BY <1>1 DEF Request
<1>2. ASSUME NEW t \in Threads, OpenLock(t) PROVE Inv'
  BY <1>2 DEF OpenLock
<1>3. ASSUME NEW t \in Threads, OpenWait(t) PROVE Inv'
  BY <1>3 DEF OpenWait
<1>4. ASSUME NEW t \in Threads, SpuriousWakeup(t) PROVE Inv'
  BY <1>4 DEF SpuriousWakeup
<1>5. ASSUME NEW t \in Threads, OpenTake(t) PROVE Inv'
  BY <1>5 DEF OpenTake
<1>6. ASSUME NEW t \in Threads, Finish(t) PROVE Inv'
  BY <1>6 DEF Finish
<1>7. ASSUME NEW t \in Threads, CloseLock(t) PROVE Inv'
  BY <1>7 DEF CloseLock
<1>8. ASSUME NEW t \in Threads, CloseSet(t) PROVE Inv'
  BY <1>8 DEF CloseSet
<1>9. ASSUME NEW t \in Threads, CloseNotify(t) PROVE Inv'
  BY <1>9 DEF CloseNotify
<1>10. CASE UNCHANGED vars
  BY <1>10 DEF vars
<1>11. QED
  BY <1>1, <1>2, <1>3, <1>4, <1>5, <1>6, <1>7, <1>8, <1>9, <1>10
     DEF Next, Step, Done

(***************************************************************************)
(* The mutex is held exactly in the critical sections and the coroutine is *)
(* in exactly one place: in the manager or with one thread.                *)
(***************************************************************************)
THEOREM InvAlways == Spec => []Inv
  BY InitInv, NextInv, PTL DEF Spec
-----------------------------------------------------------------------------
LEMMA NextNoLostWakeup == Inv /\ NoLostWakeup /\ [Next]_vars => NoLostWakeup'
<1> SUFFICES ASSUME Inv, NoLostWakeup, [Next]_vars PROVE NoLostWakeup'
  OBVIOUS
<1> USE DEF NoLostWakeup, Goto
<1>t. /\ pc \in [Threads -> Labels]
      /\ waiters \subseteq Threads
      /\ \A t \in Threads : t \in waiters <=> pc[t] = "waiting"
  BY DEF Inv, TypeOK, MutexOwner
<1>1. ASSUME NEW t \in Threads, Request(t) PROVE NoLostWakeup'
  BY <1>1, <1>t DEF Request
<1>2. ASSUME NEW t \in Threads, OpenLock(t) PROVE NoLostWakeup'
  BY <1>2, <1>t DEF OpenLock
<1>3. ASSUME NEW t \in Threads, OpenWait(t) PROVE NoLostWakeup'
  BY <1>3, <1>t DEF OpenWait
<1>4. ASSUME NEW t \in Threads, SpuriousWakeup(t) PROVE NoLostWakeup'
  BY <1>4, <1>t DEF SpuriousWakeup
<1>5. ASSUME NEW t \in Threads, OpenTake(t) PROVE NoLostWakeup'
  BY <1>5, <1>t DEF OpenTake
<1>6. ASSUME NEW t \in Threads, Finish(t) PROVE NoLostWakeup'
  BY <1>6, <1>t DEF Finish
<1>7. ASSUME NEW t \in Threads, CloseLock(t) PROVE NoLostWakeup'
  BY <1>7, <1>t DEF CloseLock
<1>8. ASSUME NEW t \in Threads, CloseSet(t) PROVE NoLostWakeup'
  BY <1>8, <1>t DEF CloseSet
<1>9. ASSUME NEW t \in Threads, CloseNotify(t) PROVE NoLostWakeup'
  <2>1. CASE waiters = {}
    BY <1>9, <1>t, <2>1 DEF CloseNotify
  <2>2. ASSUME NEW w \in waiters,
               pc' = [pc EXCEPT ![t] = "idle", ![w] = "open_lock"]
        PROVE  NoLostWakeup'
    <3>1. w # t
      BY <1>9, <1>t DEF CloseNotify
    <3>2. w \in Threads /\ pc'[w] = "open_lock"
      BY <1>t, <2>2, <3>1
    <3> QED
      BY <3>2
  <2> QED
    BY <1>9, <2>1, <2>2 DEF CloseNotify
<1>10. CASE UNCHANGED vars
  BY <1>10 DEF vars
<1>11. QED
  BY <1>1, <1>2, <1>3, <1>4, <1>5, <1>6, <1>7, <1>8, <1>9, <1>10
     DEF Next, Step, Done

(***************************************************************************)
(* notify_one in close() suffices: whenever the coroutine is back and      *)
(* somebody waits for it, a thread is on its way to take it or to signal.  *)
(***************************************************************************)
THEOREM NoLostWakeupAlways == Spec => []NoLostWakeup
<1>1. Init => NoLostWakeup
  BY DEF Init, NoLostWakeup
<1> QED
  BY <1>1, InvAlways, NextNoLostWakeup, PTL DEF Spec
-----------------------------------------------------------------------------
(***************************************************************************)
(* The main manager implements the abstract lease with room for one loan.  *)
(***************************************************************************)
LEMMA SameCardinality == ASSUME NEW S PROVE L!Cardinality(S) = Cardinality(S)
  BY DEF L!Cardinality, Cardinality

LEMMA NextLease == Inv /\ [Next]_vars => [L!Next]_held
<1> SUFFICES ASSUME Inv, [Next]_vars PROVE L!Next \/ UNCHANGED held
  OBVIOUS
<1> USE DEF Goto
<1>1. ASSUME NEW t \in Threads, OpenTake(t) PROVE L!Grant(t)
  <2>1. /\ state = MainState
        /\ \A u \in Threads : held[u] = NoState
        /\ pc[t] = "open_test"
    BY <1>1, MainAssumption DEF OpenTake, Inv, TypeOK, Custody
  <2>2. L!Holders = {}
    BY <2>1 DEF L!Holders
  <2>3. L!Cardinality(L!Holders) < 1
    BY <2>2, FS_EmptySet, SameCardinality
  <2>4. L!Lent = {}
    BY <2>2 DEF L!Lent
  <2> QED
    BY <1>1, <2>1, <2>3, <2>4 DEF OpenTake, L!Grant
<1>2. ASSUME NEW t \in Threads, CloseSet(t) PROVE L!Return(t)
  BY <1>2, MainAssumption DEF CloseSet, L!Return, Inv, TypeOK, Custody, Owning
<1>3. ASSUME NEW t \in Threads,
             Request(t) \/ SpuriousWakeup(t) \/ OpenLock(t) \/ OpenWait(t)
               \/ Finish(t) \/ CloseLock(t) \/ CloseNotify(t)
      PROVE  UNCHANGED held
  BY <1>3 DEF Request, SpuriousWakeup, OpenLock, OpenWait, Finish, CloseLock,
              CloseNotify
<1>4. CASE UNCHANGED vars
  BY <1>4 DEF vars
<1> QED
  BY <1>1, <1>2, <1>3, <1>4 DEF Next, Step, Done, L!Next

THEOREM MainImplementsLease == Spec => ImplementsLease
<1>1. Init => L!Init
  BY DEF Init, L!Init
<1> QED
  BY <1>1, InvAlways, NextLease, PTL DEF Spec, ImplementsLease, L!Spec
=============================================================================
