--------------------------- MODULE SessionProofs ---------------------------
(***************************************************************************)
(* Proofs about Session, for any set of threads, both managers with any    *)
(* number of slots, and any number of calls and requests.                  *)
(*                                                                         *)
(* UseLive and Ownership are not inductive: that a handler finds a live    *)
(* object depends on who may start one in which phase of fuse.main, and    *)
(* that an answer wakes a thread that still has an object depends on who   *)
(* asked whom.  IInv says both.                                            *)
(***************************************************************************)
EXTENDS Session, FiniteSetTheorems, TLAPS

Mounted == {"looping", "destroying"}
Active == {"constructed", "aborted"} \union Mounted

\* Who has the object of the current call of fuse.main.
Holding ==
  /\ scoped = IF phase = "constructed" THEN call ELSE Null
  /\ private = IF phase \in Active \ {"constructed"} THEN call ELSE Null

\* Objects of earlier calls are deleted, or were lost.
Leftovers ==
  /\ lost \subseteq 1 .. call
  /\ phase \in Active =>
       call \in Objects /\ object[call] = "live" /\ call \notin lost
  /\ \A o \in Objects :
       object[o] = "live" => o \in lost \/ (o = call /\ phase \in Active)

\* A handler runs while its file system is mounted, destroy last and alone.
Serving ==
  \A t \in Busy :
    /\ phase \in Mounted /\ self[t] = call
    /\ serves[t] = "destroy" <=> phase = "destroying"
    /\ phase = "destroying" => t = Main

\* A thread waits for one request, and stays where it is until the answer.
Asking ==
  \A t \in Threads : asker[t] # NoThread =>
    /\ pc[t] # "idle" /\ asker[t] # t /\ pc[asker[t]] = "asking"
    /\ \A u \in Threads \ {t} : asker[u] # asker[t]

IInv == TypeOK /\ Holding /\ Leftovers /\ Serving /\ Asking
-----------------------------------------------------------------------------
LEMMA Bounds ==
  /\ 0 \in 0 .. NumCalls /\ NumRequests \in 0 .. NumRequests
  /\ \A k \in Slots \union {1} : k \in Nat
BY SessionAssumption

\* A free slot can be lost.
LEMMA FreeSlot ==
  ASSUME Free, slots \in Nat
  PROVE  slots - 1 \in Nat
<1>1. IsFiniteSet(Lending)
  BY SessionAssumption, FS_Subset DEF Lending
<1>2. Cardinality(Lending) \in Nat
  BY <1>1, FS_CardinalityType
<1>3. QED
  BY <1>2 DEF Free

LEMMA InitIInv == Init => IInv
<1> SUFFICES ASSUME Init PROVE IInv
  OBVIOUS
<1> USE SessionAssumption DEF Init, Null, Objects, Mounted, Active
<1>1. TypeOK
  <2>1. manager \in {"main", "pool"} /\ slots \in Slots \union {1}
    BY Zenon
  <2>2. QED
    BY <2>1, Bounds DEF TypeOK, Labels
<1>2. Holding /\ Leftovers
  BY DEF Holding, Leftovers
<1>3. Serving /\ Asking
  BY DEF Serving, Asking, Busy
<1>4. QED
  BY <1>1, <1>2, <1>3 DEF IInv

\* The steps of impl_main: no handler runs, or none is disturbed.
LEMMA ImplMainStep ==
  ASSUME IInv, ImplMain
  PROVE  IInv'
<1> USE SessionAssumption DEF IInv, handlers, pools, Null, Objects, Mounted, Active
<1>1. CASE NewOperations
  <2>1. call' = call + 1 /\ call' \in Objects
    BY <1>1 DEF NewOperations, TypeOK
  <2>2. TypeOK'
    BY <1>1, <2>1 DEF NewOperations, TypeOK
  <2>3. Holding' /\ Leftovers'
    BY <1>1, <2>1 DEF NewOperations, TypeOK, Holding, Leftovers
  <2>4. Serving' /\ Asking'
    BY <1>1 DEF NewOperations, Serving, Asking, Busy
  <2>5. QED
    BY <2>2, <2>3, <2>4
<1>2. CASE NewOperationsFails
  <2>1. TypeOK'
    BY <1>2, FreeSlot DEF NewOperationsFails, TypeOK
  <2>2. Holding' /\ Leftovers'
    BY <1>2 DEF NewOperationsFails, TypeOK, Holding, Leftovers
  <2>3. Serving' /\ Asking'
    BY <1>2 DEF NewOperationsFails, Serving, Asking, Busy
  <2>4. QED
    BY <2>1, <2>2, <2>3
<1>3. CASE FlagsRaise
  <2>1. scoped = call /\ call \in Objects
    BY <1>3 DEF FlagsRaise, Holding, Leftovers
  <2>2. TypeOK' /\ Holding' /\ Leftovers'
    BY <1>3, <2>1 DEF FlagsRaise, TypeOK, Holding, Leftovers
  <2>3. Serving' /\ Asking'
    BY <1>3 DEF FlagsRaise, Serving, Asking, Busy
  <2>4. QED
    BY <2>2, <2>3
<1>4. CASE FlagsThrow
  <2>1. scoped = call /\ call \in Objects
    BY <1>4 DEF FlagsThrow, Holding, Leftovers
  <2>2. TypeOK' /\ Holding' /\ Leftovers'
    BY <1>4, <2>1 DEF FlagsThrow, TypeOK, Holding, Leftovers
  <2>3. Serving' /\ Asking'
    BY <1>4 DEF FlagsThrow, Serving, Asking, Busy
  <2>4. QED
    BY <2>2, <2>3
<1>5. CASE FuseMain
  <2>1. TypeOK' /\ Holding' /\ Leftovers'
    BY <1>5 DEF FuseMain, TypeOK, Holding, Leftovers
  <2>2. Serving' /\ Asking'
    BY <1>5 DEF FuseMain, Serving, Asking, Busy
  <2>3. QED
    BY <2>1, <2>2
<1>6. CASE FuseMainFails
  <2>1. scoped = call /\ call \in Objects
    BY <1>6 DEF FuseMainFails, Holding, Leftovers
  <2>2. TypeOK' /\ Holding' /\ Leftovers'
    BY <1>6, <2>1 DEF FuseMainFails, TypeOK, Holding, Leftovers
  <2>3. Serving' /\ Asking'
    BY <1>6 DEF FuseMainFails, Serving, Asking, Busy
  <2>4. QED
    BY <2>2, <2>3
<1>7. CASE Return
  <2>1. scoped = Null
    BY <1>7 DEF Return, Holding
  <2>2. TypeOK' /\ Holding' /\ Leftovers'
    BY <1>7, <2>1 DEF Return, TypeOK, Holding, Leftovers
  <2>3. Serving' /\ Asking'
    BY <1>7 DEF Return, Serving, Asking, Busy
  <2>4. QED
    BY <2>2, <2>3
<1>8. QED
  BY <1>1, <1>2, <1>3, <1>4, <1>5, <1>6, <1>7 DEF ImplMain

\* A handler that starts reads private_data: the object of this mount.
LEMMA StartStep ==
  ASSUME IInv, NEW t \in Threads,
         CallInit(t) \/ Request(t) \/ (CallDestroy /\ t = Main)
  PROVE  IInv'
<1> USE SessionAssumption DEF IInv, pools, Null, Objects, Mounted, Active
<1>1. PICK kind \in {"init", "request", "destroy"} :
        /\ Start(t, kind, NoThread)
        /\ pc' = [pc EXCEPT ![t] = "opening"]
        /\ phase = "looping"
        /\ IF kind = "destroy" THEN phase' = "destroying" /\ t = Main /\ Busy = {}
           ELSE phase' = phase
        /\ todo' \in {todo, todo - 1} /\ todo' \in 0 .. NumRequests
        /\ UNCHANGED <<call, object, scoped, private, inited, lost, pools>>
  BY DEF CallInit, Request, CallDestroy, TypeOK
<1>2. TypeOK'
  BY <1>1 DEF Start, TypeOK, Labels
<1>3. Holding' /\ Leftovers'
  BY <1>1 DEF Holding, Leftovers
<1>4. Serving'
  BY <1>1 DEF Start, TypeOK, Holding, Serving, Busy
<1>5. Asking'
  BY <1>1 DEF Start, TypeOK, Asking
<1>6. QED
  BY <1>2, <1>3, <1>4, <1>5

LEMMA AskStep ==
  ASSUME IInv, NEW t \in Threads, NEW u \in Threads, Ask(t, u)
  PROVE  IInv'
<1> USE SessionAssumption DEF IInv, Ask, Start, pools, Null, Objects, Mounted, Active
<1>1. t # u
  OBVIOUS
<1>2. TypeOK'
  <2>1. pc' \in [Threads -> Labels]
    BY DEF TypeOK, Labels
  <2>2. todo' \in 0 .. NumRequests /\ self' \in [Threads -> 0 .. NumCalls]
    BY DEF TypeOK
  <2>3. /\ serves' \in [Threads -> {"init", "request", "destroy"}]
        /\ asker' \in [Threads -> Threads \union {NoThread}]
    BY DEF TypeOK
  <2>4. QED
    BY <2>1, <2>2, <2>3 DEF TypeOK
<1>3. Holding' /\ Leftovers'
  BY DEF Holding, Leftovers
<1>4. Serving'
  BY <1>1 DEF TypeOK, Holding, Serving, Busy
<1>5. Asking'
  BY <1>1 DEF TypeOK, Asking
<1>6. QED
  BY <1>2, <1>3, <1>4, <1>5

\* A handler ends, and an answer wakes a thread that still has its object.
LEMMA HandlerStep ==
  ASSUME IInv, NEW t \in Threads, Handler(t) \/ SpuriousWakeup(t)
  PROVE  IInv'
<1> USE SessionAssumption DEF IInv, pools, Null, Objects, Mounted, Active
<1>1. CASE Open(t) \/ Wait(t) \/ Close(t) \/ SpuriousWakeup(t)
  <2>1. PICK p \in {"opening", "waiting", "callback", "leaving"} :
          \/ pc' = [pc EXCEPT ![t] = p]
          \/ \E u \in Waiting : pc' = [pc EXCEPT ![t] = p, ![u] = "opening"]
    BY <1>1 DEF Open, Wait, Close, SpuriousWakeup
  <2>2. /\ pc[t] \notin {"idle", "asking"}
        /\ UNCHANGED <<phase, call, object, scoped, private, inited, serves,
                       self, asker, lost, todo, pools>>
    BY <1>1 DEF Open, Wait, Close, SpuriousWakeup
  <2>3. \A u \in Threads :
          \/ pc'[u] = pc[u]
          \/ pc[u] \notin {"idle", "asking"} /\ pc'[u] \notin {"idle", "asking"}
    BY <2>1, <2>2 DEF TypeOK, Waiting
  <2>4. TypeOK'
    BY <2>1, <2>2 DEF TypeOK, Labels, Waiting
  <2>5. Holding' /\ Leftovers'
    BY <2>2 DEF Holding, Leftovers
  <2>6. Serving'
    BY <2>2, <2>3 DEF Serving, Busy
  <2>7. Asking'
    BY <2>2, <2>3 DEF TypeOK, Asking
  <2>8. QED
    BY <2>4, <2>5, <2>6, <2>7
<1>2. CASE Answer(t)
  <2>1. /\ pc[t] = "leaving" /\ serves' = serves
        /\ self' = [self EXCEPT ![t] = Null]
        /\ asker' = [asker EXCEPT ![t] = NoThread]
        /\ UNCHANGED <<phase, call, object, scoped, private, inited, lost, todo,
                       pools>>
    BY <1>2 DEF Answer, Forget
  <2>2. asker[t] # t
    BY DEF TypeOK, Asking
  <2>3. pc' = [u \in Threads |-> IF u = t THEN "idle"
                                 ELSE IF u = asker[t] THEN "callback" ELSE pc[u]]
    BY <1>2, <2>2 DEF Answer
  <2>4. asker[t] # NoThread => pc[asker[t]] = "asking"
    BY DEF Asking
  <2>5. TypeOK'
    BY <2>1, <2>3 DEF TypeOK, Labels
  <2>6. Holding' /\ Leftovers'
    BY <2>1 DEF Holding, Leftovers
  <2>7. Serving'
    BY <2>1, <2>3, <2>4 DEF TypeOK, Serving, Busy
  <2>8. Asking'
    BY <2>1, <2>3 DEF TypeOK, Asking
  <2>9. QED
    BY <2>5, <2>6, <2>7, <2>8
<1>3. CASE InitReturns(t) \/ DestroyReturns(t)
  <2>1. /\ pc[t] = "leaving" /\ pc' = [pc EXCEPT ![t] = "idle"]
        /\ self' = [self EXCEPT ![t] = Null] /\ serves' = serves
        /\ asker' = [asker EXCEPT ![t] = NoThread]
        /\ UNCHANGED <<call, scoped, lost, todo, pools>>
    BY <1>3 DEF InitReturns, DestroyReturns, Forget
  <2>2. phase \in Mounted /\ self[t] = call /\ call \in Objects
        /\ object[call] = "live"
    BY <2>1 DEF Serving, Busy, Leftovers
  <2>3. Asking'
    BY <2>1 DEF TypeOK, Asking
  <2>4. CASE InitReturns(t)
    <3>1. TypeOK' /\ Holding' /\ Leftovers'
      BY <2>1, <2>2, <2>4 DEF InitReturns, TypeOK, Labels, Holding, Leftovers
    <3>2. Serving'
      BY <2>1, <2>4 DEF InitReturns, TypeOK, Serving, Busy
    <3>3. QED
      BY <2>3, <3>1, <3>2
  <2>5. CASE DestroyReturns(t)
    <3>1. phase = "destroying" /\ t = Main
      BY <2>1, <2>5 DEF DestroyReturns, Serving, Busy
    <3>2. /\ object' = [object EXCEPT ![call] = "deleted"]
          /\ private' = Null /\ inited' = FALSE /\ phase' = "returned"
      BY <2>2, <2>5 DEF DestroyReturns
    <3>3. TypeOK' /\ Holding' /\ Leftovers'
      <4>1. TypeOK'
        BY <2>1, <3>2, Bounds DEF TypeOK, Labels
      <4>2. Holding'
        BY <2>1, <3>1, <3>2 DEF Holding
      <4>3. Leftovers'
        BY <2>1, <2>2, <3>2 DEF TypeOK, Leftovers
      <4>4. QED
        BY <4>1, <4>2, <4>3
    <3>4. Serving'
      BY <2>1, <2>5, <3>1 DEF DestroyReturns, TypeOK, Serving, Busy
    <3>5. QED
      BY <2>3, <3>3, <3>4
  <2>6. QED
    BY <1>3, <2>4, <2>5
<1>4. CASE OpenThrows(t)
  <2>1. phase \in Mounted
    BY <1>4 DEF OpenThrows, Serving, Busy
  <2>2. TypeOK'
    BY <1>4 DEF OpenThrows, TypeOK, Labels
  <2>3. Holding' /\ Leftovers'
    BY <1>4, <2>1 DEF OpenThrows, Holding, Leftovers
  <2>4. Serving' /\ Asking'
    BY <1>4 DEF OpenThrows, Serving, Asking, Busy
  <2>5. QED
    BY <2>2, <2>3, <2>4
<1>5. QED
  BY <1>1, <1>2, <1>3, <1>4 DEF Handler

LEMMA StepIInv == IInv /\ [Next]_vars => IInv'
<1> SUFFICES ASSUME IInv, [Next]_vars PROVE IInv'
  OBVIOUS
<1>1. CASE UNCHANGED vars
  BY <1>1 DEF vars, pools, IInv, TypeOK, Holding, Leftovers, Serving, Asking, Busy
<1>2. QED
  BY <1>1, ImplMainStep, StartStep, AskStep, HandlerStep, SessionAssumption
     DEF Next, Done

LEMMA IInvAlways == Spec => []IInv
BY InitIInv, StepIInv, PTL DEF Spec
-----------------------------------------------------------------------------
(***************************************************************************)
(* No handler of any thread uses a null pointer or an object that destroy  *)
(* has deleted, however many requests callbacks make of their own mount.   *)
(***************************************************************************)
THEOREM UseLiveAlways == Spec => []UseLive
<1>1. IInv => UseLive
  BY DEF IInv, Serving, Leftovers, UseLive, Mounted, Active
<1>2. QED
  BY <1>1, IInvAlways, PTL

(***************************************************************************)
(* After any number of calls of fuse.main that succeed or fail, every      *)
(* object has one owner, was deleted, or was lost on an error path.        *)
(***************************************************************************)
THEOREM OwnershipAlways == Spec => []Ownership
<1>1. IInv => Ownership
  BY DEF IInv, Holding, Leftovers, Ownership, OneOwner, Null, Objects, Mounted,
         Active, TypeOK
<1>2. QED
  BY <1>1, IInvAlways, PTL
=============================================================================
