-------------------------- MODULE StatePoolProofs --------------------------
(***************************************************************************)
(* Proofs about StatePool for every number of threads, every setting of    *)
(* start_states, max_states and max_idle_states and every workload.        *)
(*                                                                         *)
(* The inductive invariant grows in two layers: first the types, the       *)
(* control structure and the meaning of active_states_, which depend on    *)
(* each other (close() decrements a counter that must be positive); then   *)
(* the custody of the universes.                                           *)
(***************************************************************************)
EXTENDS StatePool, FiniteSetTheorems, SequenceTheorems, TLAPS

Base == TypeOK /\ Control /\ ActiveCount

-----------------------------------------------------------------------------
(***************************************************************************)
(* The threads at a set of labels are finitely many, and a thread that     *)
(* enters or leaves the set changes their number by one.                   *)
(***************************************************************************)
LEMMA AtFinite ==
  ASSUME NEW labels
  PROVE  IsFiniteSet(At(labels)) /\ Cardinality(At(labels)) \in Nat
<1>1. At(labels) \subseteq Threads
  BY DEF At
<1> QED
  BY <1>1, PoolAssumption, FS_Subset, FS_CardinalityType

LEMMA Enter ==
  ASSUME NEW t \in Threads, TypeOK, ActiveCount,
         NEW from \in Labels \ Counted, NEW to \in Counted,
         Goto(t, from, to), active' = active + 1, thrown' = thrown
  PROVE  ActiveCount'
<1>1. At(Counted)' = At(Counted) \union {t} /\ t \notin At(Counted)
  BY DEF At, Goto, TypeOK
<1>2. Cardinality(At(Counted)') = Cardinality(At(Counted)) + 1
  BY <1>1, AtFinite, FS_AddElement
<1> QED
  BY <1>2, AtFinite DEF ActiveCount, TypeOK

LEMMA Leave ==
  ASSUME NEW t \in Threads, TypeOK, ActiveCount,
         NEW from \in Counted, NEW to \in Labels \ Counted,
         Goto(t, from, to)
  PROVE  /\ active \in Nat \ {0}
         /\ active' = active - 1 /\ thrown' = thrown => ActiveCount'
         /\ active' = active /\ thrown' = thrown + 1 => ActiveCount'
<1>1. At(Counted)' = At(Counted) \ {t} /\ t \in At(Counted)
  BY DEF At, Goto, TypeOK
<1>2. Cardinality(At(Counted)') = Cardinality(At(Counted)) - 1
  BY <1>1, AtFinite, FS_RemoveElement
<1>3. Cardinality(At(Counted)) # 0
  BY <1>1, AtFinite, FS_EmptySet
<1> QED
  BY <1>2, <1>3, AtFinite DEF ActiveCount, TypeOK

LEMMA Stay ==
  ASSUME TypeOK, ActiveCount,
         \A t \in Threads : pc'[t] \in Counted <=> pc[t] \in Counted,
         active' = active, thrown' = thrown
  PROVE  ActiveCount'
<1>1. At(Counted)' = At(Counted)
  BY DEF At
<1> QED
  BY <1>1 DEF ActiveCount
-----------------------------------------------------------------------------
LEMMA InitBase == Init => Base
<1> SUFFICES ASSUME Init PROVE Base
  OBVIOUS
<1>1. TypeOK
  BY PoolAssumption, EmptySeq DEF Init, TypeOK, Phases, Labels
<1>2. Control
  BY PoolAssumption DEF Init, Control, Critical, Holding, NobodyInside
<1>3. ActiveCount
  <2>1. At(Counted) = {}
    BY DEF Init, At, Counted
  <2> QED
    BY <2>1, FS_EmptySet DEF Init, ActiveCount
<1> QED
  BY <1>1, <1>2, <1>3 DEF Base

(***************************************************************************)
(* Steps outside open() and close().                                       *)
(***************************************************************************)
LEMMA OwnerBase == Base /\ Owner => Base'
<1> SUFFICES ASSUME Base, Owner PROVE Base'
  OBVIOUS
<1> USE PoolAssumption DEF Base, Control, NobodyInside, Critical, Holding, Goto
<1>1. CASE BuildState
  <2>1. TypeOK'
    BY <1>1, AppendProperties DEF BuildState, TypeOK
  <2>2. ActiveCount'
    BY <1>1, Stay DEF BuildState
  <2> QED
    BY <1>1, <2>1, <2>2 DEF BuildState
<1>2. CASE BuildFail
  <2>1. TypeOK'
    BY <1>2, EmptySeq DEF BuildFail, TypeOK, Phases
  <2>2. ActiveCount'
    BY <1>2, Stay DEF BuildFail
  <2> QED
    BY <1>2, <2>1, <2>2 DEF BuildFail
<1>3. CASE BuildDone
  <2>1. TypeOK'
    BY <1>3 DEF BuildDone, TypeOK, Phases
  <2>2. ActiveCount'
    BY <1>3, Stay DEF BuildDone
  <2> QED
    BY <1>3, <2>1, <2>2 DEF BuildDone
<1>4. CASE Mount
  <2>1. TypeOK'
    BY <1>4 DEF Mount, TypeOK, Phases, Labels
  <2>2. ActiveCount'
    BY <1>4, Stay DEF Mount, TypeOK, Counted
  <2> QED
    BY <1>4, <2>1, <2>2 DEF Mount, TypeOK
<1>5. CASE Unmount
  <2>1. TypeOK'
    BY <1>5 DEF Unmount, TypeOK, Phases
  <2>2. ActiveCount'
    BY <1>5, Stay DEF Unmount
  <2> QED
    BY <1>5, <2>1, <2>2 DEF Unmount
<1>6. CASE Collect
  <2>1. TypeOK'
    BY <1>6 DEF Collect, TypeOK, Phases
  <2>2. ActiveCount'
    BY <1>6, Stay DEF Collect
  <2> QED
    BY <1>6, <2>1, <2>2 DEF Collect
<1>7. CASE DestroyIdle
  <2>1. TypeOK'
    BY <1>7, HeadTailProperties DEF DestroyIdle, TypeOK
  <2>2. ActiveCount'
    BY <1>7, Stay DEF DestroyIdle
  <2> QED
    BY <1>7, <2>1, <2>2 DEF DestroyIdle
<1>8. CASE DestroyDone
  <2>1. TypeOK'
    BY <1>8 DEF DestroyDone, TypeOK, Phases
  <2>2. ActiveCount'
    BY <1>8, Stay DEF DestroyDone
  <2> QED
    BY <1>8, <2>1, <2>2 DEF DestroyDone
<1> QED
  BY <1>1, <1>2, <1>3, <1>4, <1>5, <1>6, <1>7, <1>8 DEF Owner

(***************************************************************************)
(* Steps of a thread in open().                                            *)
(***************************************************************************)
LEMMA OpenBase ==
  ASSUME Base, NEW t \in Threads,
         \/ Request(t) \/ OpenLock(t) \/ OpenWait(t) \/ SpuriousWakeup(t)
         \/ OpenIdle(t) \/ OpenNew(t) \/ Construct(t) \/ ConstructFail(t)
  PROVE  Base'
<1> USE PoolAssumption DEF Base, Control, NobodyInside, Critical, Holding, Goto
<1>1. CASE Request(t)
  <2>1. TypeOK'
    BY <1>1 DEF Request, TypeOK, Labels, Phases
  <2>2. ActiveCount'
    BY <1>1, Stay DEF Request, TypeOK, Counted
  <2> QED
    BY <1>1, <2>1, <2>2 DEF Request, TypeOK, Running
<1>2. CASE OpenLock(t)
  <2>1. TypeOK'
    BY <1>2 DEF OpenLock, TypeOK, Labels, Phases
  <2>2. ActiveCount'
    BY <1>2, Stay DEF OpenLock, TypeOK, Counted
  <2> QED
    BY <1>2, <2>1, <2>2 DEF OpenLock, TypeOK, Running
<1>3. CASE OpenWait(t)
  <2>1. TypeOK'
    BY <1>3 DEF OpenWait, TypeOK, Labels, Phases
  <2>2. ActiveCount'
    BY <1>3, Stay DEF OpenWait, TypeOK, Counted
  <2> QED
    BY <1>3, <2>1, <2>2 DEF OpenWait, TypeOK, Running
<1>4. CASE SpuriousWakeup(t)
  <2>1. TypeOK'
    BY <1>4 DEF SpuriousWakeup, TypeOK, Labels, Phases
  <2>2. ActiveCount'
    BY <1>4, Stay DEF SpuriousWakeup, TypeOK, Counted
  <2> QED
    BY <1>4, <2>1, <2>2 DEF SpuriousWakeup, TypeOK, Running
<1>5. CASE OpenIdle(t)
  <2>1. Head(idle) \in States /\ Tail(idle) \in Seq(States)
    BY <1>5, HeadTailProperties DEF OpenIdle, TypeOK
  <2>2. TypeOK'
    BY <1>5, <2>1 DEF OpenIdle, TypeOK, Labels
  <2>3. ActiveCount'
    BY <1>5, Enter DEF OpenIdle, Counted, Labels
  <2> QED
    BY <1>5, <2>1, <2>2, <2>3 DEF OpenIdle, TypeOK, Running
<1>6. CASE OpenNew(t)
  <2>1. TypeOK'
    BY <1>6 DEF OpenNew, TypeOK, Labels
  <2>2. ActiveCount'
    BY <1>6, Enter DEF OpenNew, Counted, Labels
  <2> QED
    BY <1>6, <2>1, <2>2 DEF OpenNew, TypeOK, Running
<1>7. CASE Construct(t)
  <2>1. TypeOK'
    BY <1>7 DEF Construct, TypeOK, Labels, Phases
  <2>2. ActiveCount'
    BY <1>7, Stay DEF Construct, TypeOK, Counted
  <2> QED
    BY <1>7, <2>1, <2>2 DEF Construct, TypeOK, Running
<1>8. CASE ConstructFail(t)
  <2>1. TypeOK'
    BY <1>8 DEF ConstructFail, TypeOK, Labels, Phases
  <2>2. ActiveCount'
    BY <1>8, Leave DEF ConstructFail, Counted, Labels
  <2> QED
    BY <1>8, <2>1, <2>2 DEF ConstructFail, TypeOK, Running
<1> QED
  BY <1>1, <1>2, <1>3, <1>4, <1>5, <1>6, <1>7, <1>8

(***************************************************************************)
(* Steps of a thread in close().                                           *)
(***************************************************************************)
LEMMA CloseBase ==
  ASSUME Base, NEW t \in Threads,
         \/ Finish(t) \/ CloseLock(t)
         \/ CloseKeep(t) \/ CloseDrop(t) \/ CloseFree(t)
  PROVE  Base'
<1> USE PoolAssumption DEF Base, Control, NobodyInside, Critical, Holding, Goto
<1>1. CASE Finish(t)
  <2>1. TypeOK'
    BY <1>1 DEF Finish, TypeOK, Labels, Phases
  <2>2. ActiveCount'
    BY <1>1, Stay DEF Finish, TypeOK, Counted
  <2> QED
    BY <1>1, <2>1, <2>2 DEF Finish, TypeOK, Running
<1>2. CASE CloseLock(t)
  <2>1. TypeOK'
    BY <1>2 DEF CloseLock, TypeOK, Labels, Phases
  <2>2. ActiveCount'
    BY <1>2, Stay DEF CloseLock, TypeOK, Counted
  <2> QED
    BY <1>2, <2>1, <2>2 DEF CloseLock, TypeOK, Running
<1>3. CASE CloseKeep(t)
  <2>1. /\ active \in Nat \ {0}
        /\ ActiveCount'
    BY <1>3, Leave DEF CloseKeep, Counted, Labels
  <2>2. held[t] \in States
    BY <1>3 DEF CloseKeep, TypeOK
  <2>3. Append(idle, held[t]) \in Seq(States)
    BY <2>2, AppendProperties DEF TypeOK
  <2>4. TypeOK'
    BY <1>3, <2>1, <2>3 DEF CloseKeep, AfterClose, TypeOK, Labels, Phases
  <2> QED
    BY <1>3, <2>1, <2>4 DEF CloseKeep, AfterClose, TypeOK, Running
<1>4. CASE CloseDrop(t)
  <2>1. /\ active \in Nat \ {0}
        /\ ActiveCount'
    BY <1>4, Leave DEF CloseDrop, Counted, Labels
  <2>2. TypeOK'
    BY <1>4, <2>1 DEF CloseDrop, TypeOK, Labels
  <2> QED
    BY <1>4, <2>1, <2>2 DEF CloseDrop, TypeOK, Running
<1>5. CASE CloseFree(t)
  <2>1. TypeOK'
    BY <1>5 DEF CloseFree, AfterClose, TypeOK, Labels, Phases
  <2>2. ActiveCount'
    BY <1>5, Stay DEF CloseFree, TypeOK, Counted
  <2> QED
    BY <1>5, <2>1, <2>2 DEF CloseFree, AfterClose, TypeOK, Running
<1> QED
  BY <1>1, <1>2, <1>3, <1>4, <1>5

LEMMA StutterBase == Base /\ UNCHANGED vars => Base'
<1> SUFFICES ASSUME Base, UNCHANGED vars PROVE Base'
  OBVIOUS
<1>1. ActiveCount'
  BY Stay DEF Base, vars
<1> QED
  BY <1>1 DEF Base, Control, TypeOK, NobodyInside, vars

LEMMA NextBase == Base /\ [Next]_vars => Base'
  BY OwnerBase, OpenBase, CloseBase, StutterBase DEF Next, Step, Done

LEMMA BaseAlways == Spec => []Base
  BY InitBase, NextBase, PTL DEF Spec

(***************************************************************************)
(* Type correctness; in particular the size_t active_states_ never goes    *)
(* below zero.                                                             *)
(***************************************************************************)
THEOREM TypeOKAlways == Spec => []TypeOK
  BY BaseAlways, PTL DEF Base

(***************************************************************************)
(* The mutex covers the critical sections, and nobody is inside the pool   *)
(* when it is collected.                                                   *)
(***************************************************************************)
THEOREM ControlAlways == Spec => []Control
  BY BaseAlways, PTL DEF Base

(***************************************************************************)
(* active_states_ is exactly the number of states lent or being made, plus *)
(* the slots that open() lost by throwing.                                 *)
(***************************************************************************)
THEOREM ActiveCountAlways == Spec => []ActiveCount
  BY BaseAlways, PTL DEF Base
-----------------------------------------------------------------------------
(***************************************************************************)
(* The idle list after pop_front and after push_back, element by element.  *)
(***************************************************************************)
LEMMA PopFront ==
  ASSUME NEW q \in Seq(States), q # <<>>
  PROVE  /\ Len(q) \in Nat \ {0} /\ Len(Tail(q)) = Len(q) - 1
         /\ Head(q) = q[1] /\ 1 \in 1 .. Len(q)
         /\ \A i \in 1 .. Len(Tail(q)) :
              i + 1 \in 1 .. Len(q) /\ Tail(q)[i] = q[i + 1]
         /\ \A i \in 1 .. Len(q) :
              q[i] = Head(q) \/ \E j \in 1 .. Len(Tail(q)) : Tail(q)[j] = q[i]
<1>1. Len(q) \in Nat \ {0}
  BY EmptySeq
<1>2. Len(Tail(q)) = Len(q) - 1
  BY HeadTailProperties
<1>3. \A i \in 1 .. Len(Tail(q)) : Tail(q)[i] = q[i + 1]
  BY HeadTailProperties
<1>4. Head(q) = q[1] /\ 1 \in 1 .. Len(q)
  BY <1>1
<1>5. ASSUME NEW i \in 1 .. Len(q), q[i] # Head(q)
      PROVE  \E j \in 1 .. Len(Tail(q)) : Tail(q)[j] = q[i]
  <2>1. i - 1 \in 1 .. Len(Tail(q))
    BY <1>1, <1>2, <1>4, <1>5
  <2> QED
    BY <1>1, <1>3, <2>1
<1> QED
  BY <1>1, <1>2, <1>3, <1>4, <1>5

LEMMA PushBack ==
  ASSUME NEW q \in Seq(States), NEW s \in States
  PROVE  /\ Len(q) \in Nat /\ Len(Append(q, s)) = Len(q) + 1
         /\ Append(q, s)[Len(q) + 1] = s
         /\ \A i \in 1 .. Len(Append(q, s)) :
              \/ i \in 1 .. Len(q) /\ Append(q, s)[i] = q[i]
              \/ i = Len(q) + 1
         /\ \A i \in 1 .. Len(q) :
              i \in 1 .. Len(Append(q, s)) /\ Append(q, s)[i] = q[i]
         /\ Len(q) + 1 \in 1 .. Len(Append(q, s))
<1>1. Len(q) \in Nat
  OBVIOUS
<1>2. /\ Len(Append(q, s)) = Len(q) + 1
      /\ Append(q, s)[Len(q) + 1] = s
      /\ \A i \in 1 .. Len(q) : Append(q, s)[i] = q[i]
  BY AppendProperties
<1> QED
  BY <1>1, <1>2

LEMMA InitExclusive == Init => Exclusive
  BY DEF Init, Exclusive, IdleSet, HeldSet, At, Holding

LEMMA OwnerExclusive == Base /\ Exclusive /\ Owner => Exclusive'
<1> SUFFICES ASSUME Base, Exclusive, Owner PROVE Exclusive'
  OBVIOUS
<1> USE DEF Exclusive, IdleSet, HeldSet, At, Goto
<1>1. CASE BuildState
  <2>1. PICK s \in States \ live :
           live' = live \union {s} /\ idle' = Append(idle, s)
    BY <1>1 DEF BuildState
  <2>2. At(Holding) = {} /\ At(Holding)' = {}
    BY <1>1 DEF BuildState, Base, Control, NobodyInside, Holding
  <2> QED
    BY <2>1, <2>2, PushBack DEF Base, TypeOK
<1>2. CASE BuildFail
  BY <1>2 DEF BuildFail, Base, Control, NobodyInside, Holding
<1>3. CASE DestroyIdle
  <2>1. At(Holding) = {} /\ At(Holding)' = {}
    BY <1>3 DEF DestroyIdle, Base, Control, NobodyInside, Holding
  <2>2. /\ idle \in Seq(States) /\ idle # <<>>
        /\ idle' = Tail(idle) /\ live' = live \ {Head(idle)}
    BY <1>3 DEF DestroyIdle, Base, TypeOK
  <2> QED
    BY <2>1, <2>2, PopFront
<1>4. CASE BuildDone \/ Unmount \/ Collect \/ DestroyDone
  <2>1. idle' = idle /\ live' = live /\ held' = held /\ pc' = pc
    BY <1>4 DEF BuildDone, Unmount, Collect, DestroyDone
  <2> QED
    BY <2>1
<1>5. CASE Mount
  <2>1. /\ idle' = idle /\ live' = live /\ held' = held
        /\ pc' = [pc EXCEPT ![Main] = "open_lock"] /\ pc[Main] = "idle"
        /\ pc \in [Threads -> Labels] /\ Main \in Threads
    BY <1>5, PoolAssumption DEF Mount, Base, TypeOK
  <2>2. At(Holding)' = At(Holding)
    BY <2>1 DEF Holding
  <2> HIDE DEF At
  <2> QED
    BY <2>1, <2>2
<1> QED
  BY <1>1, <1>2, <1>3, <1>4, <1>5 DEF Owner

LEMMA OpenExclusive ==
  ASSUME Base, Exclusive, NEW t \in Threads,
         \/ Request(t) \/ OpenLock(t) \/ OpenWait(t) \/ SpuriousWakeup(t)
         \/ OpenIdle(t) \/ OpenNew(t) \/ Construct(t) \/ ConstructFail(t)
  PROVE  Exclusive'
<1> USE DEF Exclusive, IdleSet, HeldSet, At, Goto
<1>1. CASE OpenIdle(t)
  <2>1. /\ idle \in Seq(States) /\ idle # <<>> /\ idle' = Tail(idle)
        /\ live' = live
        /\ held' = [held EXCEPT ![t] = Head(idle)]
        /\ At(Holding)' = At(Holding) \union {t} /\ t \notin At(Holding)
        /\ held \in [Threads -> States \union {NoState}]
    BY <1>1 DEF OpenIdle, Base, TypeOK, Holding
  <2> QED
    BY <2>1, PopFront
<1>2. CASE Construct(t)
  <2>1. PICK s \in States \ live :
           live' = live \union {s} /\ held' = [held EXCEPT ![t] = s]
    BY <1>2 DEF Construct
  <2>2. /\ idle' = idle
        /\ At(Holding)' = At(Holding) \union {t} /\ t \notin At(Holding)
        /\ held \in [Threads -> States \union {NoState}]
    BY <1>2 DEF Construct, Base, TypeOK, Holding
  <2> QED
    BY <2>1, <2>2
<1>3. CASE \/ Request(t) \/ OpenLock(t) \/ OpenWait(t) \/ SpuriousWakeup(t)
           \/ OpenNew(t) \/ ConstructFail(t)
  BY <1>3 DEF Request, OpenLock, OpenWait, SpuriousWakeup, OpenNew,
     ConstructFail, Base, TypeOK, Holding
<1> QED
  BY <1>1, <1>2, <1>3

LEMMA CloseExclusive ==
  ASSUME Base, Exclusive, NEW t \in Threads,
         \/ Finish(t) \/ CloseLock(t)
         \/ CloseKeep(t) \/ CloseDrop(t) \/ CloseFree(t)
  PROVE  Exclusive'
<1> USE DEF Exclusive, IdleSet, HeldSet, At, Goto
<1>1. CASE CloseKeep(t)
  <2>1. /\ idle \in Seq(States) /\ held[t] \in States
        /\ idle' = Append(idle, held[t])
        /\ live' = live
        /\ held' = [held EXCEPT ![t] = NoState]
        /\ At(Holding)' = At(Holding) \ {t} /\ t \in At(Holding)
        /\ held \in [Threads -> States \union {NoState}]
    BY <1>1 DEF CloseKeep, Base, TypeOK, Control, Holding
  <2> QED
    BY <2>1, PushBack
<1>2. CASE CloseFree(t)
  <2>1. /\ idle' = idle
        /\ live' = live \ {held[t]}
        /\ held' = [held EXCEPT ![t] = NoState]
        /\ At(Holding)' = At(Holding) \ {t} /\ t \in At(Holding)
        /\ held \in [Threads -> States \union {NoState}]
    BY <1>2 DEF CloseFree, Base, TypeOK, Holding
  <2> QED
    BY <2>1
<1>3. CASE Finish(t) \/ CloseLock(t) \/ CloseDrop(t)
  BY <1>3 DEF Finish, CloseLock, CloseDrop, Base, TypeOK, Holding
<1> QED
  BY <1>1, <1>2, <1>3

LEMMA NextExclusive == Base /\ Exclusive /\ [Next]_vars => Exclusive'
<1>1. ASSUME Exclusive, UNCHANGED vars PROVE Exclusive'
  BY <1>1 DEF Exclusive, IdleSet, HeldSet, At, vars
<1> QED
  BY <1>1, OwnerExclusive, OpenExclusive, CloseExclusive DEF Next, Step, Done

(***************************************************************************)
(* No universe is ever in two hands, idle while in use, or used after      *)
(* lua_close.                                                              *)
(***************************************************************************)
THEOREM ExclusiveAlways == Spec => []Exclusive
  BY InitExclusive, NextExclusive, BaseAlways, PTL DEF Spec
-----------------------------------------------------------------------------
LEMMA InitNoLeak == Init => NoLeak
  BY DEF Init, NoLeak

LEMMA OwnerNoLeak == Base /\ NoLeak /\ Owner => NoLeak'
<1> SUFFICES ASSUME Base, NoLeak, Owner PROVE NoLeak'
  OBVIOUS
<1> USE DEF NoLeak, IdleSet, HeldSet, At, Goto
<1>1. CASE BuildState
  <2>1. PICK s \in States \ live :
           live' = live \union {s} /\ idle' = Append(idle, s)
    BY <1>1 DEF BuildState
  <2>2. /\ phase = "building" /\ phase' = "building"
        /\ pc' = pc /\ held' = held /\ idle \in Seq(States)
    BY <1>1 DEF BuildState, Base, TypeOK
  <2> QED
    BY <2>1, <2>2, PushBack
<1>2. CASE BuildFail
  BY <1>2 DEF BuildFail
<1>3. CASE DestroyIdle
  <2>1. /\ phase = "destroying" /\ phase' = "destroying"
        /\ pc' = pc /\ held' = held
        /\ idle \in Seq(States) /\ idle # <<>>
        /\ idle' = Tail(idle) /\ live' = live \ {Head(idle)}
    BY <1>3 DEF DestroyIdle, Base, TypeOK
  <2> QED
    BY <2>1, PopFront
<1>4. CASE DestroyDone
  <2>1. At(Holding) = {} /\ IdleSet = {}
    BY <1>4 DEF DestroyDone, Base, Control, NobodyInside, Holding
  <2>2. live = {}
    BY <1>4, <2>1 DEF DestroyDone
  <2> QED
    BY <1>4, <2>2 DEF DestroyDone
<1>5. CASE BuildDone \/ Unmount \/ Collect
  BY <1>5 DEF BuildDone, Unmount, Collect
<1>6. CASE Mount
  BY <1>6, PoolAssumption DEF Mount, Base, TypeOK, Holding
<1> QED
  BY <1>1, <1>2, <1>3, <1>4, <1>5, <1>6 DEF Owner

LEMMA ThreadNoLeak ==
  ASSUME Base, NoLeak, NEW t \in Threads,
         Request(t) \/ Step(t) \/ SpuriousWakeup(t)
  PROVE  NoLeak'
<1> USE DEF NoLeak, IdleSet, HeldSet, At, Goto
<1>0. phase \notin {"build_failed", "destroyed"} /\ phase' \notin {"build_failed", "destroyed"}
  BY DEF Request, SpuriousWakeup, Step, OpenLock, OpenWait, OpenIdle, OpenNew,
     Construct, ConstructFail, Finish, CloseLock, CloseKeep, CloseDrop,
     CloseFree, AfterClose, Running
<1>1. CASE OpenIdle(t)
  <2>1. /\ idle \in Seq(States) /\ idle # <<>> /\ idle' = Tail(idle)
        /\ live' = live
        /\ held' = [held EXCEPT ![t] = Head(idle)]
        /\ At(Holding)' = At(Holding) \union {t} /\ t \notin At(Holding)
        /\ held \in [Threads -> States \union {NoState}]
    BY <1>1 DEF OpenIdle, Base, TypeOK, Holding
  <2>2. HeldSet' = HeldSet \union {Head(idle)}
    BY <2>1
  <2>3. IdleSet \subseteq IdleSet' \union {Head(idle)}
    BY <2>1, PopFront
  <2> QED
    BY <1>0, <2>1, <2>2, <2>3
<1>2. CASE Construct(t)
  <2>1. PICK s \in States \ live :
           live' = live \union {s} /\ held' = [held EXCEPT ![t] = s]
    BY <1>2 DEF Construct
  <2>2. /\ idle' = idle
        /\ At(Holding)' = At(Holding) \union {t} /\ t \notin At(Holding)
        /\ held \in [Threads -> States \union {NoState}]
    BY <1>2 DEF Construct, Base, TypeOK, Holding
  <2>3. HeldSet' = HeldSet \union {s}
    BY <2>1, <2>2
  <2> QED
    BY <1>0, <2>1, <2>2, <2>3
<1>3. CASE CloseKeep(t)
  <2>1. /\ idle \in Seq(States) /\ held[t] \in States
        /\ idle' = Append(idle, held[t])
        /\ live' = live
        /\ held' = [held EXCEPT ![t] = NoState]
        /\ At(Holding)' = At(Holding) \ {t} /\ t \in At(Holding)
        /\ held \in [Threads -> States \union {NoState}]
    BY <1>3 DEF CloseKeep, Base, TypeOK, Control, Holding
  <2>2. HeldSet \subseteq HeldSet' \union {held[t]}
    BY <2>1
  <2>3. IdleSet \union {held[t]} \subseteq IdleSet'
    BY <2>1, PushBack
  <2> QED
    BY <1>0, <2>1, <2>2, <2>3
<1>4. CASE CloseFree(t)
  <2>1. /\ idle' = idle
        /\ live' = live \ {held[t]}
        /\ held' = [held EXCEPT ![t] = NoState]
        /\ At(Holding)' = At(Holding) \ {t} /\ t \in At(Holding)
        /\ held \in [Threads -> States \union {NoState}]
    BY <1>4 DEF CloseFree, Base, TypeOK, Holding
  <2>2. HeldSet \subseteq HeldSet' \union {held[t]}
    BY <2>1
  <2> QED
    BY <1>0, <2>1, <2>2
<1>5. CASE \/ Request(t) \/ OpenLock(t) \/ OpenWait(t) \/ SpuriousWakeup(t)
           \/ OpenNew(t) \/ ConstructFail(t)
           \/ Finish(t) \/ CloseLock(t) \/ CloseDrop(t)
  BY <1>0, <1>5 DEF Request, OpenLock, OpenWait, SpuriousWakeup, OpenNew,
     ConstructFail, Finish, CloseLock, CloseDrop, Base, TypeOK, Holding
<1> QED
  BY <1>1, <1>2, <1>3, <1>4, <1>5 DEF Step

LEMMA NextNoLeak == Base /\ NoLeak /\ [Next]_vars => NoLeak'
<1>1. ASSUME NoLeak, UNCHANGED vars PROVE NoLeak'
  BY <1>1 DEF NoLeak, IdleSet, HeldSet, At, vars
<1> QED
  BY <1>1, OwnerNoLeak, ThreadNoLeak DEF Next, Done

(***************************************************************************)
(* Every universe that exists is idle or in some thread's hands, and none  *)
(* is left when the pool has been collected.                               *)
(***************************************************************************)
THEOREM NoLeakAlways == Spec => []NoLeak
  BY InitNoLeak, NextNoLeak, BaseAlways, PTL DEF Spec
-----------------------------------------------------------------------------
(***************************************************************************)
(* A thread that has to wait sees max_states slots taken, by the others or *)
(* by opens that threw.                                                    *)
(***************************************************************************)
LEMMA WaitCount ==
  ASSUME Base, NEW t \in Threads, OpenWait(t)
  PROVE  Cardinality(Threads) + thrown > MaxStates
<1>1. t \notin At(Counted) /\ active >= MaxStates
  BY DEF OpenWait, MustWait, Goto, At, Counted
<1>2. At(Counted) \subseteq Threads
  BY DEF At
<1>3. Cardinality(Threads) \in Nat
  BY PoolAssumption, FS_CardinalityType
<1>4. Cardinality(At(Counted)) < Cardinality(Threads)
  BY <1>1, <1>2, <1>3, AtFinite, PoolAssumption, FS_Subset
<1> QED
  BY <1>1, <1>3, <1>4, AtFinite, PoolAssumption
     DEF Base, ActiveCount, TypeOK

LEMMA NextNobodyWaits == Base /\ NobodyWaits /\ [Next]_vars => NobodyWaits'
<1> SUFFICES ASSUME Base, NobodyWaits, [Next]_vars PROVE NobodyWaits'
  OBVIOUS
<1>0. Cardinality(Threads) \in Nat /\ thrown \in Nat /\ MaxStates \in Nat
  BY PoolAssumption, FS_CardinalityType DEF Base, TypeOK
<1>1. ASSUME NEW t \in Threads, OpenWait(t) PROVE NobodyWaits'
  BY <1>0, <1>1, WaitCount DEF OpenWait, NobodyWaits
<1>2. ASSUME NEW t \in Threads, ConstructFail(t) PROVE NobodyWaits'
  BY <1>0, <1>2 DEF ConstructFail, NobodyWaits
<1>3. ASSUME NEW t \in Threads, SpuriousWakeup(t) PROVE NobodyWaits'
  BY <1>3 DEF SpuriousWakeup, NobodyWaits
<1>4. ASSUME NEW t \in Threads,
             \/ Request(t) \/ OpenLock(t) \/ OpenIdle(t) \/ OpenNew(t)
             \/ Construct(t) \/ Finish(t) \/ CloseLock(t)
             \/ CloseKeep(t) \/ CloseDrop(t) \/ CloseFree(t)
      PROVE  NobodyWaits'
  BY <1>4 DEF NobodyWaits, Request, OpenLock, OpenIdle, OpenNew, Construct,
     Finish, CloseLock, CloseKeep, CloseDrop, CloseFree
<1>5. CASE Owner
  BY <1>5 DEF NobodyWaits, Owner, BuildState, BuildFail, BuildDone, Mount,
     Unmount, Collect, DestroyIdle, DestroyDone
<1>6. CASE UNCHANGED vars
  BY <1>6 DEF NobodyWaits, vars
<1> QED
  BY <1>1, <1>2, <1>3, <1>4, <1>5, <1>6 DEF Next, Step, Done

(***************************************************************************)
(* The missing notification in close() does no harm as long as max_states  *)
(* covers every thread and every open() that threw: nobody waits for it.   *)
(***************************************************************************)
THEOREM NobodyWaitsAlways == Spec => []NobodyWaits
<1>1. Init => NobodyWaits
  BY DEF Init, NobodyWaits
<1> QED
  BY <1>1, NextNobodyWaits, BaseAlways, PTL DEF Spec
-----------------------------------------------------------------------------
(***************************************************************************)
(* The bound that open() and close() keep: a state moves between idle and  *)
(* active, and a new one is counted only below max_states.                 *)
(***************************************************************************)
Bound ==
  /\ active + Len(idle) <= Limit
  /\ Len(idle) <= Larger(StartStates, MaxIdleStates)
  /\ phase = "building" => Len(idle) <= StartStates /\ active = 0

LEMMA LimitNat ==
  /\ Limit \in Nat /\ Limit >= StartStates /\ Limit >= MaxStates
  /\ Larger(StartStates, MaxIdleStates) \in Nat
  /\ Larger(StartStates, MaxIdleStates) >= StartStates
  /\ Larger(StartStates, MaxIdleStates) >= MaxIdleStates
  BY PoolAssumption DEF Limit, Larger

LEMMA NextBound == Base /\ Bound /\ [Next]_vars => Bound'
<1> SUFFICES ASSUME Base, Bound, [Next]_vars PROVE Bound'
  OBVIOUS
<1>0. /\ active \in Nat /\ idle \in Seq(States) /\ Len(idle) \in Nat
      /\ Base'
  BY NextBase DEF Base, TypeOK
<1> USE LimitNat, PoolAssumption DEF Bound, Limit
<1>1. CASE BuildState
  BY <1>0, <1>1, PushBack DEF BuildState
<1>2. CASE BuildFail
  BY <1>0, <1>2 DEF BuildFail
<1>3. CASE DestroyIdle
  BY <1>0, <1>3, PopFront DEF DestroyIdle
<1>4. CASE BuildDone \/ Mount \/ Unmount \/ Collect \/ DestroyDone
  BY <1>0, <1>4 DEF BuildDone, Mount, Unmount, Collect, DestroyDone
<1>5. ASSUME NEW t \in Threads, OpenIdle(t) PROVE Bound'
  BY <1>0, <1>5, PopFront DEF OpenIdle, Running
<1>6. ASSUME NEW t \in Threads, OpenNew(t) PROVE Bound'
  <2>1. idle = <<>> /\ Len(idle) = 0 /\ ~(active >= MaxStates)
    BY <1>6, EmptySeq DEF OpenNew, MustWait
  <2> QED
    BY <1>0, <1>6, <2>1 DEF OpenNew, Running
<1>7. ASSUME NEW t \in Threads, CloseKeep(t) PROVE Bound'
  <2>1. held[t] \in States
    BY <1>7 DEF CloseKeep, Goto, Base, TypeOK, Control, Holding
  <2>2. Len(Append(idle, held[t])) = Len(idle) + 1
    BY <1>0, <2>1, PushBack
  <2>3. phase' # "building"
    BY <1>7 DEF CloseKeep, AfterClose, Running
  <2> QED
    BY <1>0, <1>7, <2>2, <2>3 DEF CloseKeep
<1>8. ASSUME NEW t \in Threads, CloseDrop(t) PROVE Bound'
  BY <1>0, <1>8 DEF CloseDrop, Running
<1>9. ASSUME NEW t \in Threads,
             \/ Request(t) \/ OpenLock(t) \/ OpenWait(t) \/ SpuriousWakeup(t)
             \/ Construct(t) \/ ConstructFail(t)
             \/ Finish(t) \/ CloseLock(t) \/ CloseFree(t)
      PROVE  Bound'
  BY <1>0, <1>9 DEF Request, OpenLock, OpenWait, SpuriousWakeup, Construct,
     ConstructFail, Finish, CloseLock, CloseFree, AfterClose, Running
<1>10. CASE UNCHANGED vars
  BY <1>10 DEF vars
<1> QED
  BY <1>1, <1>2, <1>3, <1>4, <1>5, <1>6, <1>7, <1>8, <1>9, <1>10
     DEF Next, Owner, Step, Done

LEMMA BoundAlways == Spec => []Bound
<1>1. Init => Bound
  BY LimitNat, PoolAssumption, EmptySeq DEF Init, Bound
<1> QED
  BY <1>1, NextBound, BaseAlways, PTL DEF Spec

(***************************************************************************)
(* A sum bounds the union of two finite sets, and the values of a function *)
(* are at most as many as its arguments.                                   *)
(***************************************************************************)
LEMMA UnionBound ==
  ASSUME NEW A, NEW B, IsFiniteSet(A), IsFiniteSet(B)
  PROVE  /\ IsFiniteSet(A \union B)
         /\ Cardinality(A \union B) <= Cardinality(A) + Cardinality(B)
<1>1. A \intersect B \subseteq A
  OBVIOUS
<1>2. /\ Cardinality(A) \in Nat /\ Cardinality(B) \in Nat
      /\ Cardinality(A \intersect B) \in Nat
  BY <1>1, FS_Subset, FS_CardinalityType
<1>3. /\ IsFiniteSet(A \union B)
      /\ Cardinality(A \union B) =
           Cardinality(A) + Cardinality(B) - Cardinality(A \intersect B)
  BY FS_Union
<1> QED
  BY <1>2, <1>3

LEMMA ImageBound ==
  ASSUME NEW S, IsFiniteSet(S), NEW f
  PROVE  /\ IsFiniteSet({f[x] : x \in S})
         /\ Cardinality({f[x] : x \in S}) <= Cardinality(S)
<1> DEFINE T == {f[x] : x \in S}
           g == [x \in S |-> f[x]]
<1>1. g \in Surjection(S, T)
  BY DEF Surjection
<1> QED
  BY <1>1, FS_Surjection

LEMMA LiveBound ==
  Base /\ Bound /\ NoLeak /\ phase # "build_failed" =>
    Cardinality(live) <= Limit + Cardinality(At({"close_free"}))
<1> SUFFICES ASSUME Base, Bound, NoLeak, phase # "build_failed"
             PROVE  Cardinality(live) <= Limit + Cardinality(At({"close_free"}))
  OBVIOUS
<1>0. /\ Len(idle) \in Nat /\ active \in Nat /\ thrown \in Nat /\ Limit \in Nat
  BY LimitNat DEF Base, TypeOK
<1>1. IsFiniteSet(IdleSet) /\ Cardinality(IdleSet) <= Len(idle)
  <2>1. IsFiniteSet(1 .. Len(idle)) /\ Cardinality(1 .. Len(idle)) = Len(idle)
    <3>1. ASSUME NEW n \in Nat
          PROVE  IsFiniteSet(1 .. n) /\ Cardinality(1 .. n) = n
      BY FS_Interval
    <3> QED
      BY <1>0, <3>1
  <2>2. IdleSet = {idle[i] : i \in 1 .. Len(idle)}
    BY DEF IdleSet
  <2>3. /\ IsFiniteSet({idle[i] : i \in 1 .. Len(idle)})
        /\ Cardinality({idle[i] : i \in 1 .. Len(idle)})
             <= Cardinality(1 .. Len(idle))
    BY <2>1, ImageBound
  <2> QED
    BY <2>1, <2>2, <2>3
<1>2. IsFiniteSet(HeldSet) /\ Cardinality(HeldSet) <= Cardinality(At(Holding))
  BY AtFinite, ImageBound DEF HeldSet
<1>3. Cardinality(At(Holding)) <=
        Cardinality(At(Counted)) + Cardinality(At({"close_free"}))
  <2>1. At(Holding) \subseteq At(Counted) \union At({"close_free"})
    BY DEF At, Holding, Counted
  <2>2. /\ IsFiniteSet(At(Counted) \union At({"close_free"}))
        /\ Cardinality(At(Counted) \union At({"close_free"})) <=
             Cardinality(At(Counted)) + Cardinality(At({"close_free"}))
    BY AtFinite, UnionBound
  <2>3. Cardinality(At(Holding)) <=
          Cardinality(At(Counted) \union At({"close_free"}))
    BY <2>1, <2>2, FS_Subset
  <2>4. Cardinality(At(Counted) \union At({"close_free"})) \in Nat
    BY <2>2, FS_CardinalityType
  <2> QED
    BY <2>2, <2>3, <2>4, AtFinite
<1>4. Cardinality(live) <= Cardinality(IdleSet) + Cardinality(HeldSet)
  <2>1. live \subseteq IdleSet \union HeldSet
    BY DEF NoLeak
  <2>2. /\ IsFiniteSet(IdleSet \union HeldSet)
        /\ Cardinality(IdleSet \union HeldSet) <=
             Cardinality(IdleSet) + Cardinality(HeldSet)
    BY <1>1, <1>2, UnionBound
  <2>3. Cardinality(live) <= Cardinality(IdleSet \union HeldSet)
    BY <2>1, <2>2, FS_Subset
  <2>4. /\ Cardinality(live) \in Nat
        /\ Cardinality(IdleSet \union HeldSet) \in Nat
        /\ Cardinality(IdleSet) \in Nat /\ Cardinality(HeldSet) \in Nat
    BY <1>1, <1>2, <2>1, <2>2, FS_Subset, FS_CardinalityType
  <2> QED
    BY <2>2, <2>3, <2>4
<1>5. Cardinality(At(Counted)) + Len(idle) <= Limit
  BY <1>0, AtFinite DEF Base, ActiveCount, Bound
<1>6. /\ Cardinality(live) \in Nat /\ Cardinality(IdleSet) \in Nat
      /\ Cardinality(HeldSet) \in Nat
  <2>1. live \subseteq IdleSet \union HeldSet
    BY DEF NoLeak
  <2>2. IsFiniteSet(live)
    BY <1>1, <1>2, <2>1, UnionBound, FS_Subset
  <2> QED
    BY <1>1, <1>2, <2>2, FS_CardinalityType
<1> QED
  BY <1>0, <1>1, <1>2, <1>3, <1>4, <1>5, <1>6, AtFinite

(***************************************************************************)
(* The pool never holds more than the larger of start_states and           *)
(* max_states, apart from universes whose lua_close is still running.      *)
(***************************************************************************)
THEOREM PoolBoundAlways == Spec => []PoolBound
<1>1. Base /\ Bound /\ NoLeak => PoolBound
  BY LiveBound DEF PoolBound, Bound
<1> QED
  BY <1>1, BaseAlways, BoundAlways, NoLeakAlways, PTL
-----------------------------------------------------------------------------
(***************************************************************************)
(* The refinement of Lease.                                                *)
(***************************************************************************)
LEMMA SameCardinality == ASSUME NEW S PROVE L!Cardinality(S) = Cardinality(S)
  BY DEF L!Cardinality, Cardinality

Loan == {"using", "close_lock", "close_body"}

LEMMA Loans ==
  ASSUME Base
  PROVE  /\ L!Holders = At(Loan)
         /\ L!Lent = {held[t] : t \in At(Loan)}
         /\ Cardinality(At(Loan)) <= Cardinality(At(Counted))
         /\ At(Loan) \subseteq At(Counted) /\ At(Loan) \subseteq At(Holding)
<1>1. At(Loan) \subseteq At(Counted) /\ At(Loan) \subseteq At(Holding)
  BY DEF At, Loan, Counted, Holding
<1>2. L!Holders = At(Loan)
  BY DEF L!Holders, LeaseOf, At, Loan, Base, Control, Holding
<1>3. L!Lent = {held[t] : t \in At(Loan)}
  BY <1>2 DEF L!Lent, LeaseOf, At, Loan
<1> QED
  BY <1>1, <1>2, <1>3, AtFinite, FS_Subset

LEMMA GrantIdle ==
  ASSUME Base, Bound, Exclusive, NEW t \in Threads, OpenIdle(t)
  PROVE  L!Grant(t)
<1>0. /\ idle \in Seq(States) /\ idle # <<>>
      /\ active \in Nat /\ thrown \in Nat
      /\ pc \in [Threads -> Labels]
      /\ held \in [Threads -> States \union {NoState}]
      /\ pc[t] = "open_test" /\ pc' = [pc EXCEPT ![t] = "using"]
      /\ held' = [held EXCEPT ![t] = Head(idle)]
  BY DEF OpenIdle, Goto, Base, TypeOK
<1>1. Cardinality(At(Loan)) < Limit
  BY <1>0, Loans, AtFinite, PopFront, LimitNat DEF Base, ActiveCount, Bound
<1>2. Head(idle) \in States \ L!Lent
  <2>1. Head(idle) \in IdleSet
    BY <1>0, PopFront DEF IdleSet
  <2>2. \A u \in At(Loan) : held[u] # Head(idle)
    BY <2>1, Loans DEF Exclusive
  <2>3. Head(idle) \in States
    BY <1>0, HeadTailProperties
  <2> QED
    BY <2>2, <2>3, Loans
<1>3. LeaseOf(t) = NoState
  BY <1>0 DEF LeaseOf
<1>4. [u \in Threads |-> LeaseOf(u)]' =
        [[u \in Threads |-> LeaseOf(u)] EXCEPT ![t] = Head(idle)]
  BY <1>0 DEF LeaseOf
<1> QED
  BY <1>1, <1>2, <1>3, <1>4, Loans, SameCardinality DEF L!Grant

LEMMA GrantNew ==
  ASSUME Base, Bound, Exclusive, NEW t \in Threads, Construct(t)
  PROVE  L!Grant(t)
<1>0. PICK s \in States \ live : held' = [held EXCEPT ![t] = s]
  BY DEF Construct
<1>1. /\ idle \in Seq(States) /\ active \in Nat /\ thrown \in Nat
      /\ pc \in [Threads -> Labels]
      /\ held \in [Threads -> States \union {NoState}]
      /\ pc[t] = "constructing" /\ pc' = [pc EXCEPT ![t] = "using"]
  BY DEF Construct, Goto, Base, TypeOK
<1>2. Cardinality(At(Loan)) < Limit
  <2>1. t \in At(Counted) /\ t \notin At(Loan)
    BY <1>1 DEF At, Counted, Loan
  <2>2. Cardinality(At(Loan)) # Cardinality(At(Counted))
    BY <2>1, Loans, AtFinite, FS_Subset
  <2> QED
    BY <1>1, <2>2, Loans, AtFinite, LimitNat DEF Base, ActiveCount, Bound
<1>3. s \in States \ L!Lent
  BY <1>0, Loans DEF Exclusive, HeldSet
<1>4. LeaseOf(t) = NoState
  BY <1>1 DEF LeaseOf
<1>5. [u \in Threads |-> LeaseOf(u)]' =
        [[u \in Threads |-> LeaseOf(u)] EXCEPT ![t] = s]
  BY <1>0, <1>1 DEF LeaseOf
<1> QED
  BY <1>2, <1>3, <1>4, <1>5, Loans, SameCardinality DEF L!Grant

LEMMA ReturnStep ==
  ASSUME Base, NEW t \in Threads, CloseKeep(t) \/ CloseDrop(t)
  PROVE  L!Return(t)
<1>1. /\ pc \in [Threads -> Labels]
      /\ held \in [Threads -> States \union {NoState}]
      /\ pc[t] = "close_body" /\ held[t] # NoState
      /\ \/ pc' = [pc EXCEPT ![t] = "idle"]
         \/ pc' = [pc EXCEPT ![t] = "close_free"]
      /\ \/ held' = held
         \/ held' = [held EXCEPT ![t] = NoState]
  BY DEF CloseKeep, CloseDrop, Goto, Base, TypeOK, Control, Holding
<1>2. LeaseOf(t) # NoState
  BY <1>1 DEF LeaseOf
<1>3. [u \in Threads |-> LeaseOf(u)]' =
        [[u \in Threads |-> LeaseOf(u)] EXCEPT ![t] = NoState]
  BY <1>1 DEF LeaseOf
<1> QED
  BY <1>2, <1>3 DEF L!Return

LEMMA Unlent ==
  ASSUME Base, Next, \A t \in Threads : ~OpenIdle(t) /\ ~Construct(t)
                                        /\ ~CloseKeep(t) /\ ~CloseDrop(t)
  PROVE  [u \in Threads |-> LeaseOf(u)]' = [u \in Threads |-> LeaseOf(u)]
<1> USE PoolAssumption DEF LeaseOf, Goto, Base, TypeOK
<1>1. CASE Owner
  BY <1>1 DEF Owner, BuildState, BuildFail, BuildDone, Mount, Unmount, Collect,
     DestroyIdle, DestroyDone
<1>2. ASSUME NEW t \in Threads,
             \/ Request(t) \/ SpuriousWakeup(t)
             \/ OpenLock(t) \/ OpenWait(t) \/ OpenNew(t) \/ ConstructFail(t)
             \/ Finish(t) \/ CloseLock(t) \/ CloseFree(t)
      PROVE  [u \in Threads |-> LeaseOf(u)]' = [u \in Threads |-> LeaseOf(u)]
  BY <1>2 DEF Request, SpuriousWakeup, OpenLock, OpenWait, OpenNew,
     ConstructFail, Finish, CloseLock, CloseFree
<1>3. CASE Done
  BY <1>3 DEF Done, vars
<1> QED
  BY <1>1, <1>2, <1>3 DEF Next, Step

LEMMA NextLease ==
  Base /\ Bound /\ Exclusive /\ [Next]_vars =>
    [L!Next]_([t \in Threads |-> LeaseOf(t)])
<1>1. ASSUME UNCHANGED vars
      PROVE  UNCHANGED [t \in Threads |-> LeaseOf(t)]
  BY <1>1 DEF LeaseOf, vars
<1> QED
  BY <1>1, GrantIdle, GrantNew, ReturnStep, Unlent DEF L!Next

(***************************************************************************)
(* The pool implements the abstract lease: a loan is exclusive, lasts from *)
(* the end of open() to close(), and at most Limit loans are out.          *)
(***************************************************************************)
THEOREM PoolImplementsLease == Spec => ImplementsLease
<1>1. Init => L!Init
  BY DEF Init, L!Init, LeaseOf
<1> QED
  BY <1>1, BaseAlways, BoundAlways, ExclusiveAlways, NextLease, PTL
     DEF Spec, ImplementsLease, L!Spec
=============================================================================
