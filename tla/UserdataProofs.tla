--------------------------- MODULE UserdataProofs ---------------------------
(***************************************************************************)
(* Proofs about Userdata, for any script, any number of objects and a      *)
(* collector that runs at any time: first the fill handle that readdir     *)
(* writes to, then the entries of the registry that callbacks own.         *)
(***************************************************************************)
EXTENDS Userdata, FiniteSetTheorems, SequenceTheorems, TLAPS

(***************************************************************************)
(* A fill handle that a scoped_handle points to is a parameter of the      *)
(* script's function, which keeps it from the collector, unless the script *)
(* or an error has ended that parameter early.                             *)
(***************************************************************************)
IInv ==
  /\ status \in [Objects -> {"none", "live", "doomed", "done", "freed"}]
  /\ param \subseteq Fills /\ scoped \subseteq Fills
  /\ \A f \in scoped : f \in param \/ f \in loose
  /\ \A f \in param : status[f] = "live"
  /\ ResetLive
-----------------------------------------------------------------------------
\* No step but Collect and the __gc of doomed objects ends a live object.
LEMMA StillLive ==
  ASSUME IInv, NEW f \in Fills, status[f] = "live", Make \/ Finalize
  PROVE  status'[f] = "live"
<1>1. f \in Objects
  BY DEF Objects
<1>2. CASE Make
  <2>1. CASE \E h \in Handles, t \in Scripts : MakeHandle(h, t)
    BY <1>1, <2>1 DEF MakeHandle, IInv
  <2>2. CASE \E co \in Coroutines : Spawn(co)
    BY <1>1, <2>2 DEF Spawn, IInv
  <2>3. ASSUME NEW c \in Callbacks, NEW h \in Handles, NEW t \in Scripts, NEW up,
               MakeCallback(c, h, t, up)
        PROVE  status'[f] = "live"
    BY <1>1, <2>3 DEF MakeCallback
  <2>4. ASSUME NEW c \in Callbacks, NEW h \in Handles, NEW t \in Scripts, NEW n,
               MakeCallbackFails(c, h, t, n)
        PROVE  status'[f] = "live"
    BY <1>1, <2>4 DEF MakeCallbackFails, Parameters, New
  <2>5. QED
    BY <1>2, <2>1, <2>2, <2>3, <2>4 DEF Make
<1>3. CASE Finalize
  BY <1>1, <1>3 DEF Finalize, FinalizeHandle, FinalizeCallback, IInv
<1>4. QED
  BY <1>2, <1>3

\* What the collector finds on a stack it keeps.
LEMMA ParameterKept ==
  ASSUME IInv, NEW f \in param, Collect
  PROVE  status'[f] = status[f]
<1>1. f \in Reachable
  BY DEF Reachable, OnStacks
<1>2. f \in Objects
  BY DEF IInv, Objects
<1>3. QED
  BY <1>1, <1>2 DEF Collect, Swept

LEMMA Statuses ==
  ASSUME IInv, Next
  PROVE  status' \in [Objects -> {"none", "live", "doomed", "done", "freed"}]
<1> USE DEF IInv
<1>1. CASE Make
  BY <1>1 DEF Make, MakeHandle, Spawn, MakeCallback, MakeCallbackFails
<1>2. CASE Collect
  BY <1>2 DEF Collect, Swept
<1>3. CASE Finalize
  BY <1>3 DEF Finalize, FinalizeHandle, FinalizeCallback
<1>4. CASE \E f \in Fills : Serve(f)
  BY <1>4 DEF Serve, Readdir, LetGo, KeepFill, ReaddirRaises, ResetScope, heap
<1>5. CASE \/ \E o \in Objects, t \in Scripts : Drop(o, t)
           \/ KeepKey
           \/ \E c \in Callbacks, use_current \in BOOLEAN : Run(c, use_current)
           \/ RunEnds
  BY <1>5 DEF Drop, KeepKey, Run, RunEnds, heap
<1>6. QED
  BY <1>1, <1>2, <1>3, <1>4, <1>5 DEF Next

LEMMA StepIInv == IInv /\ [Next]_vars => IInv'
<1> SUFFICES ASSUME IInv, [Next]_vars PROVE IInv'
  OBVIOUS
<1>1. CASE Make \/ Finalize
  <2>1. UNCHANGED fills
    BY <1>1 DEF Make, MakeHandle, Spawn, MakeCallback, MakeCallbackFails,
                Finalize, FinalizeHandle, FinalizeCallback
  <2>2. \A f \in param : status'[f] = "live"
    BY <1>1, StillLive DEF IInv
  <2>3. QED
    BY <1>1, <2>1, <2>2, Statuses DEF IInv, fills, ResetLive, Next
<1>2. CASE Collect
  <2>1. UNCHANGED fills
    BY <1>2 DEF Collect
  <2>2. QED
    BY <1>2, <2>1, ParameterKept, Statuses DEF IInv, fills, ResetLive, Next
<1>3. ASSUME NEW f \in Fills, Serve(f)
      PROVE  IInv'
  <2>1. status' \in [Objects -> {"none", "live", "doomed", "done", "freed"}]
    BY <1>3, Statuses DEF Next
  <2>2. f \in Objects
    BY DEF Objects
  <2>3. CASE Readdir(f)
    BY <2>1, <2>2, <2>3 DEF Readdir, IInv, ResetLive
  <2>4. CASE LetGo(f) \/ ReaddirRaises(f) \/ KeepFill(f)
    BY <2>1, <2>4 DEF LetGo, ReaddirRaises, KeepFill, IInv, ResetLive, heap, fills
  <2>5. CASE ResetScope(f)
    BY <2>1, <2>5 DEF ResetScope, IInv, ResetLive, heap
  <2>6. QED
    BY <1>3, <2>3, <2>4, <2>5 DEF Serve
<1>4. CASE \/ \E o \in Objects, t \in Scripts : Drop(o, t)
           \/ KeepKey
           \/ \E c \in Callbacks, use_current \in BOOLEAN : Run(c, use_current)
           \/ RunEnds
           \/ UNCHANGED vars
  <2>1. status' = status /\ UNCHANGED fills
    BY <1>4 DEF Drop, KeepKey, Run, RunEnds, heap, vars
  <2>2. QED
    BY <2>1 DEF fills, IInv, ResetLive
<1>5. QED
  BY <1>1, <1>2, <1>3, <1>4 DEF Next

(***************************************************************************)
(* However the script keeps, calls or drops its fill handle, ~scoped_handle*)
(* never writes to freed memory unless the handle lost its parameter       *)
(* before the scope ended.                                                 *)
(***************************************************************************)
THEOREM ResetLiveAlways == Spec => []ResetLive
<1>1. Init => IInv
  BY DEF Init, IInv, ResetLive
<1>2. IInv => ResetLive
  BY DEF IInv
<1>3. QED
  BY <1>1, <1>2, StepIInv, PTL DEF Spec
-----------------------------------------------------------------------------
(***************************************************************************)
(* The registry and what it keeps.                                         *)
(***************************************************************************)
AllStatuses == {"none", "live", "doomed", "done", "freed"}

HasEntries(c) ==
  /\ status[c] \in {"live", "doomed"}
  /\ DOMAIN refs[c] = 1 .. 3
  /\ \A n \in 1 .. 3 : refs[c][n] \in Slots \ leaked
  /\ registry[refs[c][1]] = Thread(c)
  /\ registry[refs[c][2]] = Function(c)
  /\ registry[refs[c][3]] \in Handles
  /\ state[c] = Thread(c)

Typed ==
  /\ status \in [Objects -> AllStatuses]
  /\ variables \in [Scripts -> SUBSET (Handles \union Callbacks \union Coroutines \union Fills)]
  /\ \A co \in Coroutines : variables[co] \subseteq Handles
  /\ upvalues \in [Callbacks -> SUBSET Callbacks]
  /\ registry \in [Slots -> Handles \union Parts \union {Nil}]
  /\ DOMAIN refs = Callbacks /\ DOMAIN state = Callbacks
  /\ leaked \subseteq Slots
  /\ param \subseteq Fills

\* A callback has its three entries from its construction to its destructor.
Owned ==
  \A c \in Callbacks :
    IF refs[c] = <<>> THEN status[c] \notin {"live", "doomed"} ELSE HasEntries(c)

\* No entry belongs to two callbacks, and none in use to nobody.
Separate ==
  \A c, d \in Callbacks : refs[c] # <<>> /\ refs[d] # <<>> =>
    \A m, n \in 1 .. 3 : refs[c][m] = refs[d][n] => c = d

Accounted ==
  /\ \A i \in leaked : registry[i] # Nil
  /\ \A i \in Slots :
       \/ registry[i] = Nil \/ i \in leaked
       \/ \E c \in Callbacks : refs[c] # <<>> /\ \E n \in 1 .. 3 : refs[c][n] = i

\* What the script, a function or the registry refers to is alive.
Alive ==
  /\ \A i \in Slots : registry[i] # Nil => status[registry[i]] = "live"
  /\ \A o \in variables[Main] : status[o] = "live"
  /\ \A co \in Coroutines : status[co] = "live" =>
       \A o \in variables[co] : status[o] = "live"
  /\ \A co \in Coroutines : status[co] = "none" => variables[co] = {}
  /\ \A c \in Callbacks : status[c] = "live" =>
       \A d \in upvalues[c] : status[d] = "live"
  /\ \A f \in param : status[f] = "live"

\* So is what runs, in the main thread or in that of a callback around it.
Frame == [callback : Callbacks, key : Handles,
          thread : {Main} \union {Thread(c) : c \in Callbacks}]

Running ==
  /\ running \in Seq(Frame)
  /\ \A n \in 1 .. Len(running) :
       /\ status[running[n].callback] = "live"
       /\ status[running[n].key] = "live"
       /\ \/ running[n].thread = Main
          \/ \E e \in 1 .. n : running[n].thread = Thread(running[e].callback)

Custody == Typed /\ Owned /\ Separate /\ Accounted /\ Alive /\ Running
-----------------------------------------------------------------------------
LEMMA Distinct ==
  /\ Handles \intersect Callbacks = {} /\ Handles \intersect Coroutines = {}
  /\ Handles \intersect Fills = {} /\ Handles \intersect Parts = {}
  /\ Callbacks \intersect Coroutines = {} /\ Callbacks \intersect Fills = {}
  /\ Callbacks \intersect Parts = {} /\ Coroutines \intersect Fills = {}
  /\ Coroutines \intersect Parts = {} /\ Fills \intersect Parts = {}
  /\ Nil \notin Handles /\ Nil \notin Parts /\ Main \notin Coroutines
  /\ Nil \notin Objects
<1> DEFINE kinds == <<Handles, Callbacks, Coroutines, Fills, Parts, {Nil, Main}>>
<1>1. \A i, j \in 1 .. 6 : i < j => kinds[i] \intersect kinds[j] = {}
  BY KindsAssumption
<1>2. /\ kinds[1] = Handles /\ kinds[2] = Callbacks /\ kinds[3] = Coroutines
      /\ kinds[4] = Fills /\ kinds[5] = Parts /\ kinds[6] = {Nil, Main}
  OBVIOUS
<1> HIDE DEF kinds
<1>3. /\ kinds[1] \intersect kinds[2] = {} /\ kinds[1] \intersect kinds[3] = {}
      /\ kinds[1] \intersect kinds[4] = {} /\ kinds[1] \intersect kinds[5] = {}
      /\ kinds[1] \intersect kinds[6] = {} /\ kinds[2] \intersect kinds[3] = {}
      /\ kinds[2] \intersect kinds[4] = {} /\ kinds[2] \intersect kinds[5] = {}
      /\ kinds[2] \intersect kinds[6] = {}
  BY <1>1, SMT
<1>4. /\ kinds[3] \intersect kinds[4] = {} /\ kinds[3] \intersect kinds[5] = {}
      /\ kinds[3] \intersect kinds[6] = {} /\ kinds[4] \intersect kinds[5] = {}
      /\ kinds[4] \intersect kinds[6] = {} /\ kinds[5] \intersect kinds[6] = {}
  BY <1>1, SMT
<1>5. QED
  BY <1>2, <1>3, <1>4, Zenon DEF Objects

LEMMA PartNames ==
  \A c, d \in Callbacks :
    /\ Thread(c) # Function(d)
    /\ Thread(c) = Thread(d) => c = d
    /\ Function(c) = Function(d) => c = d
    /\ Thread(c) \in Parts /\ Function(c) \in Parts
    /\ Thread(c) # Nil /\ Function(c) # Nil
BY DEF Thread, Function, Parts, Nil

LEMMA ObjectKinds ==
  /\ Handles \subseteq Objects /\ Callbacks \subseteq Objects
  /\ Coroutines \subseteq Objects /\ Fills \subseteq Objects /\ Parts \subseteq Objects
  /\ Main \in Scripts /\ Coroutines \subseteq Scripts
BY DEF Objects, Scripts

\* What three free entries are enough for.
LEMMA TakenSlots ==
  ASSUME Cardinality(FreeSlots) >= 3, NEW n \in 0 .. 3
  PROVE  /\ Taken(n) \in [1 .. n -> FreeSlots]
         /\ \A a, b \in 1 .. n : Taken(n)[a] = Taken(n)[b] => a = b
<1>1. IsFiniteSet(FreeSlots)
  <2>1. IsFiniteSet(Slots)
    BY FS_Interval, UserdataAssumption DEF Slots
  <2>2. QED BY <2>1, FS_Subset DEF FreeSlots
<1>2. PICK x \in FreeSlots : TRUE
  BY <1>1, FS_EmptySet
<1>3. PICK y \in FreeSlots \ {x} : TRUE
  <2>1. IsFiniteSet(FreeSlots \ {x}) /\ Cardinality(FreeSlots \ {x}) = Cardinality(FreeSlots) - 1
    BY <1>1, <1>2, FS_RemoveElement
  <2>2. Cardinality(FreeSlots) \in Nat  BY <1>1, FS_CardinalityType
  <2>3. FreeSlots \ {x} # {}  BY <2>1, <2>2, FS_EmptySet
  <2>4. QED BY <2>3
<1>4. PICK z \in (FreeSlots \ {x}) \ {y} : TRUE
  <2>1. IsFiniteSet(FreeSlots \ {x}) /\ Cardinality(FreeSlots \ {x}) = Cardinality(FreeSlots) - 1
    BY <1>1, <1>2, FS_RemoveElement
  <2>2. Cardinality((FreeSlots \ {x}) \ {y}) = Cardinality(FreeSlots \ {x}) - 1
    BY <1>3, <2>1, FS_RemoveElement
  <2>3. Cardinality(FreeSlots) \in Nat  BY <1>1, FS_CardinalityType
  <2>4. Cardinality((FreeSlots \ {x}) \ {y}) >= 1
    <3> HIDE DEF FreeSlots
    <3>1. QED BY <2>1, <2>2, <2>3, SMT
  <2>5. Cardinality({}) = 0  BY FS_EmptySet
  <2>6. (FreeSlots \ {x}) \ {y} # {}
    <3>1. SUFFICES ASSUME (FreeSlots \ {x}) \ {y} = {} PROVE FALSE  OBVIOUS
    <3>2. Cardinality((FreeSlots \ {x}) \ {y}) = 0  BY <2>5, <3>1, Zenon
    <3>3. QED BY <2>4, <3>2, SMT
  <2>7. QED BY <2>6
<1> DEFINE s == [k \in 1 .. n |-> IF k = 1 THEN x ELSE IF k = 2 THEN y ELSE z]
<1>5. s \in [1 .. n -> FreeSlots]
  BY <1>2, <1>3, <1>4
<1>6. \A a, b \in 1 .. n : s[a] = s[b] => a = b
  BY <1>2, <1>3, <1>4
<1>7. IsInjective(s)
  BY <1>5, <1>6 DEF IsInjective
<1>8. Taken(n) \in [1 .. n -> FreeSlots] /\ IsInjective(Taken(n))
  <2> HIDE DEF s
  <2>1. QED BY <1>5, <1>7, Zenon DEF Taken
<1>9. QED
  BY <1>8 DEF IsInjective

\* What luaL_ref leaves in the registry.
LEMMA RegistersEntries ==
  ASSUME Cardinality(FreeSlots) >= 3, NEW values, NEW n \in 0 .. 3, Len(values) = n
  PROVE  /\ DOMAIN Registering(values) = Slots
         /\ \A k \in 1 .. n : /\ Taken(n)[k] \in FreeSlots
                              /\ Registering(values)[Taken(n)[k]] = values[k]
         /\ \A i \in Slots : (\A k \in 1 .. n : Taken(n)[k] # i)
                              => Registering(values)[i] = registry[i]
<1> DEFINE slots == Taken(n)
<1>1. /\ slots \in [1 .. n -> FreeSlots]
      /\ \A a, b \in 1 .. n : slots[a] = slots[b] => a = b
  BY TakenSlots
<1>2. FreeSlots \subseteq Slots  BY DEF FreeSlots
<1> HIDE DEF slots
<1>3. Registering(values) =
        [i \in Slots |-> IF \E k \in 1 .. n : slots[k] = i
                         THEN values[CHOOSE k \in 1 .. n : slots[k] = i]
                         ELSE registry[i]]
  BY DEF Registering, slots
<1>4. ASSUME NEW k \in 1 .. n
      PROVE  Registering(values)[slots[k]] = values[k]
  <2>1. (CHOOSE m \in 1 .. n : slots[m] = slots[k]) = k
    BY <1>1
  <2>2. slots[k] \in Slots  BY <1>1, <1>2
  <2>3. QED BY <1>3, <2>1, <2>2
<1>5. QED
  BY <1>1, <1>3, <1>4 DEF slots
-----------------------------------------------------------------------------
LEMMA CustodyInit == Init => Custody
<1> SUFFICES ASSUME Init PROVE Custody
  OBVIOUS
<1>1. Typed
  BY ObjectKinds DEF Init, Typed, AllStatuses
<1>2. Owned
  BY ObjectKinds DEF Init, Owned
<1>3. Separate /\ Accounted
  BY DEF Init, Separate, Accounted
<1>4. Alive
  <2>1. \A i \in Slots : registry[i] = Nil  BY DEF Init
  <2>2. \A t \in Scripts : variables[t] = {}  BY DEF Init
  <2>3. \A c \in Callbacks : upvalues[c] = {}  BY DEF Init
  <2>4. param = {}  BY DEF Init
  <2>5. QED BY <2>1, <2>2, <2>3, <2>4, ObjectKinds DEF Alive
<1>5. Running
  BY DEF Init, Running
<1>6. QED BY <1>1, <1>2, <1>3, <1>4, <1>5 DEF Custody

\* What the collector finds from a callback or a stack is a root.
LEMMA RunningFrames ==
  ASSUME Custody, NEW n \in 1 .. Len(running)
  PROVE  /\ n \in DOMAIN running /\ running[n] \in Frame
         /\ running[n].callback \in Callbacks /\ running[n].key \in Handles
         /\ running[n].callback \in OnStacks /\ running[n].key \in OnStacks
<1>1. running \in Seq(Frame)  BY DEF Custody, Running
<1>2. n \in DOMAIN running /\ running[n] \in Frame  BY <1>1
<1>3. running[n].callback \in Callbacks /\ running[n].key \in Handles
  BY <1>2 DEF Frame
<1>4. running[n].callback \in OnStacks /\ running[n].key \in OnStacks
  <2> DEFINE around(d) == {running[d].callback, running[d].key, Function(running[d].callback)}
  <2>1. running[n].callback \in around(n) /\ running[n].key \in around(n)
    OBVIOUS
  <2>2. around(n) \subseteq UNION {around(d) : d \in DOMAIN running}
    <3> HIDE DEF around
    <3>1. QED BY <1>2
  <2>3. OnStacks = param \union UNION {around(d) : d \in DOMAIN running}
    BY DEF OnStacks
  <2>4. QED
    <3> HIDE DEF around
    <3>1. QED BY <2>1, <2>2, <2>3
<1>5. QED BY <1>2, <1>3, <1>4

\* A callback the script can get hold of is alive.
LEMMA UsableAlive ==
  ASSUME Custody, NEW c \in Callbacks, c \in Usable
  PROVE  status[c] = "live"
<1> DEFINE held == variables[Main] \union OnStacks
           inside == held \union UNION {variables[co] : co \in held \intersect Coroutines}
           callbacks == LedTo(inside \intersect Callbacks)
           live == {d \in Callbacks : status[d] = "live"}
<1>1. \A d \in OnStacks \intersect Callbacks : status[d] = "live"
  <2> SUFFICES ASSUME NEW d \in OnStacks, d \in Callbacks PROVE status[d] = "live"
    OBVIOUS
  <2>1. CASE d \in param
    BY <2>1 DEF Custody, Alive
  <2>2. ASSUME NEW n \in DOMAIN running,
               d \in {running[n].callback, running[n].key, Function(running[n].callback)}
        PROVE  status[d] = "live"
    <3>1. n \in 1 .. Len(running)  BY DEF Custody, Running
    <3>2. status[running[n].callback] = "live" /\ status[running[n].key] = "live"
      BY <3>1 DEF Custody, Running
    <3>3. running[n].callback \in Callbacks  BY <3>1, RunningFrames
    <3>4. Function(running[n].callback) \in Parts  BY <3>3, PartNames
    <3>5. d \notin Parts  BY Distinct
    <3>6. QED BY <2>2, <3>2, <3>4, <3>5
  <2>3. QED BY <2>1, <2>2, Zenon DEF OnStacks
<1>2. \A co \in Coroutines : variables[co] \intersect Callbacks = {}
  BY Distinct DEF Custody, Typed
<1>3. inside \intersect Callbacks \subseteq live
  <2>1. \A d \in variables[Main] \intersect Callbacks : status[d] = "live"
    BY DEF Custody, Alive
  <2>2. QED BY <1>1, <1>2, <2>1, Zenon
<1>4. Closed(live)
  BY DEF Closed, Custody, Alive, Typed
<1>5. callbacks \subseteq live
  <2> HIDE DEF inside, live
  <2>1. live \in SUBSET Callbacks  BY DEF live
  <2>2. \A d \in callbacks : d \in live
    BY <1>3, <1>4, <2>1, Zenon DEF LedTo
  <2>3. QED BY <2>2
<1>6. \A d \in callbacks : refs[d] # <<>> => registry[refs[d][3]] \in Handles
  <2>1. callbacks \subseteq Callbacks  BY DEF LedTo
  <2>2. QED BY <2>1 DEF Custody, Owned, HasEntries
<1>7. c \in inside \/ c \in callbacks \/
        c \in {registry[refs[d][3]] : d \in {e \in callbacks : refs[e] # <<>>}}
  <2> HIDE DEF callbacks
  <2>1. QED BY Zenon DEF Usable, callbacks
<1>8. c \notin {registry[refs[d][3]] : d \in {e \in callbacks : refs[e] # <<>>}}
  <2> HIDE DEF callbacks
  <2>1. QED BY <1>6, Distinct
<1>9. QED BY <1>3, <1>5, <1>7, <1>8

\* Running needs what runs to stay alive.
LEMMA RunningStays ==
  ASSUME Running, running' = running,
         \A n \in 1 .. Len(running) :
           status'[running[n].callback] = "live" /\ status'[running[n].key] = "live"
  PROVE  Running'
BY DEF Running, Frame
-----------------------------------------------------------------------------
(***************************************************************************)
(* The steps.                                                              *)
(***************************************************************************)

\* Steps that only move what the script holds.
LEMMA VariablesStep ==
  ASSUME Custody, status' = status, upvalues' = upvalues, UNCHANGED bound,
         running' = running, param' \subseteq param,
         \/ variables' = variables
         \/ \E o \in Objects, t \in Scripts :
              variables' = [variables EXCEPT ![t] = @ \ {o}]
         \/ \E o \in Handles \union Fills : status[o] = "live" /\
              variables' = [variables EXCEPT ![Main] = @ \union {o}]
  PROVE  Custody'
<1> USE DEF bound
<1>1. /\ variables' \in [Scripts -> SUBSET (Handles \union Callbacks \union Coroutines \union Fills)]
      /\ \A co \in Coroutines : variables'[co] \subseteq variables[co]
      /\ \A o \in variables'[Main] : status[o] = "live"
  <2>1. variables \in [Scripts -> SUBSET (Handles \union Callbacks \union Coroutines \union Fills)]
        /\ \A o \in variables[Main] : status[o] = "live"
    BY DEF Custody, Typed, Alive
  <2>2. CASE variables' = variables  BY <2>1, <2>2
  <2>3. CASE \E o \in Objects, t \in Scripts :
               variables' = [variables EXCEPT ![t] = @ \ {o}]
    BY <2>1, <2>3, ObjectKinds
  <2>4. CASE \E o \in Handles \union Fills : status[o] = "live" /\
               variables' = [variables EXCEPT ![Main] = @ \union {o}]
    BY <2>1, <2>4, ObjectKinds, Distinct
  <2>5. QED BY <2>2, <2>3, <2>4
<1>2. Typed'  BY <1>1 DEF Custody, Typed
<1>3. Owned'  BY DEF Custody, Owned, HasEntries
<1>4. Separate' /\ Accounted'  BY DEF Custody, Separate, Accounted
<1>5. Alive'  BY <1>1 DEF Custody, Alive
<1>6. Running'  BY RunningStays DEF Custody, Running
<1>7. QED BY <1>2, <1>3, <1>4, <1>5, <1>6 DEF Custody

LEMMA ReaddirStep ==
  ASSUME Custody, NEW f \in Fills, Readdir(f)
  PROVE  Custody'
<1>1. /\ status' = [status EXCEPT ![f] = "live"] /\ param' = param \union {f}
      /\ UNCHANGED <<variables, upvalues, running>> /\ UNCHANGED bound
  BY DEF Readdir
<1>2. f \in Objects /\ status \in [Objects -> AllStatuses]
  BY ObjectKinds DEF Custody, Typed
<1>3. \A o \in Objects : status[o] = "live" => status'[o] = "live"
  BY <1>1, <1>2
<1>4. \A o \in Objects \ {f} : status'[o] = status[o]
  BY <1>1, <1>2
<1>5. f \notin Callbacks /\ f \notin Coroutines  BY Distinct
<1>6. Typed'  BY <1>1 DEF Custody, Typed, bound, AllStatuses
<1>7. Owned'
  BY <1>1, <1>4, <1>5, ObjectKinds DEF Custody, Owned, HasEntries, bound
<1>8. Separate' /\ Accounted'  BY <1>1 DEF Custody, Separate, Accounted, bound
<1>9. Alive'
  <2>1. \A i \in Slots : registry'[i] # Nil => status'[registry'[i]] = "live"
    BY <1>1, <1>3, ObjectKinds DEF Custody, Alive, Typed, bound
  <2>2. \A t \in Scripts : variables[t] \subseteq Objects
    BY ObjectKinds DEF Custody, Typed
  <2>3. \A o \in variables'[Main] : status'[o] = "live"
    BY <1>1, <1>3, <2>2, ObjectKinds DEF Custody, Alive
  <2>4. \A co \in Coroutines : status'[co] = "live" =>
          \A o \in variables'[co] : status'[o] = "live"
    BY <1>1, <1>3, <1>4, <1>5, <2>2, ObjectKinds DEF Custody, Alive
  <2>5. \A c \in Callbacks : status'[c] = "live" =>
          \A d \in upvalues'[c] : status'[d] = "live"
    BY <1>1, <1>3, <1>4, <1>5, ObjectKinds DEF Custody, Alive, Typed
  <2>6. \A g \in param' : status'[g] = "live"
    BY <1>1, <1>2, <1>3, ObjectKinds DEF Custody, Alive, Typed
  <2>7. \A co \in Coroutines : status'[co] = "none" => variables'[co] = {}
    BY <1>1, <1>4, <1>5, ObjectKinds DEF Custody, Alive
  <2>8. QED BY <2>1, <2>3, <2>4, <2>5, <2>6, <2>7 DEF Alive
<1>10. Running'
  BY <1>1, <1>3, RunningFrames, RunningStays, ObjectKinds DEF Custody, Running
<1>11. QED BY <1>6, <1>7, <1>8, <1>9, <1>10 DEF Custody

LEMMA MakeHandleStep ==
  ASSUME Custody, NEW h \in Handles, NEW t \in Scripts, MakeHandle(h, t)
  PROVE  Custody'
<1>0. t = Main \/ status[t] = "live"
  BY DEF MakeHandle, CanRun
<1>1. /\ status' = [status EXCEPT ![h] = "live"]
      /\ variables' = [variables EXCEPT ![t] = @ \union {h}]
      /\ UNCHANGED <<upvalues, running>> /\ UNCHANGED bound /\ param' = param
  BY DEF MakeHandle, fills
<1>2. h \in Objects /\ status \in [Objects -> AllStatuses]
  BY ObjectKinds DEF Custody, Typed
<1>3. \A o \in Objects : status[o] = "live" => status'[o] = "live"
  BY <1>1, <1>2
<1>4. \A o \in Objects \ {h} : status'[o] = status[o]
  BY <1>1, <1>2
<1>5. h \notin Callbacks /\ h \notin Coroutines  BY Distinct
<1>6. /\ DOMAIN variables = Scripts
      /\ variables'[t] = variables[t] \union {h}
      /\ \A u \in Scripts \ {t} : variables'[u] = variables[u]
  BY <1>1 DEF Custody, Typed
<1>7. Typed'
  <2>1. \A co \in Coroutines : variables'[co] \subseteq Handles
    BY <1>6, ObjectKinds DEF Custody, Typed
  <2>2. variables' \in [Scripts -> SUBSET (Handles \union Callbacks \union Coroutines \union Fills)]
    BY <1>1 DEF Custody, Typed
  <2>3. QED BY <1>1, <2>1, <2>2 DEF Custody, Typed, bound, AllStatuses
<1>8. Owned'
  BY <1>1, <1>4, <1>5, ObjectKinds DEF Custody, Owned, HasEntries, bound
<1>9. Separate' /\ Accounted'  BY <1>1 DEF Custody, Separate, Accounted, bound
<1>10. Alive'
  <2>1. \A i \in Slots : registry'[i] # Nil => status'[registry'[i]] = "live"
    BY <1>1, <1>3, ObjectKinds DEF Custody, Alive, Typed, bound
  <2>2. \A u \in Scripts : variables[u] \subseteq Objects
    BY ObjectKinds DEF Custody, Typed
  <2>3. status'[h] = "live"  BY <1>1, <1>2
  <2>4. \A o \in variables'[Main] : status'[o] = "live"
    BY <1>3, <1>6, <2>2, <2>3, ObjectKinds DEF Custody, Alive
  <2>5. \A co \in Coroutines : status'[co] = "live" =>
          \A o \in variables'[co] : status'[o] = "live"
    BY <1>3, <1>4, <1>5, <1>6, <2>2, <2>3, ObjectKinds DEF Custody, Alive
  <2>6. \A c \in Callbacks : status'[c] = "live" =>
          \A d \in upvalues'[c] : status'[d] = "live"
    BY <1>1, <1>3, <1>4, <1>5, ObjectKinds DEF Custody, Alive, Typed
  <2>7. \A g \in param' : status'[g] = "live"
    BY <1>1, <1>3, ObjectKinds DEF Custody, Alive, Typed
  <2>8. \A c \in Coroutines : status'[c] = "none" => variables'[c] = {}
    BY <1>0, <1>4, <1>5, <1>6, ObjectKinds, Distinct DEF Custody, Alive
  <2>9. QED BY <2>1, <2>4, <2>5, <2>6, <2>7, <2>8 DEF Alive
<1>11. Running'
  BY <1>1, <1>3, RunningFrames, RunningStays, ObjectKinds DEF Custody, Running
<1>12. QED BY <1>7, <1>8, <1>9, <1>10, <1>11 DEF Custody

LEMMA SpawnStep ==
  ASSUME Custody, NEW co \in Coroutines, Spawn(co)
  PROVE  Custody'
<1>1. /\ status' = [status EXCEPT ![co] = "live"]
      /\ variables' = [variables EXCEPT ![Main] = @ \union {co}]
      /\ UNCHANGED <<upvalues, running>> /\ UNCHANGED bound /\ param' = param
      /\ status[co] = "none"
  BY DEF Spawn, New, fills
<1>2. co \in Objects /\ status \in [Objects -> AllStatuses]
  BY ObjectKinds DEF Custody, Typed
<1>3. \A o \in Objects : status[o] = "live" => status'[o] = "live"
  BY <1>1, <1>2
<1>4. \A o \in Objects \ {co} : status'[o] = status[o]
  BY <1>1, <1>2
<1>5. co \notin Callbacks /\ co # Main  BY Distinct
<1>6. /\ DOMAIN variables = Scripts
      /\ variables'[Main] = variables[Main] \union {co}
      /\ \A u \in Scripts \ {Main} : variables'[u] = variables[u]
  BY <1>1, ObjectKinds DEF Custody, Typed
<1>7. Typed'
  <2>1. \A c \in Coroutines : variables'[c] = variables[c]
    BY <1>6, Distinct, ObjectKinds
  <2>2. QED BY <1>1, <1>6, <2>1, ObjectKinds DEF Custody, Typed, bound, AllStatuses
<1>8. Owned'
  BY <1>1, <1>4, <1>5, ObjectKinds DEF Custody, Owned, HasEntries, bound
<1>9. Separate' /\ Accounted'  BY <1>1 DEF Custody, Separate, Accounted, bound
<1>10. Alive'
  <2>1. \A i \in Slots : registry'[i] # Nil => status'[registry'[i]] = "live"
    BY <1>1, <1>3, ObjectKinds DEF Custody, Alive, Typed, bound
  <2>2. \A u \in Scripts : variables[u] \subseteq Objects
    BY ObjectKinds DEF Custody, Typed
  <2>3. status'[co] = "live"  BY <1>1, <1>2
  <2>4. \A o \in variables'[Main] : status'[o] = "live"
    BY <1>3, <1>6, <2>2, <2>3, ObjectKinds DEF Custody, Alive
  <2>5. \A c \in Coroutines : status'[c] = "live" =>
          \A o \in variables'[c] : status'[o] = "live"
    <3> SUFFICES ASSUME NEW c \in Coroutines, status'[c] = "live", NEW o \in variables'[c]
                 PROVE  status'[o] = "live"
      OBVIOUS
    <3>1. variables'[c] = variables[c]  BY <1>6, Distinct, ObjectKinds
    <3>2. CASE c = co
      BY <1>1, <3>1, <3>2 DEF Custody, Alive
    <3>3. CASE c # co
      BY <1>3, <1>4, <2>2, <3>1, <3>3, ObjectKinds DEF Custody, Alive
    <3>4. QED BY <3>2, <3>3
  <2>6. \A c \in Callbacks : status'[c] = "live" =>
          \A d \in upvalues'[c] : status'[d] = "live"
    BY <1>1, <1>3, <1>4, <1>5, ObjectKinds DEF Custody, Alive, Typed
  <2>7. \A g \in param' : status'[g] = "live"
    BY <1>1, <1>3, ObjectKinds DEF Custody, Alive, Typed
  <2>8. \A c \in Coroutines : status'[c] = "none" => variables'[c] = {}
    BY <1>1, <1>2, <1>4, <1>6, ObjectKinds, Distinct DEF Custody, Alive
  <2>9. QED BY <2>1, <2>4, <2>5, <2>6, <2>7, <2>8 DEF Alive
<1>11. Running'
  BY <1>1, <1>3, RunningFrames, RunningStays, ObjectKinds DEF Custody, Running
<1>12. QED BY <1>7, <1>8, <1>9, <1>10, <1>11 DEF Custody

LEMMA RunStep ==
  ASSUME Custody, NEW c \in Callbacks, NEW use_current \in BOOLEAN, Run(c, use_current)
  PROVE  Custody'
<1> DEFINE thread == IF use_current THEN Current ELSE state[c]
           frame == [callback |-> c, key |-> registry[refs[c][3]], thread |-> thread]
<1>1. /\ UNCHANGED heap /\ UNCHANGED bound /\ param' = param
      /\ refs[c] # <<>> /\ c \in Usable
      /\ running' = Append(running, frame)
  BY DEF Run, fills
<1>2. HasEntries(c) /\ status[c] = "live"
  BY <1>1, UsableAlive DEF Custody, Owned
<1>3. running \in Seq(Frame) /\ Len(running) \in Nat
  BY DEF Custody, Running
<1>4. \/ thread = Main \/ thread = Thread(c)
      \/ \E e \in 1 .. Len(running) : thread = Thread(running[e].callback)
  <2>1. CASE ~ use_current
    BY <1>2, <2>1 DEF HasEntries
  <2>2. CASE use_current /\ running = <<>>
    BY <2>2 DEF Current
  <2>3. CASE use_current /\ running # <<>>
    <3>1. Len(running) \in 1 .. Len(running)  BY <1>3, <2>3
    <3>2. thread = running[Len(running)].thread
      BY <2>3 DEF Current, Last
    <3>3. QED BY <3>1, <3>2 DEF Custody, Running
  <2>4. QED BY <2>1, <2>2, <2>3
<1>5. frame \in Frame
  <2>1. registry[refs[c][3]] \in Handles  BY <1>2 DEF HasEntries
  <2>2. thread \in {Main} \union {Thread(d) : d \in Callbacks}
    <3>1. \A e \in 1 .. Len(running) : running[e].callback \in Callbacks
      BY RunningFrames
    <3> HIDE DEF thread
    <3>2. QED BY <1>4, <3>1
  <2> HIDE DEF thread
  <2>3. QED BY <2>1, <2>2 DEF Frame
<1>6. status[registry[refs[c][3]]] = "live"
  <2>1. registry[refs[c][3]] # Nil /\ refs[c][3] \in Slots
    BY <1>2, Distinct DEF HasEntries
  <2>2. QED BY <2>1 DEF Custody, Alive
<1>7. Running'
  <2>1. running' \in Seq(Frame) /\ Len(running') = Len(running) + 1
    <3> HIDE DEF frame
    <3>1. QED BY <1>1, <1>3, <1>5
  <2>2. \A n \in 1 .. Len(running) : running'[n] = running[n]
    <3> HIDE DEF frame
    <3>1. QED BY <1>1, <1>3, <1>5
  <2>3. running'[Len(running) + 1] = frame
    <3> HIDE DEF frame
    <3>1. QED BY <1>1, <1>3, <1>5
  <2>4. ASSUME NEW n \in 1 .. Len(running')
        PROVE  /\ status'[running'[n].callback] = "live"
               /\ status'[running'[n].key] = "live"
               /\ \/ running'[n].thread = Main
                  \/ \E e \in 1 .. n : running'[n].thread = Thread(running'[e].callback)
    <3>1. status' = status  BY <1>1 DEF heap
    <3>2. CASE n \in 1 .. Len(running)
      <4>1. \A e \in 1 .. n : running'[e] = running[e]
        BY <1>3, <2>2, <3>2
      <4>2. QED BY <2>2, <3>1, <3>2, <4>1 DEF Custody, Running
    <3>3. CASE n = Len(running) + 1
      <4>1. /\ running'[n].callback = c /\ running'[n].key = registry[refs[c][3]]
            /\ running'[n].thread = thread
        BY <2>3, <3>3
      <4>2. thread = Main \/ \E e \in 1 .. n : thread = Thread(running'[e].callback)
        <5> HIDE DEF thread
        <5>1. CASE thread = Thread(c)
          <6>1. n \in 1 .. n  BY <1>3, <3>3
          <6>2. QED BY <4>1, <5>1, <6>1
        <5>2. ASSUME NEW e \in 1 .. Len(running), thread = Thread(running[e].callback)
              PROVE  \E k \in 1 .. n : thread = Thread(running'[k].callback)
          <6>1. e \in 1 .. n /\ running'[e] = running[e]  BY <1>3, <2>2, <3>3
          <6>2. QED BY <5>2, <6>1
        <5>3. QED BY <1>4, <5>1, <5>2
      <4> HIDE DEF thread
      <4>3. QED BY <1>2, <1>6, <3>1, <4>1, <4>2
    <3>4. QED BY <1>3, <2>1, <3>2, <3>3
  <2>5. QED BY <2>1, <2>4 DEF Running
<1>8. Typed' /\ Owned' /\ Separate' /\ Accounted' /\ Alive'
  BY <1>1 DEF Custody, Typed, Owned, HasEntries, Separate, Accounted, Alive, heap, bound
<1>9. QED BY <1>7, <1>8 DEF Custody

LEMMA RunEndsStep ==
  ASSUME Custody, RunEnds
  PROVE  Custody'
<1>1. /\ UNCHANGED heap /\ UNCHANGED bound /\ param' = param
      /\ running # <<>> /\ running' = SubSeq(running, 1, Len(running) - 1)
  BY DEF RunEnds, Front, fills
<1>2. running \in Seq(Frame) /\ Len(running) \in Nat \ {0}
  BY <1>1 DEF Custody, Running
<1>3. /\ running' \in Seq(Frame) /\ Len(running') = Len(running) - 1
      /\ \A n \in 1 .. Len(running') : running'[n] = running[n]
  <2> DEFINE last == Len(running) - 1
  <2>1. 1 \in 1 .. Len(running) + 1 /\ last \in 0 .. Len(running)
    BY <1>2
  <2>2. /\ SubSeq(running, 1, last) \in Seq(Frame)
        /\ Len(SubSeq(running, 1, last)) = last - 1 + 1
        /\ \A n \in 1 .. last - 1 + 1 : SubSeq(running, 1, last)[n] = running[1 + n - 1]
    <3> HIDE DEF last
    <3>1. last \in 1 - 1 .. Len(running)  BY <2>1
    <3>2. QED BY <1>2, <2>1, <3>1, SubSeqProperties
  <2>3. QED BY <1>1, <1>2, <2>2
<1>4. Running'
  <2>1. ASSUME NEW n \in 1 .. Len(running')
        PROVE  /\ n \in 1 .. Len(running) /\ running'[n] = running[n]
               /\ \A e \in 1 .. n : running'[e] = running[e]
    BY <1>2, <1>3
  <2>2. QED BY <1>1, <1>3, <2>1 DEF Custody, Running, heap
<1>5. Typed' /\ Owned' /\ Separate' /\ Accounted' /\ Alive'
  BY <1>1 DEF Custody, Typed, Owned, HasEntries, Separate, Accounted, Alive, heap, bound
<1>6. QED BY <1>4, <1>5 DEF Custody

\* Nothing alive refers to what is finalized.
LEMMA FinalizeHandleStep ==
  ASSUME Custody, NEW h \in Handles, FinalizeHandle(h)
  PROVE  Custody'
<1>1. /\ status[h] = "doomed" /\ status' = [status EXCEPT ![h] = "done"]
      /\ UNCHANGED <<variables, upvalues, running>> /\ UNCHANGED bound /\ param' = param
  BY DEF FinalizeHandle, fills
<1>2. h \in Objects /\ status \in [Objects -> AllStatuses]
  BY ObjectKinds DEF Custody, Typed
<1>3. \A o \in Objects \ {h} : status'[o] = status[o]
  BY <1>1, <1>2
<1>4. \A o \in Objects : status[o] = "live" => status'[o] = "live"
  BY <1>1, <1>2
<1>5. h \notin Callbacks /\ h \notin Coroutines  BY Distinct
<1>6. Typed'  BY <1>1 DEF Custody, Typed, bound, AllStatuses
<1>7. Owned'
  BY <1>1, <1>3, <1>5, ObjectKinds DEF Custody, Owned, HasEntries, bound
<1>8. Separate' /\ Accounted'  BY <1>1 DEF Custody, Separate, Accounted, bound
<1>9. Alive'
  <2>1. \A i \in Slots : registry'[i] # Nil => status'[registry'[i]] = "live"
    BY <1>1, <1>4, ObjectKinds DEF Custody, Alive, Typed, bound
  <2>2. \A u \in Scripts : variables[u] \subseteq Objects
    BY ObjectKinds DEF Custody, Typed
  <2>3. \A o \in variables'[Main] : status'[o] = "live"
    BY <1>1, <1>4, <2>2, ObjectKinds DEF Custody, Alive
  <2>4. \A co \in Coroutines : status'[co] = status[co]
    BY <1>3, <1>5, ObjectKinds
  <2>5. \A co \in Coroutines : status'[co] = "live" =>
          \A o \in variables'[co] : status'[o] = "live"
    BY <1>1, <1>4, <2>2, <2>4, ObjectKinds DEF Custody, Alive
  <2>6. \A c \in Callbacks : status'[c] = "live" =>
          \A d \in upvalues'[c] : status'[d] = "live"
    BY <1>1, <1>3, <1>4, <1>5, ObjectKinds DEF Custody, Alive, Typed
  <2>7. \A g \in param' : status'[g] = "live"
    BY <1>1, <1>4, ObjectKinds DEF Custody, Alive, Typed
  <2>8. \A co \in Coroutines : status'[co] = "none" => variables'[co] = {}
    BY <1>1, <2>4 DEF Custody, Alive
  <2>9. QED BY <2>1, <2>3, <2>5, <2>6, <2>7, <2>8 DEF Alive
<1>10. Running'
  BY <1>1, <1>4, RunningFrames, RunningStays, ObjectKinds DEF Custody, Running
<1>11. QED BY <1>6, <1>7, <1>8, <1>9, <1>10 DEF Custody

LEMMA FinalizeCallbackStep ==
  ASSUME Custody, NEW c \in Callbacks, FinalizeCallback(c)
  PROVE  Custody'
<1>1. /\ status[c] = "doomed" /\ status' = [status EXCEPT ![c] = "done"]
      /\ refs' = [refs EXCEPT ![c] = <<>>]
      /\ registry' = [i \in Slots |-> IF i \in Unreferenced(c) THEN Nil ELSE registry[i]]
      /\ UNCHANGED <<variables, upvalues, state, leaked, running>> /\ param' = param
  BY DEF FinalizeCallback, fills
<1>2. c \in Objects /\ status \in [Objects -> AllStatuses]
  BY ObjectKinds DEF Custody, Typed
<1>3. \A o \in Objects \ {c} : status'[o] = status[o]
  BY <1>1, <1>2
<1>4. \A o \in Objects : status[o] = "live" => status'[o] = "live"
  BY <1>1, <1>2
<1>5. c \notin Coroutines /\ status'[c] = "done"  BY <1>1, <1>2, Distinct
<1>6. refs[c] # <<>> /\ HasEntries(c)
  BY <1>1 DEF Custody, Owned
<1>7. \A i : i \in Unreferenced(c) <=> \E n \in 1 .. 3 : refs[c][n] = i
  BY <1>6 DEF Unreferenced, ToSet, HasEntries
<1>8. /\ refs'[c] = <<>>
      /\ \A d \in Callbacks \ {c} : refs'[d] = refs[d]
      /\ DOMAIN refs' = Callbacks
  BY <1>1 DEF Custody, Typed
<1>9. ASSUME NEW d \in Callbacks, refs'[d] # <<>>
      PROVE  /\ d # c /\ refs'[d] = refs[d] /\ HasEntries(d)
             /\ \A n \in 1 .. 3 : registry'[refs[d][n]] = registry[refs[d][n]]
  <2>1. d # c /\ refs'[d] = refs[d] /\ HasEntries(d)
    BY <1>8, <1>9 DEF Custody, Owned
  <2>2. ASSUME NEW n \in 1 .. 3 PROVE registry'[refs[d][n]] = registry[refs[d][n]]
    <3>1. refs[d][n] \notin Unreferenced(c)
      BY <1>6, <1>7, <1>9, <2>1 DEF Custody, Separate
    <3>2. refs[d][n] \in Slots  BY <2>1 DEF HasEntries
    <3>3. QED BY <1>1, <3>1, <3>2
  <2>3. QED BY <2>1, <2>2
<1>10. Typed'
  <2>1. registry' \in [Slots -> Handles \union Parts \union {Nil}]
    BY <1>1 DEF Custody, Typed
  <2>2. QED BY <1>1, <1>8, <2>1 DEF Custody, Typed, AllStatuses
<1>11. Owned'
  <2> SUFFICES ASSUME NEW d \in Callbacks
               PROVE  IF refs'[d] = <<>> THEN status'[d] \notin {"live", "doomed"} ELSE HasEntries(d)'
    BY DEF Owned
  <2>1. CASE d = c  BY <1>5, <1>8, <2>1
  <2>2. CASE d # c /\ refs'[d] = <<>>
    BY <1>3, <1>8, <2>2, ObjectKinds DEF Custody, Owned
  <2>3. CASE refs'[d] # <<>>
    <3>1. status'[d] = status[d]  BY <1>3, <1>9, <2>3, ObjectKinds
    <3>2. QED BY <1>1, <1>9, <2>3, <3>1 DEF HasEntries
  <2>4. QED BY <2>1, <2>2, <2>3
<1>12. Separate'
  BY <1>9 DEF Custody, Separate
<1>13. Accounted'
  <2>1. ASSUME NEW i \in leaked' PROVE registry'[i] # Nil
    <3>1. i \notin Unreferenced(c)  BY <1>1, <1>6, <1>7, <2>1 DEF HasEntries
    <3>2. i \in Slots /\ registry[i] # Nil  BY <1>1, <2>1 DEF Custody, Typed, Accounted
    <3>3. QED BY <1>1, <3>1, <3>2
  <2>2. ASSUME NEW i \in Slots, registry'[i] # Nil, i \notin leaked'
        PROVE  \E d \in Callbacks : refs'[d] # <<>> /\ \E n \in 1 .. 3 : refs'[d][n] = i
    <3>1. i \notin Unreferenced(c) /\ registry[i] # Nil  BY <1>1, <2>2
    <3>2. PICK d \in Callbacks : refs[d] # <<>> /\ \E n \in 1 .. 3 : refs[d][n] = i
      BY <1>1, <2>2, <3>1 DEF Custody, Accounted
    <3>3. d # c  BY <1>7, <3>1, <3>2
    <3>4. QED BY <1>8, <3>2, <3>3
  <2>3. QED BY <2>1, <2>2 DEF Accounted
<1>14. Alive'
  <2>1. \A i \in Slots : registry'[i] # Nil => status'[registry'[i]] = "live"
    BY <1>1, <1>4, ObjectKinds DEF Custody, Alive, Typed
  <2>2. \A u \in Scripts : variables[u] \subseteq Objects
    BY ObjectKinds DEF Custody, Typed
  <2>3. \A o \in variables'[Main] : status'[o] = "live"
    BY <1>1, <1>4, <2>2, ObjectKinds DEF Custody, Alive
  <2>4. \A co \in Coroutines : status'[co] = status[co]
    BY <1>3, <1>5, ObjectKinds
  <2>5. \A co \in Coroutines : status'[co] = "live" =>
          \A o \in variables'[co] : status'[o] = "live"
    BY <1>1, <1>4, <2>2, <2>4, ObjectKinds DEF Custody, Alive
  <2>6. \A d \in Callbacks : status'[d] = "live" =>
          \A e \in upvalues'[d] : status'[e] = "live"
    BY <1>1, <1>3, <1>4, <1>5, ObjectKinds DEF Custody, Alive, Typed
  <2>7. \A g \in param' : status'[g] = "live"
    BY <1>1, <1>4, ObjectKinds DEF Custody, Alive, Typed
  <2>8. \A co \in Coroutines : status'[co] = "none" => variables'[co] = {}
    BY <1>1, <2>4 DEF Custody, Alive
  <2>9. QED BY <2>1, <2>3, <2>5, <2>6, <2>7, <2>8 DEF Alive
<1>15. Running'
  BY <1>1, <1>4, RunningFrames, RunningStays, ObjectKinds DEF Custody, Running
<1>16. QED BY <1>10, <1>11, <1>12, <1>13, <1>14, <1>15 DEF Custody

\* The collector keeps what it finds, and what it leaves alive it has found.
LEMMA Sweeping ==
  ASSUME Custody, Collect, NEW o \in Objects
  PROVE  /\ status'[o] \in AllStatuses
         /\ o \in Reachable => status'[o] = status[o]
         /\ status'[o] = "live" => status[o] = "live" /\ o \in Reachable
         /\ status'[o] = "none" <=> status[o] = "none"
         /\ o \in Collectable /\ status[o] \in {"live", "doomed"}
              => status'[o] \in {"live", "doomed"}
         /\ status[o] \notin {"live", "doomed"} => status'[o] \notin {"live", "doomed"}
<1>1. status'[o] = Swept(o, Reachable)  BY DEF Collect
<1>2. status[o] \in AllStatuses  BY DEF Custody, Typed
<1>3. QED
  <2> HIDE DEF Custody
  <2>1. QED BY <1>1, <1>2 DEF Swept, AllStatuses

LEMMA CollectStep ==
  ASSUME Custody, Collect
  PROVE  Custody'
<1>1. UNCHANGED <<variables, upvalues, running>> /\ UNCHANGED bound /\ param' = param
  BY DEF Collect, fills
<1>2. DOMAIN status' = Objects /\ status' \in [Objects -> AllStatuses]
  BY Sweeping DEF Collect
<1>3. Typed'  BY <1>1, <1>2 DEF Custody, Typed, bound
<1>4. Owned'
  <2>1. Callbacks \subseteq Collectable  BY DEF Collectable
  <2>2. QED BY <1>1, <2>1, Sweeping, ObjectKinds DEF Custody, Owned, HasEntries, bound
<1>5. Separate' /\ Accounted'  BY <1>1 DEF Custody, Separate, Accounted, bound
<1>6. /\ variables[Main] \subseteq Reachable /\ OnStacks \subseteq Reachable
      /\ \A i \in Slots : registry[i] # Nil => registry[i] \in Reachable
      /\ param \subseteq Reachable
  BY DEF Reachable, Registered, OnStacks
<1>7. ASSUME NEW co \in Coroutines, co \in Reachable
      PROVE  variables[co] \subseteq Reachable
  <2> DEFINE roots == variables[Main] \union OnStacks \union Registered
  <2>1. co \in roots
    <3>1. \A o \in roots : co \notin Successors(o)
      <4>1. \A o \in Coroutines : co \notin variables[o]
        BY Distinct DEF Custody, Typed
      <4>2. \A c \in Callbacks : co \notin upvalues[c]
        BY Distinct DEF Custody, Typed
      <4>3. QED BY <4>1, <4>2 DEF Successors
    <3>2. QED
      <4> HIDE DEF roots
      <4>1. Reachable = roots \union UNION {Successors(o) : o \in roots}
        BY DEF Reachable, roots
      <4>2. QED BY <1>7, <3>1, <4>1
  <2>2. Successors(co) = variables[co]  BY DEF Successors
  <2>3. QED
    <3> HIDE DEF roots
    <3>1. Reachable = roots \union UNION {Successors(o) : o \in roots}
      BY DEF Reachable, roots
    <3>2. QED BY <2>1, <2>2, <3>1
<1>8. ASSUME NEW c \in Callbacks, status[c] = "live"
      PROVE  upvalues[c] \subseteq Reachable
  <2> DEFINE roots == variables[Main] \union OnStacks \union Registered
  <2>1. HasEntries(c)  BY <1>8 DEF Custody, Owned
  <2>2. Function(c) \in Registered
    <3>1. refs[c][2] \in Slots /\ registry[refs[c][2]] = Function(c)
      BY <2>1 DEF HasEntries
    <3>2. Function(c) # Nil  BY PartNames
    <3>3. QED BY <3>1, <3>2 DEF Registered
  <2>3. upvalues[c] \subseteq Successors(Function(c))
    <3>1. Function(c) \notin Coroutines  BY PartNames, Distinct
    <3>2. Successors(Function(c)) = UNION {upvalues[d] : d \in {e \in Callbacks : Function(e) = Function(c)}}
      BY <3>1 DEF Successors
    <3>3. QED BY <3>2
  <2>4. QED
    <3> HIDE DEF roots
    <3>1. Reachable = roots \union UNION {Successors(o) : o \in roots}
      BY DEF Reachable, roots
    <3>2. Function(c) \in roots  BY <2>2 DEF roots
    <3>3. QED BY <2>3, <3>1, <3>2
<1>9. Alive'
  <2>1. \A u \in Scripts : variables[u] \subseteq Objects
    BY ObjectKinds DEF Custody, Typed
  <2>2. \A i \in Slots : registry'[i] # Nil => status'[registry'[i]] = "live"
    <3> SUFFICES ASSUME NEW i \in Slots, registry[i] # Nil
                 PROVE  status'[registry[i]] = "live"
      BY <1>1 DEF bound
    <3>1. registry[i] \in Objects  BY ObjectKinds DEF Custody, Typed
    <3>2. QED BY <1>6, <3>1, Sweeping DEF Custody, Alive
  <2>3. \A o \in variables'[Main] : status'[o] = "live"
    BY <1>1, <1>6, <2>1, Sweeping, ObjectKinds DEF Custody, Alive
  <2>4. \A co \in Coroutines : status'[co] = "live" =>
          \A o \in variables'[co] : status'[o] = "live"
    <3> SUFFICES ASSUME NEW co \in Coroutines, status'[co] = "live", NEW o \in variables[co]
                 PROVE  status'[o] = "live"
      BY <1>1
    <3>1. status[co] = "live" /\ co \in Reachable  BY Sweeping, ObjectKinds
    <3>2. o \in Reachable /\ o \in Objects  BY <1>7, <2>1, <3>1, ObjectKinds
    <3>3. status[o] = "live"  BY <3>1 DEF Custody, Alive
    <3>4. QED BY <3>2, <3>3, Sweeping
  <2>5. \A c \in Callbacks : status'[c] = "live" =>
          \A d \in upvalues'[c] : status'[d] = "live"
    <3> SUFFICES ASSUME NEW c \in Callbacks, status'[c] = "live", NEW d \in upvalues[c]
                 PROVE  status'[d] = "live"
      BY <1>1
    <3>1. status[c] = "live"  BY Sweeping, ObjectKinds
    <3>2. d \in Reachable /\ d \in Objects
      BY <1>8, <3>1, ObjectKinds DEF Custody, Typed
    <3>3. status[d] = "live"  BY <3>1 DEF Custody, Alive
    <3>4. QED BY <3>2, <3>3, Sweeping
  <2>6. \A f \in param' : status'[f] = "live"
    BY <1>1, <1>6, Sweeping, ObjectKinds DEF Custody, Alive, Typed
  <2>7. \A co \in Coroutines : status'[co] = "none" => variables'[co] = {}
    BY <1>1, Sweeping, ObjectKinds DEF Custody, Alive
  <2>8. QED BY <2>2, <2>3, <2>4, <2>5, <2>6, <2>7 DEF Alive
<1>10. Running'
  <2>1. ASSUME NEW n \in 1 .. Len(running)
        PROVE  status'[running[n].callback] = "live" /\ status'[running[n].key] = "live"
    <3>1. /\ running[n].callback \in Objects /\ running[n].callback \in Reachable
          /\ running[n].key \in Objects /\ running[n].key \in Reachable
      BY <1>6, RunningFrames, ObjectKinds
    <3>2. QED BY <3>1, Sweeping DEF Custody, Running
  <2>2. QED BY <1>1, <2>1, RunningStays DEF Custody
<1>11. QED BY <1>3, <1>4, <1>5, <1>9, <1>10 DEF Custody

\* A callback that is made or not: three objects come alive, or two.
LEMMA NewParts ==
  ASSUME Custody, NEW c \in Callbacks, status[c] = "none",
         status' = [o \in Objects |-> IF o \in {Thread(c), Function(c)} THEN "live"
                                      ELSE IF o = c THEN status'[c] ELSE status[o]],
         status'[c] \in {"live", "freed"}
  PROVE  /\ status' \in [Objects -> AllStatuses]
         /\ status'[Thread(c)] = "live" /\ status'[Function(c)] = "live"
         /\ \A o \in Objects : status[o] = "live" => status'[o] = "live"
         /\ \A d \in Callbacks \ {c} : status'[d] = status[d]
         /\ \A o \in Coroutines \union Handles \union Fills : status'[o] = status[o]
         /\ refs[c] = <<>>
<1>1. c \in Objects /\ Thread(c) \in Objects /\ Function(c) \in Objects
  BY PartNames, ObjectKinds
<1>2. status \in [Objects -> AllStatuses]  BY DEF Custody, Typed
<1>3. /\ Thread(c) \in Parts /\ Function(c) \in Parts /\ c \notin Parts
      /\ c \notin Coroutines \union Handles \union Fills
  BY PartNames, Distinct
<1>4. \A d \in Callbacks \union Coroutines \union Handles \union Fills : d \notin Parts
  BY Distinct
<1>5. refs[c] = <<>>
  BY DEF Custody, Owned, HasEntries
<1>6. status' \in [Objects -> AllStatuses]
  BY <1>2 DEF AllStatuses
<1>7. QED BY <1>1, <1>2, <1>3, <1>4, <1>5, <1>6, ObjectKinds

LEMMA KeyAlive ==
  ASSUME Custody, NEW h \in Handles, NEW t \in Scripts, h \in Known(t), CanRun(t)
  PROVE  status[h] = "live"
<1>1. CASE h \in variables[Main]  BY <1>1 DEF Custody, Alive
<1>2. CASE t # Main /\ h \in variables[t]
  BY <1>2 DEF CanRun, Scripts, Custody, Alive
<1>3. QED BY <1>1, <1>2 DEF Known

LEMMA MakeCallbackStep ==
  ASSUME Custody, NEW c \in Callbacks, NEW h \in Handles, NEW t \in Scripts,
         NEW up \in {{}} \union {{d} : d \in Callbacks}, MakeCallback(c, h, t, up)
  PROVE  Custody'
<1> DEFINE slots == Taken(3)
           values == Anchored(c, h)
<1>1. /\ h \in Known(t) /\ CanRun(t) /\ status[c] = "none"
      /\ Cardinality(FreeSlots) >= 3 /\ up \subseteq Known(t) \union {c}
      /\ status' = [o \in Objects |->
           IF o \in {c, Thread(c), Function(c)} THEN "live" ELSE status[o]]
      /\ upvalues' = [upvalues EXCEPT ![c] = up]
      /\ variables' = [variables EXCEPT ![Main] = @ \union {c}]
      /\ registry' = Registering(values)
      /\ state' = [state EXCEPT ![c] = Thread(c)]
      /\ leaked' = leaked /\ running' = running /\ param' = param
  BY DEF MakeCallback, Parameters, New, StateOf, fills
<1>2. /\ Len(values) = 3 /\ values[1] = Thread(c) /\ values[2] = Function(c)
      /\ values[3] = h
  BY DEF Anchored
<1>3. refs' = [refs EXCEPT ![c] = slots]
  <2>1. refs' = [refs EXCEPT ![c] = Taken(Len(Anchored(c, h)))]
    BY DEF MakeCallback
  <2>2. QED BY <1>2, <2>1
<1>4. c \in Objects /\ status'[c] = "live"
  BY <1>1, ObjectKinds
<1>5. status' = [o \in Objects |-> IF o \in {Thread(c), Function(c)} THEN "live"
                                   ELSE IF o = c THEN status'[c] ELSE status[o]]
  BY <1>1, <1>4
<1>6. /\ status' \in [Objects -> AllStatuses]
      /\ status'[Thread(c)] = "live" /\ status'[Function(c)] = "live"
      /\ \A o \in Objects : status[o] = "live" => status'[o] = "live"
      /\ \A d \in Callbacks \ {c} : status'[d] = status[d]
      /\ \A o \in Coroutines \union Handles \union Fills : status'[o] = status[o]
      /\ refs[c] = <<>>
  <2> HIDE DEF values, slots
  <2>1. QED BY <1>1, <1>4, <1>5, NewParts
<1>7. /\ slots \in [1 .. 3 -> FreeSlots] /\ FreeSlots \subseteq Slots
      /\ \A a, b \in 1 .. 3 : slots[a] = slots[b] => a = b
  BY <1>1, TakenSlots DEF FreeSlots
<1> HIDE DEF values, slots
<1>8. /\ DOMAIN registry' = Slots
      /\ \A k \in 1 .. 3 : registry'[slots[k]] = values[k]
      /\ \A i \in Slots : (\A k \in 1 .. 3 : slots[k] # i) => registry'[i] = registry[i]
  BY <1>1, <1>2, RegistersEntries DEF slots
<1>9. \A i \in Slots : \/ registry'[i] = registry[i]
                       \/ \E k \in 1 .. 3 : slots[k] = i /\ registry'[i] = values[k]
  BY <1>8
<1>10. /\ refs'[c] = slots /\ refs'[c] # <<>> /\ DOMAIN refs' = Callbacks
       /\ \A d \in Callbacks \ {c} : refs'[d] = refs[d]
  <2>1. slots # <<>>
    <3>1. DOMAIN slots = 1 .. 3  BY <1>7
    <3>2. 1 \in DOMAIN slots /\ DOMAIN <<>> = {}  BY <3>1
    <3>3. QED BY <3>2
  <2>2. QED BY <1>3, <2>1 DEF Custody, Typed
<1>11. ASSUME NEW i \in Slots, registry[i] # Nil
       PROVE  registry'[i] = registry[i] /\ \A k \in 1 .. 3 : slots[k] # i
  BY <1>7, <1>8, <1>11 DEF FreeSlots
<1>12. \A d \in Callbacks : refs[d] # <<>> =>
         /\ d # c /\ HasEntries(d)
         /\ \A n \in 1 .. 3 : refs[d][n] \in Slots /\ registry[refs[d][n]] # Nil
  <2> SUFFICES ASSUME NEW d \in Callbacks, refs[d] # <<>>
               PROVE  /\ d # c /\ HasEntries(d)
                      /\ \A n \in 1 .. 3 : refs[d][n] \in Slots /\ registry[refs[d][n]] # Nil
    OBVIOUS
  <2>1. d # c /\ HasEntries(d)  BY <1>6 DEF Custody, Owned
  <2>2. registry[refs[d][1]] # Nil /\ registry[refs[d][2]] # Nil /\ registry[refs[d][3]] # Nil
    BY <2>1, PartNames, Distinct DEF HasEntries
  <2>3. QED BY <2>1, <2>2 DEF HasEntries
<1>13. /\ DOMAIN variables = Scripts
       /\ variables'[Main] = variables[Main] \union {c}
       /\ \A co \in Coroutines : variables'[co] = variables[co]
  <2>1. DOMAIN variables = Scripts  BY DEF Custody, Typed
  <2>2. QED BY <1>1, <2>1, Distinct, ObjectKinds
<1>14. values[1] \in Parts /\ values[2] \in Parts /\ values[3] \in Handles
  BY <1>2, PartNames
<1>15. Typed'
  <2>1. registry' \in [Slots -> Handles \union Parts \union {Nil}]
    <3>1. \A k \in 1 .. 3 : values[k] \in Handles \union Parts  BY <1>14
    <3>2. \A i \in Slots : registry'[i] \in Handles \union Parts \union {Nil}
      BY <1>9, <3>1 DEF Custody, Typed
    <3>3. registry' = [i \in Slots |-> registry'[i]]
      BY <1>1 DEF Registering
    <3>4. QED BY <3>2, <3>3
  <2>2. variables' \in [Scripts -> SUBSET (Handles \union Callbacks \union Coroutines \union Fills)]
    BY <1>1, ObjectKinds DEF Custody, Typed
  <2>3. upvalues' \in [Callbacks -> SUBSET Callbacks]
    BY <1>1 DEF Custody, Typed
  <2>4. \A co \in Coroutines : variables'[co] \subseteq Handles
    BY <1>13 DEF Custody, Typed
  <2>5. QED BY <1>1, <1>6, <1>10, <2>1, <2>2, <2>3, <2>4 DEF Custody, Typed
<1>16. Owned'
  <2> SUFFICES ASSUME NEW d \in Callbacks
               PROVE  IF refs'[d] = <<>> THEN status'[d] \notin {"live", "doomed"} ELSE HasEntries(d)'
    BY DEF Owned
  <2>1. CASE d = c
    <3>1. DOMAIN slots = 1 .. 3 /\ \A n \in 1 .. 3 : slots[n] \in Slots \ leaked
      BY <1>7 DEF Custody, Accounted, FreeSlots
    <3>2. state'[c] = Thread(c)  BY <1>1 DEF Custody, Typed
    <3>3. QED BY <1>1, <1>2, <1>4, <1>8, <1>10, <2>1, <3>1, <3>2 DEF HasEntries
  <2>2. CASE d # c /\ refs[d] = <<>>
    BY <1>6, <1>10, <2>2 DEF Custody, Owned
  <2>3. CASE d # c /\ refs[d] # <<>>
    <3>1. state'[d] = state[d]  BY <1>1, <2>3 DEF Custody, Typed
    <3>2. \A n \in 1 .. 3 : registry'[refs[d][n]] = registry[refs[d][n]]
      BY <1>11, <1>12, <2>3
    <3>3. HasEntries(d)  BY <1>12, <2>3
    <3>4. QED BY <1>1, <1>6, <1>10, <2>3, <3>1, <3>2, <3>3 DEF HasEntries
  <2>4. QED BY <2>1, <2>2, <2>3
<1>17. Separate'
  <2> SUFFICES ASSUME NEW d \in Callbacks, NEW e \in Callbacks, refs'[d] # <<>>, refs'[e] # <<>>,
                      NEW m \in 1 .. 3, NEW n \in 1 .. 3, refs'[d][m] = refs'[e][n]
               PROVE  d = e
    BY DEF Separate
  <2>1. CASE d # c /\ e # c
    BY <1>10, <2>1 DEF Custody, Separate
  <2>2. ASSUME NEW f \in Callbacks, f # c, refs'[f] # <<>>, NEW k \in 1 .. 3, NEW l \in 1 .. 3
        PROVE  refs'[f][k] # slots[l]
    BY <1>10, <1>11, <1>12, <2>2
  <2>3. QED BY <1>10, <2>1, <2>2
<1>18. Accounted'
  <2>1. \A i \in leaked' : registry'[i] # Nil
    BY <1>1, <1>11 DEF Custody, Accounted, Typed
  <2>2. ASSUME NEW i \in Slots, registry'[i] # Nil, i \notin leaked'
        PROVE  \E d \in Callbacks : refs'[d] # <<>> /\ \E n \in 1 .. 3 : refs'[d][n] = i
    <3>1. CASE registry'[i] = registry[i]
      <4>1. PICK d \in Callbacks : refs[d] # <<>> /\ \E n \in 1 .. 3 : refs[d][n] = i
        BY <1>1, <2>2, <3>1 DEF Custody, Accounted
      <4>2. d # c  BY <1>12, <4>1
      <4>3. QED BY <1>10, <4>1, <4>2
    <3>2. CASE \E k \in 1 .. 3 : slots[k] = i
      BY <1>10, <3>2
    <3>3. QED BY <1>9, <3>1, <3>2
  <2>3. QED BY <2>1, <2>2 DEF Accounted
<1>19. status[h] = "live" /\ status'[h] = "live"
  BY <1>1, <1>6, KeyAlive, ObjectKinds
<1>20. Alive'
  <2>1. \A u \in Scripts : variables[u] \subseteq Objects
    BY ObjectKinds DEF Custody, Typed
  <2>2. \A i \in Slots : registry'[i] # Nil => status'[registry'[i]] = "live"
    <3> SUFFICES ASSUME NEW i \in Slots, registry'[i] # Nil
                 PROVE  status'[registry'[i]] = "live"
      OBVIOUS
    <3>1. CASE registry'[i] = registry[i]
      <4>1. registry[i] \in Objects  BY <3>1, ObjectKinds DEF Custody, Typed
      <4>2. QED BY <1>6, <3>1, <4>1 DEF Custody, Alive
    <3>2. ASSUME NEW k \in 1 .. 3, registry'[i] = values[k]
          PROVE  status'[registry'[i]] = "live"
      <4>1. k = 1 \/ k = 2 \/ k = 3  OBVIOUS
      <4>2. QED BY <1>2, <1>6, <1>19, <3>2, <4>1
    <3>3. QED BY <1>9, <3>1, <3>2
  <2>3. \A o \in variables'[Main] : status'[o] = "live"
    BY <1>4, <1>6, <1>13, <2>1, ObjectKinds DEF Custody, Alive
  <2>4. \A co \in Coroutines : status'[co] = "live" =>
          \A o \in variables'[co] : status'[o] = "live"
    BY <1>6, <1>13, <2>1, ObjectKinds DEF Custody, Alive
  <2>5. ASSUME NEW d \in Callbacks, status'[d] = "live", NEW e \in upvalues'[d]
        PROVE  status'[e] = "live"
    <3>1. CASE d = c
      <4>1. e \in up /\ e \in Callbacks  BY <1>1, <2>5, <3>1 DEF Custody, Typed
      <4>2. CASE e = c  BY <1>4, <4>2
      <4>3. CASE e \in variables[Main]
        BY <1>6, <4>1, <4>3, ObjectKinds DEF Custody, Alive
      <4>4. CASE e \in variables[t] /\ t # Main
        <5>1. e \in Handles  BY <4>4 DEF Scripts, Custody, Typed
        <5>2. QED BY <4>1, <5>1, Distinct
      <4>5. QED BY <1>1, <4>1, <4>2, <4>3, <4>4 DEF Known
    <3>2. CASE d # c
      <4>1. e \in upvalues[d] /\ e \in Objects /\ status[d] = "live"
        BY <1>1, <1>6, <2>5, <3>2, ObjectKinds DEF Custody, Typed
      <4>2. QED BY <1>6, <4>1 DEF Custody, Alive
    <3>3. QED BY <3>1, <3>2
  <2>6. \A f \in param' : status'[f] = "live"
    BY <1>1, <1>6, ObjectKinds DEF Custody, Alive, Typed
  <2>7. \A co \in Coroutines : status'[co] = "none" => variables'[co] = {}
    BY <1>6, <1>13 DEF Custody, Alive
  <2>8. QED BY <2>2, <2>3, <2>4, <2>5, <2>6, <2>7 DEF Alive
<1>21. Running'
  BY <1>1, <1>6, RunningFrames, RunningStays, ObjectKinds DEF Custody, Running
<1>22. QED BY <1>15, <1>16, <1>17, <1>18, <1>20, <1>21 DEF Custody

LEMMA MakeCallbackFailsStep ==
  ASSUME Custody, NEW c \in Callbacks, NEW h \in Handles, NEW t \in Scripts,
         NEW n \in 0 .. 2, MakeCallbackFails(c, h, t, n)
  PROVE  Custody'
<1> DEFINE slots == Taken(n)
           values == SubSeq(Anchored(c, h), 1, n)
<1>1. /\ status[c] = "none" /\ Cardinality(FreeSlots) >= 3
      /\ status' = [o \in Objects |->
           IF o = c THEN "freed"
           ELSE IF o \in {Thread(c), Function(c)} THEN "live" ELSE status[o]]
      /\ registry' = Registering(values)
      /\ leaked' = leaked \union ToSet(slots)
      /\ UNCHANGED <<variables, upvalues, refs, state, running, param>>
  BY DEF MakeCallbackFails, Parameters, New, fills
<1>2. /\ Len(values) = n
      /\ \A k \in 1 .. n : values[k] \in {Thread(c), Function(c)}
  <2>1. CASE n = 0  BY <2>1 DEF Anchored
  <2>2. CASE n = 1  BY <2>2 DEF Anchored
  <2>3. CASE n = 2  BY <2>3 DEF Anchored
  <2>4. QED BY <2>1, <2>2, <2>3
<1>3. c \in Objects /\ status'[c] = "freed" /\ c \notin Parts
  BY <1>1, ObjectKinds, Distinct
<1>4. status' = [o \in Objects |-> IF o \in {Thread(c), Function(c)} THEN "live"
                                   ELSE IF o = c THEN status'[c] ELSE status[o]]
  BY <1>1, <1>3, PartNames
<1>5. /\ status' \in [Objects -> AllStatuses]
      /\ status'[Thread(c)] = "live" /\ status'[Function(c)] = "live"
      /\ \A o \in Objects : status[o] = "live" => status'[o] = "live"
      /\ \A d \in Callbacks \ {c} : status'[d] = status[d]
      /\ \A o \in Coroutines \union Handles \union Fills : status'[o] = status[o]
      /\ refs[c] = <<>>
  <2> HIDE DEF values, slots
  <2>1. QED BY <1>1, <1>3, <1>4, NewParts
<1>6. /\ slots \in [1 .. n -> FreeSlots] /\ FreeSlots \subseteq Slots
  <2>1. n \in 0 .. 3  OBVIOUS
  <2>2. FreeSlots \subseteq Slots  BY DEF FreeSlots
  <2> HIDE DEF FreeSlots
  <2>3. QED BY <1>1, <2>1, <2>2, TakenSlots, Zenon
<1> HIDE DEF values, slots
<1>7. ToSet(slots) \subseteq FreeSlots /\ \A k \in 1 .. n : slots[k] \in ToSet(slots)
  BY <1>6 DEF ToSet
<1>8. /\ DOMAIN registry' = Slots
      /\ \A k \in 1 .. n : registry'[slots[k]] = values[k]
      /\ \A i \in Slots : (\A k \in 1 .. n : slots[k] # i) => registry'[i] = registry[i]
  <2>1. n \in 0 .. 3  OBVIOUS
  <2> HIDE DEF FreeSlots
  <2>2. /\ DOMAIN Registering(values) = Slots
        /\ \A k \in 1 .. n : Registering(values)[Taken(n)[k]] = values[k]
        /\ \A i \in Slots : (\A k \in 1 .. n : Taken(n)[k] # i)
                              => Registering(values)[i] = registry[i]
    BY <1>1, <1>2, <2>1, RegistersEntries
  <2>3. QED BY <1>1, <2>2, Zenon DEF slots
<1>9. \A i \in Slots : \/ registry'[i] = registry[i]
                       \/ \E k \in 1 .. n : slots[k] = i /\ registry'[i] = values[k]
  BY <1>8
<1>10. ASSUME NEW i \in Slots, registry[i] # Nil
       PROVE  registry'[i] = registry[i] /\ i \notin ToSet(slots)
  BY <1>6, <1>7, <1>8, <1>10 DEF FreeSlots
<1>11. \A i \in ToSet(slots) : registry'[i] # Nil
  <2> SUFFICES ASSUME NEW i \in ToSet(slots) PROVE registry'[i] # Nil
    OBVIOUS
  <2>1. PICK k \in 1 .. n : slots[k] = i  BY <1>6 DEF ToSet
  <2>2. QED BY <1>2, <1>8, <2>1, PartNames
<1>12. Typed'
  <2>1. registry' \in [Slots -> Handles \union Parts \union {Nil}]
    <3>1. \A k \in 1 .. n : values[k] \in Handles \union Parts  BY <1>2, PartNames
    <3>2. \A i \in Slots : registry'[i] \in Handles \union Parts \union {Nil}
      BY <1>9, <3>1 DEF Custody, Typed
    <3>3. registry' = [i \in Slots |-> registry'[i]]
      BY <1>1 DEF Registering
    <3>4. QED BY <3>2, <3>3
  <2>2. leaked' \subseteq Slots  BY <1>1, <1>6, <1>7 DEF Custody, Typed
  <2>3. QED BY <1>1, <1>5, <2>1, <2>2 DEF Custody, Typed
<1>13. Owned'
  <2> SUFFICES ASSUME NEW d \in Callbacks
               PROVE  IF refs'[d] = <<>> THEN status'[d] \notin {"live", "doomed"} ELSE HasEntries(d)'
    BY DEF Owned
  <2>1. CASE d = c
    BY <1>1, <1>3, <1>5, <2>1
  <2>2. CASE d # c /\ refs[d] = <<>>
    BY <1>1, <1>5, <2>2 DEF Custody, Owned
  <2>3. CASE d # c /\ refs[d] # <<>>
    <3>1. HasEntries(d)  BY <2>3 DEF Custody, Owned
    <3>2. \A m \in 1 .. 3 : refs[d][m] \in Slots /\ registry[refs[d][m]] # Nil
      <4>1. registry[refs[d][1]] # Nil /\ registry[refs[d][2]] # Nil /\ registry[refs[d][3]] # Nil
        BY <3>1, PartNames, Distinct DEF HasEntries
      <4>2. QED BY <3>1, <4>1 DEF HasEntries
    <3>3. \A m \in 1 .. 3 : registry'[refs[d][m]] = registry[refs[d][m]] /\ refs[d][m] \notin ToSet(slots)
      BY <1>10, <3>2
    <3>4. \A m \in 1 .. 3 : refs'[d][m] \in Slots \ leaked'
      BY <1>1, <3>1, <3>3 DEF HasEntries
    <3>5. QED BY <1>1, <1>5, <2>3, <3>1, <3>3, <3>4 DEF HasEntries
  <2>4. QED BY <2>1, <2>2, <2>3
<1>14. Separate'
  BY <1>1 DEF Custody, Separate
<1>15. Accounted'
  <2>1. \A i \in leaked' : registry'[i] # Nil
    BY <1>1, <1>10, <1>11 DEF Custody, Accounted, Typed
  <2>2. ASSUME NEW i \in Slots, registry'[i] # Nil, i \notin leaked'
        PROVE  \E d \in Callbacks : refs'[d] # <<>> /\ \E m \in 1 .. 3 : refs'[d][m] = i
    <3>1. registry'[i] = registry[i] /\ i \notin leaked
      BY <1>1, <1>7, <1>9, <2>2
    <3>2. QED BY <1>1, <2>2, <3>1 DEF Custody, Accounted
  <2>3. QED BY <2>1, <2>2 DEF Accounted
<1>16. Alive'
  <2>1. \A u \in Scripts : variables[u] \subseteq Objects
    BY ObjectKinds DEF Custody, Typed
  <2>2. \A i \in Slots : registry'[i] # Nil => status'[registry'[i]] = "live"
    <3> SUFFICES ASSUME NEW i \in Slots, registry'[i] # Nil
                 PROVE  status'[registry'[i]] = "live"
      OBVIOUS
    <3>1. CASE registry'[i] = registry[i]
      <4>1. registry[i] \in Objects  BY <3>1, ObjectKinds DEF Custody, Typed
      <4>2. QED BY <1>5, <3>1, <4>1 DEF Custody, Alive
    <3>2. CASE \E k \in 1 .. n : registry'[i] = values[k]
      BY <1>2, <1>5, <3>2
    <3>3. QED BY <1>9, <3>1, <3>2
  <2>3. \A o \in variables'[Main] : status'[o] = "live"
    BY <1>1, <1>5, <2>1, ObjectKinds DEF Custody, Alive
  <2>4. \A co \in Coroutines : status'[co] = "live" =>
          \A o \in variables'[co] : status'[o] = "live"
    BY <1>1, <1>5, <2>1, ObjectKinds DEF Custody, Alive
  <2>5. ASSUME NEW d \in Callbacks, status'[d] = "live", NEW e \in upvalues'[d]
        PROVE  status'[e] = "live"
    <3>1. d # c  BY <1>3, <2>5
    <3>2. e \in upvalues[d] /\ e \in Objects /\ status[d] = "live"
      BY <1>1, <1>5, <2>5, <3>1, ObjectKinds DEF Custody, Typed
    <3>3. QED BY <1>5, <3>2 DEF Custody, Alive
  <2>6. \A f \in param' : status'[f] = "live"
    BY <1>1, <1>5, ObjectKinds DEF Custody, Alive, Typed
  <2>7. \A co \in Coroutines : status'[co] = "none" => variables'[co] = {}
    BY <1>1, <1>5 DEF Custody, Alive
  <2>8. QED BY <2>2, <2>3, <2>4, <2>5, <2>6, <2>7 DEF Alive
<1>17. Running'
  BY <1>1, <1>5, RunningFrames, RunningStays, ObjectKinds DEF Custody, Running
<1>18. QED BY <1>12, <1>13, <1>14, <1>15, <1>16, <1>17 DEF Custody
-----------------------------------------------------------------------------
LEMMA StepCustody == Custody /\ [Next]_vars => Custody'
<1> SUFFICES ASSUME Custody, [Next]_vars PROVE Custody'
  OBVIOUS
<1>1. CASE Make
  <2>1. ASSUME NEW h \in Handles, NEW t \in Scripts, MakeHandle(h, t) PROVE Custody'
    BY <2>1, MakeHandleStep
  <2>2. ASSUME NEW co \in Coroutines, Spawn(co) PROVE Custody'
    BY <2>2, SpawnStep
  <2>3. ASSUME NEW c \in Callbacks, NEW h \in Handles, NEW t \in Scripts,
               NEW up \in {{}} \union {{d} : d \in Callbacks}, MakeCallback(c, h, t, up)
        PROVE  Custody'
    BY <2>3, MakeCallbackStep
  <2>4. ASSUME NEW c \in Callbacks, NEW h \in Handles, NEW t \in Scripts,
               NEW n \in 0 .. 2, MakeCallbackFails(c, h, t, n)
        PROVE  Custody'
    BY <2>4, MakeCallbackFailsStep
  <2>5. QED BY <1>1, <2>1, <2>2, <2>3, <2>4 DEF Make
<1>2. ASSUME NEW o \in Objects, NEW t \in Scripts, Drop(o, t) PROVE Custody'
  BY <1>2, VariablesStep DEF Drop, fills
<1>3. CASE KeepKey
  <2>1. running \in Seq(Frame) /\ running # <<>>  BY <1>3 DEF KeepKey, Custody, Running
  <2>2. Len(running) \in 1 .. Len(running)  BY <2>1
  <2>3. running[Len(running)].key \in Handles /\ status[running[Len(running)].key] = "live"
    BY <2>2, RunningFrames DEF Custody, Running
  <2>4. QED BY <1>3, <2>3, VariablesStep DEF KeepKey, fills
<1>4. ASSUME NEW c \in Callbacks, NEW use_current \in BOOLEAN, Run(c, use_current)
      PROVE  Custody'
  BY <1>4, RunStep
<1>5. CASE RunEnds
  BY <1>5, RunEndsStep
<1>6. ASSUME NEW f \in Fills, Serve(f) PROVE Custody'
  <2>1. CASE Readdir(f)  BY <2>1, ReaddirStep
  <2>2. CASE LetGo(f) \/ ReaddirRaises(f) \/ ResetScope(f)
    BY <2>2, VariablesStep DEF LetGo, ReaddirRaises, ResetScope, heap
  <2>3. CASE KeepFill(f)
    <3>1. status[f] = "live"  BY <2>3 DEF KeepFill, Custody, Alive
    <3>2. QED BY <2>3, <3>1, VariablesStep DEF KeepFill, fills
  <2>4. QED BY <1>6, <2>1, <2>2, <2>3 DEF Serve
<1>7. CASE Collect
  BY <1>7, CollectStep
<1>8. CASE Finalize
  BY <1>8, FinalizeHandleStep, FinalizeCallbackStep DEF Finalize
<1>9. CASE UNCHANGED vars
  BY <1>9, VariablesStep DEF vars, heap, fills
<1>10. QED
  BY <1>1, <1>2, <1>3, <1>4, <1>5, <1>6, <1>7, <1>8, <1>9 DEF Next

(***************************************************************************)
(* The registry holds what callbacks own, no more and no less, and what a  *)
(* script, a function or the registry refers to is alive: luaX_reference   *)
(* and luaX_binder with any script and any collector.                      *)
(***************************************************************************)
THEOREM CustodyAlways == Spec => []Custody
<1>1. QED BY CustodyInit, StepCustody, PTL DEF Spec
-----------------------------------------------------------------------------
(***************************************************************************)
(* The values of a callback are in its entries, and alive, from its        *)
(* construction to its destructor.                                         *)
(***************************************************************************)
THEOREM HeldAlways == Spec => []Held
<1>1. ASSUME Custody PROVE Held
  <2> SUFFICES ASSUME NEW c \in Callbacks, refs[c] # <<>>
               PROVE  /\ status[c] \in {"live", "doomed"}
                      /\ registry[refs[c][1]] = state[c] /\ status[state[c]] = "live"
                      /\ registry[refs[c][2]] = Function(c) /\ status[Function(c)] = "live"
                      /\ status[registry[refs[c][3]]] = "live"
    BY DEF Held
  <2>1. HasEntries(c)  BY <1>1 DEF Custody, Owned
  <2>2. /\ refs[c][1] \in Slots /\ refs[c][2] \in Slots /\ refs[c][3] \in Slots
        /\ registry[refs[c][1]] # Nil /\ registry[refs[c][2]] # Nil
        /\ registry[refs[c][3]] # Nil
    BY <2>1, PartNames, Distinct DEF HasEntries
  <2>3. /\ status[registry[refs[c][1]]] = "live" /\ status[registry[refs[c][2]]] = "live"
        /\ status[registry[refs[c][3]]] = "live"
    BY <1>1, <2>2 DEF Custody, Alive
  <2>4. QED BY <2>1, <2>3 DEF HasEntries
<1>2. QED BY <1>1, CustodyAlways, PTL

(***************************************************************************)
(* What runs is alive, however deep callbacks run one another.             *)
(***************************************************************************)
THEOREM RunSafeAlways == Spec => []RunSafe
<1>1. ASSUME Custody PROVE RunSafe
  <2> SUFFICES ASSUME NEW n \in DOMAIN running
               PROVE  /\ status[running[n].callback] = "live"
                      /\ running[n].thread # Main => status[running[n].thread] = "live"
                      /\ status[running[n].key] = "live"
    BY DEF RunSafe
  <2>1. n \in 1 .. Len(running)  BY <1>1 DEF Custody, Running
  <2>2. status[running[n].callback] = "live" /\ status[running[n].key] = "live"
    BY <1>1, <2>1 DEF Custody, Running
  <2>3. ASSUME NEW e \in 1 .. n, running[n].thread = Thread(running[e].callback)
        PROVE  status[running[n].thread] = "live"
    <3>1. e \in 1 .. Len(running)
      BY <2>1
    <3>2. running[e].callback \in Callbacks /\ status[running[e].callback] = "live"
      BY <1>1, <3>1, RunningFrames DEF Custody, Running
    <3>3. HasEntries(running[e].callback)  BY <1>1, <3>2 DEF Custody, Owned
    <3>4. /\ refs[running[e].callback][1] \in Slots
          /\ registry[refs[running[e].callback][1]] = Thread(running[e].callback)
          /\ Thread(running[e].callback) # Nil
      BY <3>2, <3>3, PartNames DEF HasEntries
    <3>5. QED BY <1>1, <2>3, <3>4 DEF Custody, Alive
  <2>4. QED BY <1>1, <2>1, <2>2, <2>3 DEF Custody, Running
<1>2. QED BY <1>1, CustodyAlways, PTL

(***************************************************************************)
(* Every entry of the registry that is in use has one owner, unless a      *)
(* constructor that failed has left it behind.                             *)
(***************************************************************************)
THEOREM SlotsOwnedAlways == Spec => []SlotsOwned
<1>1. ASSUME Custody PROVE SlotsOwned
  <2> SUFFICES ASSUME NEW i \in Slots
               PROVE  LET owners == {c \in Callbacks : i \in ToSet(refs[c])}
                      IN IF registry[i] = Nil \/ i \in leaked THEN owners = {}
                         ELSE Cardinality(owners) = 1
    BY DEF SlotsOwned
  <2> DEFINE owners == {c \in Callbacks : i \in ToSet(refs[c])}
  <2>1. ASSUME NEW c \in owners
        PROVE  /\ refs[c] # <<>> /\ HasEntries(c)
               /\ \E n \in 1 .. 3 : refs[c][n] = i
               /\ registry[i] # Nil /\ i \notin leaked
    <3>1. ToSet(<<>>) = {}  BY DEF ToSet
    <3>2. refs[c] # <<>>  BY <3>1
    <3>3. HasEntries(c)  BY <1>1, <3>2 DEF Custody, Owned
    <3>4. PICK n \in 1 .. 3 : refs[c][n] = i  BY <3>3 DEF HasEntries, ToSet
    <3>5. registry[refs[c][1]] # Nil /\ registry[refs[c][2]] # Nil /\ registry[refs[c][3]] # Nil
      BY <3>3, PartNames, Distinct DEF HasEntries
    <3>6. QED BY <3>2, <3>3, <3>4, <3>5 DEF HasEntries
  <2>2. CASE registry[i] = Nil \/ i \in leaked
    <3>1. owners = {}  BY <2>1, <2>2
    <3>2. QED BY <2>2, <3>1
  <2>3. CASE ~(registry[i] = Nil \/ i \in leaked)
    <3>1. PICK c \in Callbacks : refs[c] # <<>> /\ \E n \in 1 .. 3 : refs[c][n] = i
      BY <1>1, <2>3 DEF Custody, Accounted
    <3>2. HasEntries(c)  BY <1>1, <3>1 DEF Custody, Owned
    <3>3. c \in owners  BY <3>1, <3>2 DEF HasEntries, ToSet
    <3>4. \A d \in owners : d = c
      <4> SUFFICES ASSUME NEW d \in owners PROVE d = c  OBVIOUS
      <4>1. refs[d] # <<>> /\ \E n \in 1 .. 3 : refs[d][n] = i  BY <2>1
      <4>2. d \in Callbacks  OBVIOUS
      <4> HIDE DEF owners
      <4>3. QED BY <1>1, <3>1, <4>1, <4>2 DEF Custody, Separate
    <3>5. owners = {c}
      <4> HIDE DEF owners
      <4>1. QED BY <3>3, <3>4
    <3>6. Cardinality({c}) = 1  BY FS_Singleton
    <3>7. QED
      <4>1. Cardinality(owners) = 1  BY <3>5, <3>6, Zenon
      <4>2. QED BY <2>3, <4>1, Zenon
  <2>4. QED BY <2>2, <2>3
<1>2. QED BY <1>1, CustodyAlways, PTL
=============================================================================
