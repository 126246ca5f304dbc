----------------------------- MODULE BindProofs -----------------------------
(***************************************************************************)
(* Proofs about Bind: the tests of thread and atomic_count for any number  *)
(* of threads and increments, the message of system_error for any form of  *)
(* strerror_r and any number of rounds of the search, the checks of        *)
(* integers for every width of lua_Integer, every bounds and every input,  *)
(* and what a caller of the other functions receives for every input.      *)
(***************************************************************************)
EXTENDS Bind, Sequences, FiniteSetTheorems, SequenceTheorems, TLAPS

(***************************************************************************)
(* Workers: a thread that runs can still be joined.                        *)
(***************************************************************************)
Started(w) == step[w] \notin {"none", "ended"}

\* The threads that main has created and not joined yet.
Expected ==
  IF main = "create" THEN 1 .. next - 1
  ELSE IF main = "join" THEN next .. Threads
  ELSE {}

Joins ==
  /\ next \in W!Ids
  /\ DOMAIN step = W!Ids
  /\ main \in {"create", "join", "read", "done", "raised", "terminated"}
  /\ main # "terminated" => joinable = Expected
  /\ main = "create" => \A w \in W!Ids : w >= next => step[w] = "none"
  /\ main # "terminated" => \A w \in W!Ids : Started(w) => w \in joinable

(***************************************************************************)
(* Strerror: whichever way the search goes, errno_saver knows the errno of *)
(* the caller; there is a buffer only during the search, and a message     *)
(* from its end on.                                                        *)
(***************************************************************************)
Searching == {"grow", "format", "free", "leave"}

Searches ==
  /\ at \in Searching \union {"idle", "said", "thrown"}
  /\ at \in Searching => saved = entry
  /\ at \in {"idle", "leave", "said"} => buffer = 0
  /\ at \in {"leave", "said"} => what # ""
  /\ at \in {"said", "thrown"} => errno = entry
-----------------------------------------------------------------------------
LEMMA InitBoth == BindInit => Joins /\ Searches
<1> SUFFICES ASSUME BindInit PROVE Joins /\ Searches
  OBVIOUS
<1>1. WorkersRest \/ W!Init
  BY DEF BindInit
<1>2. StrerrorRests \/ E!Init
  BY DEF BindInit
<1>3. /\ next = 1 /\ main = "create" /\ joinable = {}
      /\ step = [w \in W!Ids |-> "none"]
  BY <1>1 DEF WorkersRest, W!Init
<1>4. Joins
  BY <1>3, BindAssumption DEF Joins, W!Ids, Started, Expected
<1>5. at = "idle" /\ buffer = 0
  BY <1>2 DEF StrerrorRests, E!Init
<1>6. Searches
  BY <1>5 DEF Searches, Searching
<1>7. QED
  BY <1>4, <1>6

LEMMA MainJoins ==
  ASSUME Joins, W!Main
  PROVE  Joins'
<1> USE BindAssumption DEF Joins, Started, Expected, W!Ids
<1>1. CASE W!Create
  BY <1>1 DEF W!Create
<1>2. CASE W!CreateFails
  BY <1>2 DEF W!CreateFails
<1>3. CASE W!Join
  BY <1>3 DEF W!Join
<1>4. CASE W!Read
  BY <1>4 DEF W!Read
<1>5. QED
  BY <1>1, <1>2, <1>3, <1>4 DEF W!Main

LEMMA ThreadJoins ==
  ASSUME Joins, NEW w \in W!Ids, W!Thread(w)
  PROVE  Joins'
<1>1. PICK to \in {"begin", "load", "add", "unlock", "ended"} :
        /\ main # "terminated" /\ Started(w)
        /\ step' = [step EXCEPT ![w] = to]
        /\ UNCHANGED <<main, next, joinable>>
  BY DEF W!Thread, W!Store, W!Lock, W!Load, W!Add, W!Unlock, W!End, W!Goto,
         Started
<1>2. QED
  BY <1>1, BindAssumption DEF Joins, Started, Expected, W!Ids

LEMMA StepSearches ==
  ASSUME Searches, E!Step \/ E!Again
  PROVE  Searches'
<1> USE DEF Searches, Searching
<1>1. CASE E!Enter
  BY <1>1 DEF E!Enter
<1>2. CASE E!Grow
  BY <1>2 DEF E!Grow
<1>3. CASE E!Format
  BY <1>3 DEF E!Format
<1>4. CASE E!FormatThrows
  BY <1>4 DEF E!FormatThrows
<1>5. CASE E!FormatFails
  BY <1>5 DEF E!FormatFails, E!EINVAL, E!ERANGE
<1>6. CASE E!Free
  BY <1>6 DEF E!Free
<1>7. CASE E!Leave
  BY <1>7 DEF E!Leave
<1>8. CASE E!Again
  BY <1>8 DEF E!Again
<1>9. QED
  BY <1>1, <1>2, <1>3, <1>4, <1>5, <1>6, <1>7, <1>8 DEF E!Step

\* A part at rest keeps what holds of it.
LEMMA StepBoth == Joins /\ Searches /\ [BindNext]_BindVars => Joins' /\ Searches'
<1> SUFFICES ASSUME Joins, Searches, [BindNext]_BindVars
             PROVE  Joins' /\ Searches'
  OBVIOUS
<1>1. UNCHANGED workersVars => Joins'
  BY DEF workersVars, Joins, Started, Expected
<1>2. UNCHANGED strerrorVars => Searches'
  BY DEF strerrorVars, Searches
<1>3. \/ UNCHANGED workersVars \/ W!Main \/ \E w \in W!Ids : W!Thread(w)
  BY DEF BindNext, BindVars, Ranges, Closures, Main, Thread, Message, AskAgain,
         Over
<1>4. UNCHANGED strerrorVars \/ E!Step \/ E!Again
  BY DEF BindNext, BindVars, Ranges, Closures, Main, Thread, Message, AskAgain,
         Over
<1>5. QED
  BY <1>1, <1>2, <1>3, <1>4, MainJoins, ThreadJoins, StepSearches

LEMMA BothAlways == BindSpec => [](Joins /\ Searches)
BY InitBoth, StepBoth, PTL DEF BindSpec
-----------------------------------------------------------------------------
(***************************************************************************)
(* However many threads a test creates, and whichever of them cannot be    *)
(* created: the frame they share is left only when none of them runs.      *)
(***************************************************************************)
THEOREM FrameOutlivesThreadsAlways == BindSpec => []FrameOutlivesThreads
<1>1. Joins => FrameOutlivesThreads
  BY DEF Joins, Started, Expected, FrameOutlivesThreads, W!FrameOutlivesThreads
<1>2. QED
  BY <1>1, BothAlways, PTL

(***************************************************************************)
(* For every form of strerror_r, every length of a message and every       *)
(* failure of realloc, in the first call of what() and in later ones:      *)
(* there is a message, no buffer is left, and errno is untouched.          *)
(***************************************************************************)
THEOREM DescribedAlways == BindSpec => []Described
<1>1. Searches => Described
  BY DEF Searches, Searching, Described, E!Described
<1>2. QED
  BY <1>1, BothAlways, PTL
-----------------------------------------------------------------------------
(***************************************************************************)
(* Increments: those made, in the order in which a thread makes its own.   *)
(* Their number is the count, since the thread that is about to store one  *)
(* has the mutex and has read the count.                                   *)
(***************************************************************************)
Inside == {"load", "add", "unlock"}

Increments == {p \in W!Ids \X (1 .. Rounds) :
  p[2] <= round[p[1]] + (IF step[p[1]] = "unlock" THEN 1 ELSE 0)}

Counts ==
  /\ test \in {"atomic", "thread"}
  /\ next \in W!Ids
  /\ step \in [W!Ids -> Inside \union {"none", "begin", "ended"}]
  /\ round \in [W!Ids -> 0 .. Rounds]
  /\ register \in [W!Ids -> Int] /\ DOMAIN v = W!Ids
  /\ count \in Int
  /\ main = "create" => \A w \in W!Ids : w >= next => step[w] = "none"
  /\ \A w \in W!Ids : step[w] \in Inside => owner = w /\ round[w] < Rounds
  /\ \A w \in W!Ids : step[w] = "add" => register[w] = count
  /\ test = "atomic" =>
       count = Cardinality(Increments) - (IF main = "done" THEN 1 ELSE 0)

\* What a thread leaves when it ends, and who has ended when main reads.
Finishes ==
  /\ \A w \in W!Ids : step[w] = "ended" =>
       IF test = "atomic" THEN round[w] = Rounds ELSE v[w] = w
  /\ main = "join" => \A w \in 1 .. next - 1 : step[w] = "ended"
  /\ main \in {"read", "done"} => \A w \in W!Ids : step[w] = "ended"
-----------------------------------------------------------------------------
LEMMA IncrementsFinite ==
  /\ IsFiniteSet(W!Ids \X (1 .. Rounds))
  /\ Cardinality(W!Ids \X (1 .. Rounds)) = Threads * Rounds
<1>1. IsFiniteSet(W!Ids) /\ Cardinality(W!Ids) = Threads
  BY FS_Interval, BindAssumption DEF W!Ids
<1>2. IsFiniteSet(1 .. Rounds) /\ Cardinality(1 .. Rounds) = Rounds
  BY FS_Interval, BindAssumption
<1>3. QED BY <1>1, <1>2, FS_Product

LEMMA IncrementsCount == IsFiniteSet(Increments) /\ Cardinality(Increments) \in Int
<1>1. IsFiniteSet(Increments)
  BY IncrementsFinite, FS_Subset DEF Increments
<1>2. QED
  BY <1>1, FS_CardinalityType

LEMMA InitCounts == BindInit => Counts /\ Finishes
<1> SUFFICES ASSUME BindInit PROVE Counts /\ Finishes
  OBVIOUS
<1>1. WorkersRest \/ W!Init
  BY DEF BindInit
<1>2. /\ test \in {"atomic", "thread"} /\ main = "create" /\ next = 1
      /\ step = [w \in W!Ids |-> "none"] /\ register = [w \in W!Ids |-> 0]
      /\ round = [w \in W!Ids |-> 0] /\ count = 0 /\ v = [w \in W!Ids |-> 0]
  BY <1>1 DEF WorkersRest, W!Init
<1>3. Increments = {}
  <2>1. \A p \in W!Ids \X (1 .. Rounds) : p[1] \in W!Ids /\ p[2] \in 1 .. Rounds
    OBVIOUS
  <2>2. \A w \in W!Ids : round[w] = 0 /\ step[w] = "none"
    BY <1>2
  <2>3. QED BY <2>1, <2>2 DEF Increments
<1>4. Cardinality(Increments) = 0
  BY <1>3, FS_EmptySet
<1>5. Counts
  BY <1>2, <1>4, BindAssumption DEF Counts, Inside, W!Ids
<1>6. QED
  BY <1>2, <1>5 DEF Finishes

LEMMA MainCounts ==
  ASSUME Counts, Finishes, W!Main
  PROVE  Counts' /\ Finishes'
<1>1. CASE W!Create
  <2>1. /\ step' = [step EXCEPT ![next] = "begin"] /\ main = "create"
        /\ main' = IF next = Threads THEN "join" ELSE "create"
        /\ next' = IF next = Threads THEN 1 ELSE next + 1
        /\ UNCHANGED <<test, register, round, owner, count, v>>
    BY <1>1 DEF W!Create
  <2>2. step[next] = "none" /\ next \in 1 .. Threads
    BY <2>1, BindAssumption DEF Counts, W!Ids
  <2>3. Increments' = Increments
    BY <2>1, <2>2 DEF Increments, Counts
  <2>4. main' # "done" /\ main # "done"
    BY <2>1
  <2>5. Counts'
    <3> HIDE DEF Increments
    <3>1. QED BY <2>1, <2>2, <2>3, <2>4, BindAssumption DEF Counts, Inside, W!Ids
  <2>6. QED
    BY <2>1, <2>2, <2>5, BindAssumption DEF Counts, Finishes, W!Ids
<1>2. CASE W!CreateFails
  BY <1>2 DEF W!CreateFails, Counts, Finishes, Increments
<1>3. CASE W!Join
  BY <1>3, BindAssumption DEF W!Join, Counts, Finishes, Increments, W!Ids
<1>4. CASE W!Read
  <2>1. /\ main = "read" /\ main' = "done"
        /\ count' = IF test = "atomic" THEN count - 1 ELSE count
        /\ UNCHANGED <<test, next, step, register, round, owner, v>>
    BY <1>4 DEF W!Read
  <2>2. \A w \in W!Ids : step[w] = "ended"
    BY <2>1 DEF Finishes
  <2>3. Increments' = Increments
    BY <2>1 DEF Increments
  <2>4. Cardinality(Increments) \in Int
    BY IncrementsCount
  <2>5. Counts'
    <3> HIDE DEF Increments
    <3>1. QED BY <2>1, <2>2, <2>3, <2>4 DEF Counts, Inside
  <2>6. QED
    BY <2>1, <2>2, <2>5 DEF Finishes
<1>5. QED
  BY <1>1, <1>2, <1>3, <1>4 DEF W!Main

LEMMA ThreadCounts ==
  ASSUME Counts, Finishes, NEW w \in W!Ids, W!Thread(w)
  PROVE  Counts' /\ Finishes'
<1>1. CASE W!Store(w)
  BY <1>1 DEF W!Store, W!Goto, Counts, Finishes, Inside
<1>2. CASE W!Lock(w)
  <2>1. Increments' = Increments
    BY <1>2 DEF W!Lock, W!Goto, Increments, Counts
  <2>2. /\ main # "terminated" /\ step[w] = "begin" /\ round[w] < Rounds
        /\ step' = [step EXCEPT ![w] = "load"] /\ owner = 0 /\ owner' = w
        /\ UNCHANGED <<test, main, next, register, round, count, v>>
    BY <1>2 DEF W!Lock, W!Goto
  <2>3. \A u \in W!Ids : step[u] \notin Inside
    BY <2>2, BindAssumption DEF Counts, W!Ids
  <2>4. main = "create" => w < next
    BY <2>2, BindAssumption DEF Counts, W!Ids
  <2>5. Counts'
    <3> HIDE DEF Increments
    <3>1. QED BY <2>1, <2>2, <2>3, <2>4 DEF Counts, Inside, W!Ids
  <2>6. QED
    BY <2>2, <2>5 DEF Finishes, Counts
<1>3. CASE W!Load(w)
  <2>1. Increments' = Increments
    BY <1>3 DEF W!Load, W!Goto, Increments, Counts
  <2>2. QED
    BY <1>3, <2>1 DEF W!Load, W!Goto, Counts, Finishes, Inside
<1>4. CASE W!Add(w)
  <2>1. /\ main # "terminated" /\ step[w] = "add"
        /\ step' = [step EXCEPT ![w] = "unlock"]
        /\ count' = register[w] + 1 /\ register[w] = count
        /\ UNCHANGED <<test, main, next, register, round, owner, v>>
    BY <1>4 DEF W!Add, W!Goto, Counts
  <2>2. round[w] + 1 \in 1 .. Rounds
    BY <2>1, BindAssumption DEF Counts, Inside
  <2>3. Increments' = Increments \union {<<w, round[w] + 1>>}
    <3>1. ASSUME NEW p \in W!Ids \X (1 .. Rounds)
          PROVE  p \in Increments' <=> p \in Increments \/ p = <<w, round[w] + 1>>
      <4>1. p = <<p[1], p[2]>> /\ p[1] \in W!Ids /\ p[2] \in 1 .. Rounds
        OBVIOUS
      <4>2. round[p[1]] \in 0 .. Rounds
        BY <4>1 DEF Counts
      <4>3. p \in Increments' <=>
              p[2] <= round[p[1]] + (IF step'[p[1]] = "unlock" THEN 1 ELSE 0)
        BY <2>1 DEF Increments
      <4>4. p \in Increments <=>
              p[2] <= round[p[1]] + (IF step[p[1]] = "unlock" THEN 1 ELSE 0)
        BY DEF Increments
      <4>5. CASE p[1] = w
        <5>1. step'[p[1]] = "unlock" /\ step[p[1]] = "add"
          BY <2>1, <4>5 DEF Counts
        <5>2. p = <<w, round[w] + 1>> <=> p[2] = round[w] + 1
          BY <4>1, <4>5
        <5>3. QED BY <4>1, <4>2, <4>3, <4>4, <4>5, <5>1, <5>2, BindAssumption
      <4>6. CASE p[1] # w
        BY <2>1, <4>1, <4>3, <4>4, <4>6 DEF Counts
      <4>7. QED BY <4>5, <4>6
    <3>2. <<w, round[w] + 1>> \in W!Ids \X (1 .. Rounds)
      BY <2>2
    <3>3. Increments \subseteq W!Ids \X (1 .. Rounds)
          /\ Increments' \subseteq W!Ids \X (1 .. Rounds)
      BY DEF Increments
    <3>4. QED BY <3>1, <3>2, <3>3, Zenon
  <2>4. <<w, round[w] + 1>> \notin Increments
    BY <2>1 DEF Increments, Counts
  <2>5. Cardinality(Increments') = Cardinality(Increments) + 1
    BY <2>3, <2>4, IncrementsCount, FS_AddElement
  <2>6. main # "done"
    BY <2>1 DEF Finishes
  <2>7. Cardinality(Increments) \in Int
    BY IncrementsCount
  <2>8. test' = "atomic" => count' = Cardinality(Increments')
    BY <2>1, <2>5, <2>6, <2>7 DEF Counts
  <2>9. Counts'
    <3> HIDE DEF Increments
    <3>1. QED BY <2>1, <2>6, <2>8 DEF Counts, Inside
  <2>10. QED
    BY <2>1, <2>9 DEF Counts, Finishes
<1>5. CASE W!Unlock(w)
  <2>1. /\ step[w] = "unlock" /\ step' = [step EXCEPT ![w] = "begin"]
        /\ round' = [round EXCEPT ![w] = @ + 1]
        /\ UNCHANGED <<test, main, next, register, count, v>>
    BY <1>5 DEF W!Unlock, W!Goto
  <2>2. Increments' = Increments
    BY <2>1 DEF Increments, Counts
  <2>3. round' \in [W!Ids -> 0 .. Rounds]
    BY <2>1, BindAssumption DEF Counts, Inside
  <2>4. QED
    BY <2>1, <2>2, <2>3 DEF Counts, Finishes, Inside
<1>6. CASE W!End(w)
  <2>1. Increments' = Increments
    BY <1>6 DEF W!End, W!Goto, Increments, Counts
  <2>2. QED
    BY <1>6, <2>1 DEF W!End, W!Goto, Counts, Finishes, Inside
<1>7. QED
  BY <1>1, <1>2, <1>3, <1>4, <1>5, <1>6 DEF W!Thread

LEMMA StepCounts ==
  Counts /\ Finishes /\ [BindNext]_BindVars => Counts' /\ Finishes'
<1> SUFFICES ASSUME Counts, Finishes, [BindNext]_BindVars
             PROVE  Counts' /\ Finishes'
  OBVIOUS
<1>1. UNCHANGED workersVars => Counts' /\ Finishes'
  BY DEF workersVars, Counts, Finishes, Increments
<1>2. \/ UNCHANGED workersVars \/ W!Main \/ \E w \in W!Ids : W!Thread(w)
  BY DEF BindNext, BindVars, Ranges, Closures, Main, Thread, Message, AskAgain,
         Over
<1>3. QED
  BY <1>1, <1>2, MainCounts, ThreadCounts

(***************************************************************************)
(* However many threads a test has, and however often each increments the  *)
(* counter: none of the increments is lost, nor is an assignment.          *)
(***************************************************************************)
THEOREM NothingLostAlways == BindSpec => []NothingLost
<1>1. ASSUME Counts, Finishes, main = "done", test = "atomic"
      PROVE  count = Threads * Rounds - 1
  <2>1. \A w \in W!Ids : step[w] = "ended" /\ round[w] = Rounds
    BY <1>1 DEF Finishes
  <2>2. Increments = W!Ids \X (1 .. Rounds)
    <3>1. \A p \in W!Ids \X (1 .. Rounds) :
            p[1] \in W!Ids /\ p[2] \in Int /\ p[2] <= Rounds
      BY BindAssumption
    <3>2. QED BY <2>1, <3>1, BindAssumption DEF Increments
  <2>3. QED BY <1>1, <2>2, IncrementsFinite DEF Counts
<1>2. Counts /\ Finishes => NothingLost
  BY <1>1 DEF Counts, Finishes, NothingLost, W!NothingLost
<1>3. QED
  BY <1>2, InitCounts, StepCounts, PTL DEF BindSpec
-----------------------------------------------------------------------------
(***************************************************************************)
(* Closure: what a check of an integer lets through.  The eight functions  *)
(* read the number, push it and return, so the proof follows the machine   *)
(* through three statements.                                               *)
(***************************************************************************)
LEMMA CheckPrograms ==
  \A f \in C!Checks :
    /\ C!Program(f)[2] = C!PushLocal
    /\ C!Program(f)[3] = C!Void
<1> SUFFICES ASSUME NEW f \in C!Checks
             PROVE  /\ C!Program(f)[2] = C!PushLocal
                    /\ C!Program(f)[3] = C!Void
  OBVIOUS
<1>1. f \in DOMAIN C!UtilPrograms
  BY DEF C!Checks, C!UtilPrograms
<1>2. C!Program(f) = C!UtilPrograms[f]
  BY <1>1 DEF C!Program
<1>3. /\ C!UtilPrograms[f][2] = C!PushLocal
      /\ C!UtilPrograms[f][3] = C!Void
  BY <1>1 DEF C!Checks, C!UtilPrograms
<1>4. QED
  BY <1>2, <1>3

LEMMA Firsts ==
  /\ \A f \in {"check_int16", "check_uint16", "check_int_range"} :
       C!Program(f)[1] = C!Check(C!Bounds(f))
  /\ \A f \in {"opt_int16", "opt_uint16", "opt_int_range"} :
       C!Program(f)[1] = C!Opt(Default, C!Bounds(f))
  /\ C!Program("check_int_field")[1]
       = C!CheckField(C!Str("nice"), C!Bounds("check_int_field"))
  /\ C!Program("opt_int32_field")[1]
       = C!OptField(C!Str("tv_nsec"), 0, C!Bounds("opt_int32_field"))
<1>1. \A f \in C!Checks : f \in DOMAIN C!UtilPrograms
  BY DEF C!Checks, C!UtilPrograms
<1>2. \A f \in C!Checks : C!Program(f) = C!UtilPrograms[f]
  BY <1>1 DEF C!Program
<1>3. QED
  BY <1>2 DEF C!UtilPrograms, C!Bounds, C!Checks

LEMMA EffectCheck ==
  \A t : C!Effect(C!Check(t)) = C!luaX_check_integer(m, lua, 1, t)
BY DEF C!Effect, C!Check

LEMMA EffectOpt ==
  \A d, t : C!Effect(C!Opt(d, t)) = C!luaX_opt_integer(m, lua, 1, d, t)
BY DEF C!Effect, C!Opt

LEMMA EffectCheckField ==
  \A k, t : C!Effect(C!CheckField(k, t))
              = C!luaX_check_integer_field(m, lua, 1, k, t)
BY DEF C!Effect, C!CheckField

LEMMA EffectOptField ==
  \A k, d, t : C!Effect(C!OptField(k, d, t))
                 = C!luaX_opt_integer_field(m, lua, 1, k, d, t)
BY DEF C!Effect, C!OptField

LEMMA EffectPush ==
  C!Effect(C!PushLocal) = {C!luaX_push(m, <<C!Integer(m.local)>>)}
BY DEF C!Effect, C!PushLocal

(***************************************************************************)
(* The numbers.  A number that fits one of the types is not what a         *)
(* conversion of a double that does not fit can give.                      *)
(***************************************************************************)
LEMMA BoundsInside ==
  \A f : /\ C!Bounds(f).low \in Int /\ C!Bounds(f).high \in Int
         /\ -Huge - 1 < C!Bounds(f).low /\ C!Bounds(f).high < Huge
BY TypesAssumption DEF C!Bounds

LEMMA CheckedSame ==
  ASSUME lua \in {"integer", "double"}, NEW x, x.n \in Int, x # C!Nil,
         NEW n \in C!CheckInteger(lua, x),
         C!luaX_integer_traits(n, C!Bounds(fn))
  PROVE  /\ n \in C!Bounds(fn).low .. C!Bounds(fn).high
         /\ C!Same(n, x)
<1>1. C!Whole(x.n) \in Int
  BY DEF C!Whole
<1>2. Huge \in Int
  BY OptRangeAssumption
<1>3. n \in Int
  BY <1>1, <1>2 DEF C!CheckInteger, C!Cast
<1>4. n \in C!Bounds(fn).low .. C!Bounds(fn).high
  BY <1>3, BoundsInside DEF C!luaX_integer_traits
<1>5. n # -Huge - 1 /\ n # Huge
  BY <1>2, <1>4, BoundsInside
<1>6. CASE x.type \in {"integer", "digits"}
  BY <1>4, <1>6 DEF C!CheckInteger, C!Same
<1>7. CASE x.type = "double" /\ lua = "integer"
  BY <1>4, <1>7 DEF C!CheckInteger, C!Same
<1>8. CASE x.type \in {"double", "infinity"} /\ lua = "double"
  <2>1. n \in C!Cast(x)
    BY <1>8 DEF C!CheckInteger
  <2>2. x.type # "infinity" /\ n = C!Whole(x.n)
    BY <1>5, <2>1 DEF C!Cast
  <2>3. QED
    BY <1>4, <1>8, <2>2 DEF C!Same
<1>9. QED
  BY <1>4, <1>6, <1>7, <1>8 DEF C!CheckInteger

LEMMA NilType == C!Nil.type = "nil"
BY DEF C!Nil, C!Value

\* lua_tointeger answers 0 for a number luaL_checkinteger refuses.
LEMMA ReadSame ==
  ASSUME lua \in {"integer", "double"}, C!IsField(fn), NEW x, x.n \in Int,
         C!IsNumber(x), NEW n \in C!ToInteger(lua, x),
         C!luaX_integer_traits(n, C!Bounds(fn))
  PROVE  /\ n \in C!Bounds(fn).low .. C!Bounds(fn).high
         /\ C!Same(n, x)
<1>1. x # C!Nil
  BY NilType DEF C!IsNumber
<1>2. CASE C!CheckInteger(lua, x) # {}
  BY <1>1, <1>2, CheckedSame DEF C!ToInteger
<1>3. CASE C!CheckInteger(lua, x) = {}
  <2>1. n = 0
    BY <1>3 DEF C!ToInteger
  <2>2. n \in C!Bounds(fn).low .. C!Bounds(fn).high
    BY <2>1, BoundsInside DEF C!luaX_integer_traits
  <2>3. Huge \in Int
    BY OptRangeAssumption
  <2>4. C!Cast(x) # {}
    BY DEF C!Cast
  <2>5. lua = "integer" /\ x.type \in {"double", "infinity"}
    BY <1>3, <2>4 DEF C!CheckInteger, C!IsNumber
  <2>6. C!Same(n, x)
    BY <1>1, <2>1, <2>5 DEF C!Same
  <2>7. QED
    BY <2>2, <2>6
<1>4. QED
  BY <1>2, <1>3

(***************************************************************************)
(* The machine.                                                            *)
(***************************************************************************)
Shaped(k) == DOMAIN k = {"stack", "heap", "meta", "registry", "local", "error"}

LEMMA Joined == \A x, y : <<x>> \o <<y>> = <<x, y>>
<1> TAKE x, y
<1>1. <<x>> \in Seq({x, y}) /\ <<y>> \in Seq({x, y}) /\ <<x, y>> \in Seq({x, y})
  OBVIOUS
<1>2. /\ <<x>> \o <<y>> \in Seq({x, y}) /\ Len(<<x>> \o <<y>>) = 2
      /\ \A k \in 1 .. 2 : (<<x>> \o <<y>>)[k] = <<x, y>>[k]
  BY <1>1, ConcatProperties
<1>3. QED
  BY <1>1, <1>2, SeqEqual

LEMMA Cuts ==
  \A s, n, x : n \in Nat \ {0} /\ s[n] = x => SubSeq(s, n, n) = <<x>>
<1> TAKE s, n, x
<1> HAVE n \in Nat \ {0} /\ s[n] = x
<1>1. /\ SubSeq(s, n, n) \in Seq({x})
      /\ Len(SubSeq(s, n, n)) = 1
      /\ \A k \in 1 .. 1 : SubSeq(s, n, n)[k] = s[n + k - 1]
  BY SubSeqProperties
<1>2. <<x>> \in Seq({x}) /\ Len(<<x>>) = 1 /\ <<x>>[1] = x
  OBVIOUS
<1>3. \A k \in 1 .. 1 : SubSeq(s, n, n)[k] = <<x>>[k]
  BY <1>1, <1>2
<1>4. QED
  BY <1>1, <1>2, <1>3, SeqEqual

LEMMA Fitted ==
  \A k, ns, t, l : Shaped(k) /\ l \in C!Fit(k, ns, t) =>
    /\ Shaped(l) /\ l.stack = k.stack /\ l.heap = k.heap
    /\ \/ l.error # ""
       \/ /\ l.error = k.error /\ l.local \in ns
          /\ C!luaX_integer_traits(l.local, t)
BY DEF C!Fit, C!Raise, Shaped

(***************************************************************************)
(* Stacks of one and of two values.                                        *)
(***************************************************************************)
Empty == <<>>
Single(x) == <<x>>
Pair(x, y) == <<x, y>>
Stacked(k, s) == [k EXCEPT !.stack = s]

LEMMA StackedKeeps ==
  \A k, s : Shaped(k) =>
    /\ Shaped(Stacked(k, s)) /\ Stacked(k, s).stack = s
    /\ Stacked(k, s).heap = k.heap /\ Stacked(k, s).error = k.error
    /\ Stacked(k, s).local = k.local
BY DEF Shaped, Stacked

LEMMA Put == \A x, y, z : [<<x, y>> EXCEPT ![2] = z] = <<x, z>>
OBVIOUS

LEMMA Tuples ==
  /\ \A x : Single(x)[1] = x /\ Single(x) # Empty
BY DEF Single, Pair, Empty

LEMMA AbsIndex == \A k : C!luaX_abs_index(k, 1) = 1
BY DEF C!luaX_abs_index

LEMMA SingleOnTop ==
  \A k, x : k.stack = Single(x) => C!Top(k) = 1 /\ C!At(k, 1) = x /\ C!At(k, -1) = x
BY DEF C!At, C!Slot, C!Top, Single

LEMMA PairOnTop ==
  \A k, x, y : k.stack = Pair(x, y) =>
    C!Top(k) = 2 /\ C!At(k, 1) = x /\ C!At(k, -1) = y
BY DEF C!At, C!Slot, C!Top, Pair

LEMMA PopSingle ==
  \A k, x : k.stack = Single(x) => C!Pop(k, 1) = Stacked(k, Empty)
<1> SUFFICES ASSUME NEW k, NEW x, k.stack = Single(x)
             PROVE  C!Pop(k, 1) = Stacked(k, Empty)
  OBVIOUS
<1>1. C!Top(k) - 1 = 0
  BY SingleOnTop
<1>2. C!Pop(k, 1) = Stacked(k, SubSeq(k.stack, 1, 0))
  BY <1>1 DEF C!Pop, C!SetTop, Stacked
<1>3. SubSeq(k.stack, 1, 0) = Empty
  BY SubSeqEmpty DEF Empty
<1>4. QED
  BY <1>2, <1>3

LEMMA PopPair ==
  \A k, x, y : k.stack = Pair(x, y) => C!Pop(k, 1) = Stacked(k, Single(x))
<1> SUFFICES ASSUME NEW k, NEW x, NEW y, k.stack = Pair(x, y)
             PROVE  C!Pop(k, 1) = Stacked(k, Single(x))
  OBVIOUS
<1>1. C!Top(k) - 1 = 1
  BY PairOnTop
<1>2. C!Pop(k, 1) = Stacked(k, SubSeq(k.stack, 1, 1))
  BY <1>1 DEF C!Pop, C!SetTop, Stacked
<1>3. k.stack[1] = x
  BY DEF Pair
<1>4. SubSeq(k.stack, 1, 1) = Single(x)
  BY <1>3, Cuts DEF Single
<1>5. QED
  BY <1>2, <1>4

LEMMA PushOn ==
  /\ \A k, x : k.stack = Empty => C!luaX_push(k, Single(x)) = Stacked(k, Single(x))
  /\ \A k, x, y : k.stack = Single(y) =>
       C!luaX_push(k, Single(x)) = Stacked(k, Pair(y, x))
<1>1. \A k, vs : C!luaX_push(k, vs) = Stacked(k, k.stack \o vs)
  BY DEF C!luaX_push, Stacked
<1>2. \A x : Empty \o Single(x) = Single(x)
  BY DEF Empty, Single
<1>3. \A x, y : Single(y) \o Single(x) = Pair(y, x)
  BY Joined DEF Single, Pair
<1>4. QED
  BY <1>1, <1>2, <1>3

(***************************************************************************)
(* The field of an argument is pushed in place of its key.                 *)
(***************************************************************************)
FieldOf(x, heap, key) ==
  IF x.type = "table" THEN C!Get(heap[x.n], key) ELSE C!Nil

Scripted == args = Empty \/ \E x : args = Single(x)

Field(key) == IF args = Empty THEN C!Nil ELSE FieldOf(args[1], m.heap, key)

IsKey(key) == C!HasMethods(key) /\ key.type # "table"

LEMMA GetSingle ==
  \A k, key : k.stack = Single(key) /\ IsKey(key) =>
    C!GetTable(k, 1) = Stacked(k, Single(C!Nil))
<1> SUFFICES ASSUME NEW k, NEW key, k.stack = Single(key), IsKey(key)
             PROVE  C!GetTable(k, 1) = Stacked(k, Single(C!Nil))
  OBVIOUS
<1>1. [k.stack EXCEPT ![1] = C!Nil] = Single(C!Nil)
  BY DEF Single
<1>2. C!Top(k) = 1 /\ C!At(k, 1) = key
  BY SingleOnTop
<1>3. C!GetTable(k, 1) = [k EXCEPT !.stack = [@ EXCEPT ![1] = C!Nil]]
  BY <1>2 DEF C!GetTable, IsKey
<1>4. QED
  BY <1>1, <1>3 DEF Stacked

LEMMA GetPair ==
  \A k, x, key : k.stack = Pair(x, key) =>
    \/ C!GetTable(k, 1) = C!Raise(k, "attempt to index")
    \/ C!GetTable(k, 1) = Stacked(k, Pair(x, FieldOf(x, k.heap, key)))
<1> SUFFICES ASSUME NEW k, NEW x, NEW key, k.stack = Pair(x, key),
                    C!GetTable(k, 1) # C!Raise(k, "attempt to index")
             PROVE  C!GetTable(k, 1) = Stacked(k, Pair(x, FieldOf(x, k.heap, key)))
  OBVIOUS
<1> DEFINE field == FieldOf(x, k.heap, key)
<1>1. C!Top(k) = 2 /\ C!At(k, 1) = x /\ C!At(k, -1) = key
  BY PairOnTop
<1>2. C!GetTable(k, 1) = [k EXCEPT !.stack = [@ EXCEPT ![2] = field]]
  BY <1>1 DEF C!GetTable, FieldOf
<1> HIDE DEF field
<1>3. k.stack = <<x, key>>
  BY DEF Pair
<1>4. [<<x, key>> EXCEPT ![2] = field] = <<x, field>>
  BY Put
<1>5. C!GetTable(k, 1) = [k EXCEPT !.stack = <<x, field>>]
  BY <1>2, <1>3, <1>4
<1>6. QED
  BY <1>5 DEF field, Stacked, Pair

\* An index ends with an error, or leaves the field at the top.
Sound(got, heap, field) ==
  /\ Shaped(got) /\ got.heap = heap
  /\ \/ got.error # ""
     \/ /\ got.error = "" /\ C!At(got, -1) = field
        /\ C!Pop(got, 1) = Stacked(got, args)

LEMMA IndexedSingle ==
  ASSUME NEW p, Shaped(p), p.error = "", NEW key, IsKey(key),
         p.stack = Single(key), args = Empty
  PROVE  Sound(C!GetTable(p, 1), p.heap, C!Nil)
<1> DEFINE got == Stacked(p, Single(C!Nil))
<1>1. C!GetTable(p, 1) = got
  BY GetSingle
<1>2. /\ Shaped(got) /\ got.heap = p.heap /\ got.error = ""
      /\ got.stack = Single(C!Nil)
  BY StackedKeeps
<1> HIDE DEF got
<1>3. C!At(got, -1) = C!Nil /\ C!Pop(got, 1) = Stacked(got, args)
  BY <1>2, SingleOnTop, PopSingle
<1>4. QED
  BY <1>1, <1>2, <1>3 DEF Sound

LEMMA IndexedPair ==
  ASSUME NEW p, Shaped(p), p.error = "", NEW key, NEW x,
         p.stack = Pair(x, key), args = Single(x)
  PROVE  Sound(C!GetTable(p, 1), p.heap, FieldOf(x, p.heap, key))
<1> DEFINE field == FieldOf(x, p.heap, key)
           got == Stacked(p, Pair(x, field))
<1>1. CASE C!GetTable(p, 1) = C!Raise(p, "attempt to index")
  <2>1. /\ C!Raise(p, "attempt to index").error = "attempt to index"
        /\ C!Raise(p, "attempt to index").heap = p.heap
        /\ Shaped(C!Raise(p, "attempt to index"))
    BY DEF C!Raise, Shaped
  <2>2. QED
    BY <1>1, <2>1 DEF Sound
<1>2. CASE C!GetTable(p, 1) = got
  <2> HIDE DEF field
  <2>1. /\ Shaped(got) /\ got.heap = p.heap /\ got.error = ""
        /\ got.stack = Pair(x, field)
    BY StackedKeeps
  <2> HIDE DEF got
  <2>2. C!At(got, -1) = field /\ C!Pop(got, 1) = Stacked(got, args)
    BY <2>1, PairOnTop, PopPair
  <2>3. QED
    BY <1>2, <2>1, <2>2 DEF Sound, field
<1>3. QED
  BY <1>1, <1>2, GetPair

LEMMA FieldIndexed ==
  ASSUME Shaped(m), Scripted, m.stack = args, m.error = "", NEW key, IsKey(key)
  PROVE  Sound(C!GetTable(C!luaX_push(m, Single(key)), C!luaX_abs_index(m, 1)),
               m.heap, Field(key))
<1> DEFINE p == C!luaX_push(m, Single(key))
<1>1. C!luaX_abs_index(m, 1) = 1
  BY AbsIndex
<1>2. CASE args = Empty
  <2>1. p = Stacked(m, Single(key))
    BY <1>2, PushOn
  <2> HIDE DEF p
  <2>2. Shaped(p) /\ p.heap = m.heap /\ p.error = "" /\ p.stack = Single(key)
    BY <2>1, StackedKeeps
  <2>3. Sound(C!GetTable(p, 1), m.heap, C!Nil)
    BY <1>2, <2>2, IndexedSingle
  <2>4. QED
    BY <1>1, <1>2, <2>3 DEF Field, p
<1>3. CASE args # Empty
  <2>1. PICK x : args = Single(x)
    BY <1>3 DEF Scripted
  <2>2. p = Stacked(m, Pair(x, key))
    BY <2>1, PushOn
  <2> HIDE DEF p
  <2>3. Shaped(p) /\ p.heap = m.heap /\ p.error = "" /\ p.stack = Pair(x, key)
    BY <2>2, StackedKeeps
  <2>4. Sound(C!GetTable(p, 1), m.heap, FieldOf(x, m.heap, key))
    BY <2>1, <2>3, IndexedPair
  <2>5. FieldOf(x, m.heap, key) = Field(key)
    BY <1>3, <2>1, Tuples DEF Field
  <2>6. QED
    BY <1>1, <2>4, <2>5 DEF p
<1>4. QED
  BY <1>2, <1>3

(***************************************************************************)
(* The invariant.                                                          *)
(***************************************************************************)
Holds(x) == Single([key \in {C!Str("nice"), C!Str("tv_nsec")} |-> x])

\* What the script passes.
Handed ==
  \/ args = Empty
  \/ \E x \in C!Scalars :
       \/ args = Single(x)
       \/ args = Single(C!Table(1)) /\ m.heap = Holds(x)

Right(n) ==
  n \in C!Bounds(fn).low .. C!Bounds(fn).high /\ C!Same(n, C!Given)

Ready == m.stack = args /\ m.error = ""

Read == m.error = "" => m.stack = args /\ Right(m.local)

Answered ==
  /\ m.stack = args \o Single(C!Integer(m.local))
  /\ m.error = "" /\ Right(m.local)

Delivered == outcome = "values" => Len(values) = 1 /\ Right(values[1].n)

\* Nothing is handed back yet.
Blank == ""

\* Between two calls, and at the three statements of a check.
At(n) ==
  \/ n = 0 /\ Delivered
  \/ n = 1 /\ outcome = Blank /\ Ready
  \/ n = 2 /\ outcome = Blank /\ Read
  \/ n = 3 /\ outcome = Blank /\ Answered

Checking ==
  /\ lua \in {"integer", "double"}
  /\ fn \in C!Checks => Shaped(m) /\ Handed /\ At(pc)

LEMMA HandedScripted == Handed => Scripted
BY DEF Handed, Scripted

Name == IF fn = "check_int_field" THEN "nice" ELSE "tv_nsec"

LEMMA Keys == \A s : IsKey(C!Str(s))
BY DEF IsKey, C!HasMethods, C!Str, C!Value

LEMMA GivenField ==
  ASSUME Handed, C!IsField(fn)
  PROVE  C!Given = Field(C!Str(Name))
BY Tuples DEF C!Given, Field, FieldOf, C!Of, Name, Empty

LEMMA GivenArgument ==
  ASSUME ~ C!IsField(fn), Scripted, m.stack = args
  PROVE  C!Given = C!At(m, 1)
<1>1. CASE args = Empty
  BY <1>1 DEF C!Given, C!At, C!Slot, C!Top, Empty
<1>2. ASSUME NEW x, args = Single(x)
      PROVE  C!Given = C!At(m, 1)
  <2>1. C!At(m, 1) = x
    BY <1>2, SingleOnTop
  <2>2. C!Given = args[1]
    BY <1>2, Tuples DEF C!Given, Empty
  <2>3. QED
    BY <1>2, <2>1, <2>2, Tuples
<1>3. QED
  BY <1>1, <1>2 DEF Scripted

LEMMA NilTyped == C!Nil.n = 0
BY DEF C!Nil, C!Value

LEMMA GivenTyped ==
  ASSUME Handed
  PROVE  C!Given.n \in Int
<1>1. \A x \in C!Scalars : x.n \in Int /\ x.type # "table"
  BY InputsAssumption DEF C!Scalars
<1>2. CASE args = Empty
  BY <1>2, NilTyped DEF C!Given, Empty
<1>3. ASSUME NEW x \in C!Scalars, args = Single(x)
      PROVE  C!Given.n \in Int
  BY <1>1, <1>3, Tuples, NilTyped DEF C!Given, C!Of
<1>4. ASSUME NEW x \in C!Scalars, args = Single(C!Table(1)), m.heap = Holds(x)
      PROVE  C!Given.n \in Int
  <2>1. C!Table(1).type = "table" /\ C!Table(1).n = 1
    BY DEF C!Table, C!Value
  <2>2. args[1] = C!Table(1)
    BY <1>4, Tuples
  <2>3. m.heap[1] = [key \in {C!Str("nice"), C!Str("tv_nsec")} |-> x]
    BY <1>4, Tuples DEF Holds
  <2>4. C!Get(m.heap[1], C!Str("nice")) = x /\ C!Get(m.heap[1], C!Str("tv_nsec")) = x
    BY <2>3 DEF C!Get
  <2>5. C!Of(C!Table(1), "nice") = x /\ C!Of(C!Table(1), "tv_nsec") = x
    BY <2>1, <2>4 DEF C!Of
  <2>6. C!Given \in {C!Nil, x, C!Table(1)}
    BY <2>2, <2>5 DEF C!Given
  <2>7. QED
    BY <1>1, <2>1, <2>6, NilTyped
<1>5. QED
  BY <1>2, <1>3, <1>4 DEF Handed

\* What a check may leave: an error, or the number in the local variable.
Checked(l) ==
  /\ Shaped(l) /\ l.heap = m.heap
  /\ l.error = "" => l.stack = args /\ Right(l.local)

LEMMA RaiseChecked ==
  ASSUME NEW k, Shaped(k), k.heap = m.heap, NEW s, s # ""
  PROVE  Checked(C!Raise(k, s))
BY DEF C!Raise, Shaped, Checked

LEMMA FitChecked ==
  ASSUME NEW k, Shaped(k), k.heap = m.heap, k.stack = args, k.error = "",
         NEW ns,
         \A n \in ns : C!luaX_integer_traits(n, C!Bounds(fn)) => Right(n),
         NEW l \in C!Fit(k, ns, C!Bounds(fn))
  PROVE  Checked(l)
<1>1. /\ Shaped(l) /\ l.stack = k.stack /\ l.heap = k.heap
      /\ \/ l.error # ""
         \/ /\ l.error = k.error /\ l.local \in ns
            /\ C!luaX_integer_traits(l.local, C!Bounds(fn))
  BY Fitted
<1>2. QED
  BY <1>1 DEF Checked

LEMMA TraitsInside ==
  \A n \in Int : C!luaX_integer_traits(n, C!Bounds(fn)) =>
    n \in C!Bounds(fn).low .. C!Bounds(fn).high
BY BoundsInside DEF C!luaX_integer_traits

LEMMA ZeroInside ==
  C!luaX_integer_traits(0, C!Bounds(fn)) =>
    0 \in C!Bounds(fn).low .. C!Bounds(fn).high
BY BoundsInside DEF C!luaX_integer_traits

LEMMA NilRefused == C!CheckInteger(lua, C!Nil) = {}
BY NilType DEF C!CheckInteger

LEMMA CheckChecked ==
  ASSUME lua \in {"integer", "double"}, Shaped(m), Handed, m.stack = args,
         m.error = "", ~ C!IsField(fn),
         NEW l \in C!luaX_check_integer(m, lua, 1, C!Bounds(fn))
  PROVE  Checked(l)
<1> DEFINE ns == C!CheckInteger(lua, C!Given)
<1>1. C!At(m, 1) = C!Given
  BY GivenArgument, HandedScripted
<1>2. l \in IF ns = {} THEN {C!Raise(m, "number expected")}
            ELSE C!Fit(m, ns, C!Bounds(fn))
  BY <1>1 DEF C!luaX_check_integer
<1>3. CASE ns = {}
  BY <1>2, <1>3, RaiseChecked
<1>4. CASE ns # {}
  <2>1. \A n \in ns : C!luaX_integer_traits(n, C!Bounds(fn)) => Right(n)
    BY <1>4, CheckedSame, GivenTyped, NilRefused DEF Right
  <2>2. QED
    BY <1>2, <1>4, <2>1, FitChecked
<1>5. QED
  BY <1>3, <1>4

LEMMA OptChecked ==
  ASSUME lua \in {"integer", "double"}, Shaped(m), Handed, m.stack = args,
         m.error = "", ~ C!IsField(fn),
         NEW l \in C!luaX_opt_integer(m, lua, 1, Default, C!Bounds(fn))
  PROVE  Checked(l)
<1>1. C!At(m, 1) = C!Given
  BY GivenArgument, HandedScripted
<1>2. CASE C!Given = C!Nil
  <2>1. l \in C!Fit(m, {Default}, C!Bounds(fn))
    BY <1>1, <1>2 DEF C!luaX_opt_integer
  <2>2. C!Same(Default, C!Given)
    BY <1>2 DEF C!Same, C!IsField
  <2>3. C!luaX_integer_traits(Default, C!Bounds(fn)) => Right(Default)
    BY <2>2, TypesAssumption, TraitsInside DEF Right
  <2>4. QED
    BY <2>1, <2>3, FitChecked
<1>3. CASE C!Given # C!Nil
  <2>1. l \in C!luaX_check_integer(m, lua, 1, C!Bounds(fn))
    BY <1>1, <1>3 DEF C!luaX_opt_integer
  <2>2. QED
    BY <2>1, CheckChecked
<1>4. QED
  BY <1>2, <1>3

LEMMA CheckFieldChecked ==
  ASSUME lua \in {"integer", "double"}, Shaped(m), Handed, m.stack = args,
         m.error = "", C!IsField(fn),
         NEW l \in C!luaX_check_integer_field(m, lua, 1, C!Str(Name), C!Bounds(fn))
  PROVE  Checked(l)
<1> DEFINE key == C!Str(Name)
           got == C!GetTable(C!luaX_push(m, Single(key)), C!luaX_abs_index(m, 1))
           field == C!At(got, -1)
           popped == C!Pop(got, 1)
<1>1. Sound(got, m.heap, C!Given)
  BY FieldIndexed, HandedScripted, Keys, GivenField
<1>2. l \in IF got.error # "" THEN {got}
            ELSE IF C!IsNumber(field)
            THEN C!Fit(popped, C!ToInteger(lua, field), C!Bounds(fn))
            ELSE {C!luaX_field_error(popped, "not an integer")}
  BY DEF C!luaX_check_integer_field, Single
<1> HIDE DEF got
<1>3. CASE got.error # ""
  BY <1>1, <1>2, <1>3 DEF Sound, Checked
<1>4. CASE got.error = ""
  <2>1. field = C!Given /\ popped = Stacked(got, args)
    BY <1>1, <1>4 DEF Sound
  <2> HIDE DEF popped
  <2>2. Shaped(got) /\ got.heap = m.heap
    BY <1>1 DEF Sound
  <2>3. /\ Shaped(popped) /\ popped.heap = m.heap /\ popped.stack = args
        /\ popped.error = ""
    BY <1>4, <2>1, <2>2, StackedKeeps
  <2> HIDE DEF field
  <2>4. CASE C!IsNumber(C!Given)
    <3>1. \A n \in C!ToInteger(lua, C!Given) :
            C!luaX_integer_traits(n, C!Bounds(fn)) => Right(n)
      BY <2>4, ReadSame, GivenTyped DEF Right
    <3>2. l \in C!Fit(popped, C!ToInteger(lua, C!Given), C!Bounds(fn))
      BY <1>2, <1>4, <2>1, <2>4 DEF popped
    <3>3. QED
      BY <2>3, <3>1, <3>2, FitChecked
  <2>5. CASE ~ C!IsNumber(C!Given)
    <3>1. l = C!Raise(popped, "not an integer")
      BY <1>2, <1>4, <2>1, <2>5 DEF popped, C!luaX_field_error
    <3>2. QED
      BY <2>3, <3>1, RaiseChecked
  <2>6. QED
    BY <2>4, <2>5
<1>5. QED
  BY <1>3, <1>4

LEMMA OptFieldChecked ==
  ASSUME lua \in {"integer", "double"}, Shaped(m), Handed, m.stack = args,
         m.error = "", fn = "opt_int32_field",
         NEW l \in C!luaX_opt_integer_field(m, lua, 1, C!Str(Name), 0,
                                            C!Bounds(fn))
  PROVE  Checked(l)
<1> DEFINE key == C!Str(Name)
           got == C!GetTable(C!luaX_push(m, Single(key)), C!luaX_abs_index(m, 1))
           popped == C!Pop(got, 1)
<1>1. C!IsField(fn)
  BY DEF C!IsField
<1>2. Sound(got, m.heap, C!Given)
  BY <1>1, FieldIndexed, HandedScripted, Keys, GivenField
<1>3. l \in IF got.error = "" /\ C!At(got, -1) = C!Nil
            THEN C!Fit(popped, {0}, C!Bounds(fn))
            ELSE C!luaX_check_integer_field(m, lua, 1, key, C!Bounds(fn))
  BY DEF C!luaX_opt_integer_field, Single
<1> HIDE DEF got
<1>4. CASE got.error = "" /\ C!At(got, -1) = C!Nil
  <2>1. C!Given = C!Nil /\ popped = Stacked(got, args)
    BY <1>2, <1>4 DEF Sound
  <2>2. l \in C!Fit(popped, {0}, C!Bounds(fn))
    BY <1>3, <1>4
  <2> HIDE DEF popped
  <2>3. Shaped(got) /\ got.heap = m.heap
    BY <1>2 DEF Sound
  <2>4. /\ Shaped(popped) /\ popped.heap = m.heap /\ popped.stack = args
        /\ popped.error = ""
    BY <1>4, <2>1, <2>3, StackedKeeps
  <2>5. C!Same(0, C!Given)
    BY <2>1 DEF C!Same
  <2>6. C!luaX_integer_traits(0, C!Bounds(fn)) => Right(0)
    BY <2>5, ZeroInside DEF Right
  <2>7. QED
    BY <2>2, <2>4, <2>6, FitChecked
<1>5. CASE ~ (got.error = "" /\ C!At(got, -1) = C!Nil)
  BY <1>1, <1>3, <1>5, CheckFieldChecked
<1>6. QED
  BY <1>4, <1>5

(***************************************************************************)
(* The invariant is kept.                                                  *)
(***************************************************************************)
LEMMA Statements ==
  ASSUME fn \in C!Checks
  PROVE  /\ pc = 1 => C!Statement.do \in {"check", "opt", "check_field", "opt_field"}
         /\ pc = 2 => C!Statement = C!PushLocal
         /\ pc = 3 => C!Statement = C!Void
<1>1. pc = 2 => C!Statement = C!PushLocal
  BY CheckPrograms DEF C!Statement
<1>2. pc = 3 => C!Statement = C!Void
  BY CheckPrograms DEF C!Statement
<1>3. ASSUME pc = 1
      PROVE  C!Statement.do \in {"check", "opt", "check_field", "opt_field"}
  <2>1. C!Statement = C!Program(fn)[1]
    BY <1>3 DEF C!Statement
  <2>2. QED
    BY <2>1, Firsts DEF C!Checks, C!Check, C!Opt, C!CheckField, C!OptField
<1>4. QED
  BY <1>1, <1>2, <1>3

LEMMA AtEach ==
  /\ At(1) => outcome = Blank /\ Ready
  /\ At(2) => outcome = Blank /\ Read
  /\ At(3) => outcome = Blank /\ Answered
<1>1. ASSUME At(1) PROVE outcome = Blank /\ Ready
  BY <1>1 DEF At
<1>2. ASSUME At(2) PROVE outcome = Blank /\ Read
  BY <1>2 DEF At
<1>3. ASSUME At(3) PROVE outcome = Blank /\ Answered
  BY <1>3 DEF At
<1>4. QED
  BY <1>1, <1>2, <1>3

LEMMA Reads ==
  ASSUME Checking, fn \in C!Checks, pc = 1, NEW l \in C!Effect(C!Statement)
  PROVE  Checked(l)
<1>1. /\ lua \in {"integer", "double"} /\ Shaped(m) /\ Handed
      /\ m.stack = args /\ m.error = ""
  BY AtEach DEF Checking, Ready
<1>2. C!Statement = C!Program(fn)[1]
  BY DEF C!Statement
<1>3. CASE fn \in {"check_int16", "check_uint16", "check_int_range"}
  <2>1. l \in C!luaX_check_integer(m, lua, 1, C!Bounds(fn))
    BY <1>2, <1>3, Firsts, EffectCheck
  <2>2. ~ C!IsField(fn)
    BY <1>3 DEF C!IsField
  <2>3. QED
    BY <1>1, <2>1, <2>2, CheckChecked
<1>4. CASE fn \in {"opt_int16", "opt_uint16", "opt_int_range"}
  <2>1. l \in C!luaX_opt_integer(m, lua, 1, Default, C!Bounds(fn))
    BY <1>2, <1>4, Firsts, EffectOpt
  <2>2. ~ C!IsField(fn)
    BY <1>4 DEF C!IsField
  <2>3. QED
    BY <1>1, <2>1, <2>2, OptChecked
<1>5. CASE fn = "check_int_field"
  <2>1. l \in C!luaX_check_integer_field(m, lua, 1, C!Str(Name), C!Bounds(fn))
    BY <1>2, <1>5, Firsts, EffectCheckField DEF Name
  <2>2. C!IsField(fn)
    BY <1>5 DEF C!IsField
  <2>3. QED
    BY <1>1, <2>1, <2>2, CheckFieldChecked
<1>6. CASE fn = "opt_int32_field"
  <2>1. l \in C!luaX_opt_integer_field(m, lua, 1, C!Str(Name), 0, C!Bounds(fn))
    BY <1>2, <1>6, Firsts, EffectOptField DEF Name
  <2>2. QED
    BY <1>1, <1>6, <2>1, OptFieldChecked
<1>7. QED
  BY <1>3, <1>4, <1>5, <1>6 DEF C!Checks

LEMMA RightKept ==
  ASSUME lua' = lua, fn' = fn, args' = args, m'.heap = m.heap
  PROVE  /\ Handed <=> Handed'
         /\ \A n : Right(n) <=> Right(n)'
<1>1. C!Given' = C!Given
  BY DEF C!Given, C!IsField, C!Of
<1>2. \A n : C!Same(n, C!Given) <=> C!Same(n, C!Given)'
  BY <1>1 DEF C!Same, C!IsField
<1>3. C!Bounds(fn)' = C!Bounds(fn)
  OBVIOUS
<1>4. \A n : Right(n) <=> Right(n)'
  BY <1>2, <1>3 DEF Right
<1>5. Handed <=> Handed'
  BY DEF Handed, C!Scalars
<1>6. QED
  BY <1>4, <1>5

LEMMA ExecuteChecking ==
  ASSUME Checking, C!Execute
  PROVE  Checking'
<1> SUFFICES ASSUME fn \in C!Checks
             PROVE  Checking'
  BY DEF Checking, C!Execute
<1>1. /\ lua' = lua /\ fn' = fn /\ args' = args /\ outcome' = outcome
      /\ pc # 0 /\ pc' = pc + 1
      /\ m' \in C!Effect(C!Statement) /\ C!Statement.do \notin C!Ends
  BY DEF C!Execute
<1>2. lua \in {"integer", "double"} /\ Shaped(m) /\ Handed /\ At(pc)
  BY DEF Checking
<1>3. m.error = ""
  BY DEF C!Execute
<1>4. CASE pc = 1
  <2>1. Checked(m')
    BY <1>1, <1>4, Reads
  <2>2. Shaped(m') /\ m'.heap = m.heap
    BY <2>1 DEF Checked
  <2>3. m'.error = "" => m'.stack = args /\ Right(m'.local)
    BY <2>1 DEF Checked
  <2>4. Handed' /\ Read'
    BY <1>1, <1>2, <2>2, <2>3, RightKept DEF Read
  <2>5. outcome' = Blank /\ pc' = 2
    BY <1>1, <1>2, <1>4, AtEach
  <2>6. QED
    BY <1>1, <1>2, <2>2, <2>4, <2>5 DEF Checking, At
<1>5. CASE pc = 2
  <2> DEFINE x == C!Integer(m.local)
  <2>1. m' = C!luaX_push(m, <<x>>)
    BY <1>1, <1>5, Statements, EffectPush
  <2>2. m' = Stacked(m, m.stack \o Single(x))
    BY <2>1 DEF C!luaX_push, Stacked, Single
  <2>3. outcome = Blank /\ Read
    BY <1>2, <1>5, AtEach
  <2>4. m.stack = args /\ Right(m.local)
    BY <1>3, <2>3 DEF Read
  <2> HIDE DEF x
  <2>5. /\ Shaped(m') /\ m'.heap = m.heap /\ m'.error = ""
        /\ m'.local = m.local /\ m'.stack = args \o Single(x)
    BY <1>2, <1>3, <2>2, <2>4, StackedKeeps
  <2>6. Handed' /\ Right(m.local)'
    BY <1>1, <1>2, <2>4, <2>5, RightKept
  <2>7. Answered'
    BY <1>1, <2>5, <2>6 DEF Answered, x
  <2>8. outcome' = Blank /\ pc' = 3
    BY <1>1, <1>5, <2>3
  <2>9. QED
    BY <1>1, <1>2, <2>5, <2>6, <2>7, <2>8 DEF Checking, At
<1>6. CASE pc = 3
  <2>1. C!Statement.do = "void"
    BY <1>6, Statements DEF C!Void
  <2>2. QED
    BY <1>1, <2>1 DEF C!Ends
<1>7. QED
  BY <1>1, <1>2, <1>4, <1>5, <1>6 DEF At

LEMMA MachineReady ==
  /\ \A s : C!Machine(s).stack = s /\ C!Machine(s).error = "" /\ Shaped(C!Machine(s))
  /\ \A x : /\ C!WithTable(x).stack = Single(C!Table(1))
            /\ C!WithTable(x).heap = Holds(x)
            /\ C!WithTable(x).error = ""
            /\ Shaped(C!WithTable(x))
BY DEF C!Machine, C!WithTable, Shaped, Single, Holds

LEMMA CallChecking ==
  ASSUME Checking, C!Call
  PROVE  Checking'
<1> SUFFICES ASSUME fn' \in C!Checks
             PROVE  Checking'
  BY DEF Checking, C!Call
<1>1. /\ lua' = lua /\ outcome' = Blank /\ pc' = 1 /\ args' = m'.stack
  BY DEF C!Call, Blank
<1>2. fn' \notin DOMAIN C!Loaders
  BY DEF C!Checks, C!Loaders
<1>3. \/ m' = C!Machine(Empty)
      \/ \E x \in C!Scalars : m' = C!Machine(Single(x)) \/ m' = C!WithTable(x)
  BY <1>2 DEF C!Call, Empty, Single
<1>4. Shaped(m') /\ m'.error = ""
  BY <1>3, MachineReady
<1>5. \/ m'.stack = Empty
      \/ \E x \in C!Scalars :
           \/ m'.stack = Single(x)
           \/ m'.stack = Single(C!Table(1)) /\ m'.heap = Holds(x)
  BY <1>3, MachineReady
<1>6. C!Scalars' = C!Scalars
  BY <1>1 DEF C!Scalars
<1>7. Handed'
  BY <1>1, <1>5, <1>6 DEF Handed
<1>8. QED
  BY <1>1, <1>4, <1>7 DEF Checking, At, Ready

LEMMA VoidChecking ==
  ASSUME Checking, C!ReturnVoid
  PROVE  Checking'
<1> SUFFICES ASSUME fn \in C!Checks
             PROVE  Checking'
  BY DEF Checking, C!ReturnVoid, C!Deliver
<1> DEFINE x == C!Integer(m.local)
           n == C!Top(m) - Len(args)
<1>1. /\ lua' = lua /\ fn' = fn /\ args' = args /\ m' = m /\ pc' = 0
      /\ values' = SubSeq(m.stack, C!Top(m) - n + 1, C!Top(m))
      /\ pc # 0 /\ C!Statement.do = "void"
  BY DEF C!ReturnVoid, C!Deliver
<1>2. lua \in {"integer", "double"} /\ Shaped(m) /\ Handed /\ At(pc)
  BY DEF Checking
<1>3. C!PushLocal.do = "push_local"
  BY DEF C!PushLocal
<1>4. pc = 3 /\ Answered
  BY <1>1, <1>2, <1>3, Statements DEF At
<1>5. m.stack = args \o Single(x) /\ Right(m.local)
  BY <1>4 DEF Answered
<1>6. values' = Single(x)
  <2>1. CASE args = Empty
    <3>1. m.stack = Single(x)
      BY <1>5, <2>1 DEF Empty, Single
    <3>2. C!Top(m) = 1 /\ n = 1 /\ m.stack[1] = x
      BY <2>1, <3>1, SingleOnTop, Tuples DEF Empty
    <3>3. QED
      BY <1>1, <3>2, Cuts DEF Single
  <2>2. ASSUME NEW y, args = Single(y)
        PROVE  values' = Single(x)
    <3>1. m.stack = Pair(y, x)
      BY <1>5, <2>2, Joined DEF Single, Pair
    <3>2. C!Top(m) = 2 /\ m.stack[2] = x
      BY <3>1, PairOnTop DEF Pair
    <3>3. Len(args) = 1
      BY <2>2 DEF Single
    <3>4. C!Top(m) - n + 1 = 2
      BY <3>2, <3>3
    <3>5. QED
      BY <1>1, <3>2, <3>4, Cuts DEF Single
  <2>3. QED
    BY <1>2, <2>1, <2>2, HandedScripted DEF Scripted
<1>7. Len(values') = 1 /\ values'[1].n = m.local
  BY <1>6 DEF Single, C!Integer, C!Value
<1>8. Handed' /\ Right(values[1].n)'
  BY <1>1, <1>2, <1>5, <1>7, RightKept
<1>9. QED
  BY <1>1, <1>2, <1>7, <1>8 DEF Checking, At, Delivered

\* A step that leaves the machine alone and ends a call with an error, or
\* leaves everything alone.
LEMMA RestChecking ==
  ASSUME Checking, lua' = lua, fn' = fn, args' = args, m' = m,
         \/ pc' = pc /\ outcome' = outcome /\ values' = values
         \/ pc' = 0 /\ outcome' = "error"
  PROVE  Checking'
<1> SUFFICES ASSUME fn \in C!Checks
             PROVE  Checking'
  BY DEF Checking
<1>1. lua \in {"integer", "double"} /\ Shaped(m) /\ Handed /\ At(pc)
  BY DEF Checking
<1>2. Handed' /\ Shaped(m')
  BY <1>1, RightKept
<1>3. CASE pc' = pc /\ outcome' = outcome /\ values' = values
  <2>1. /\ Ready => Ready'
        /\ Read => Read'
        /\ Answered => Answered'
        /\ Delivered => Delivered'
    BY <1>3, RightKept DEF Ready, Read, Answered, Delivered
  <2>2. At(pc)'
    BY <1>1, <1>3, <2>1 DEF At
  <2>3. QED
    BY <1>1, <1>2, <2>2 DEF Checking
<1>4. CASE pc' = 0 /\ outcome' = "error"
  BY <1>1, <1>2, <1>4 DEF Checking, At, Delivered
<1>5. QED
  BY <1>3, <1>4

LEMMA ClosureChecking ==
  ASSUME Checking, C!Next
  PROVE  Checking'
<1>1. CASE C!Call
  BY <1>1, CallChecking
<1>2. CASE C!Forget
  BY <1>2 DEF Checking, C!Forget, C!Checks
<1>3. CASE C!SetPolicy
  BY <1>3, RestChecking DEF C!SetPolicy
<1>4. CASE C!Execute
  BY <1>4, ExecuteChecking
<1>5. CASE C!ReturnVoid
  BY <1>5, VoidChecking
<1>6. CASE C!ReturnInt \/ C!CatchFailure \/ C!CatchError
  <2>1. C!Statement.do \in {"return", "failure", "throw"} /\ fn' = fn /\ lua' = lua
    BY <1>6 DEF C!ReturnInt, C!CatchFailure, C!CatchError, C!Deliver, C!Escape, C!Report
  <2>2. pc # 0
    BY <1>6 DEF C!ReturnInt, C!CatchFailure, C!CatchError
  <2>3. C!PushLocal.do = "push_local" /\ C!Void.do = "void"
    BY DEF C!PushLocal, C!Void
  <2>4. fn \notin C!Checks
    BY <2>1, <2>2, <2>3, Statements DEF Checking, At
  <2>5. QED
    BY <2>1, <2>4 DEF Checking
<1>7. CASE C!LuaError
  BY <1>7, RestChecking DEF C!LuaError, C!Escape
<1>8. QED
  BY <1>1, <1>2, <1>3, <1>4, <1>5, <1>6, <1>7 DEF C!Next

LEMMA CheckingStep == Checking /\ [BindNext]_BindVars => Checking'
<1> SUFFICES ASSUME Checking, [BindNext]_BindVars
             PROVE  Checking'
  OBVIOUS
<1>1. CASE UNCHANGED closureVars
  BY <1>1, RestChecking DEF closureVars
<1>2. UNCHANGED closureVars \/ C!Next
  BY DEF BindNext, BindVars, Ranges, Closures, Main, Thread, Message, AskAgain,
         Over
<1>3. QED
  BY <1>1, <1>2, ClosureChecking

LEMMA InitChecking == BindInit => Checking
BY DEF BindInit, ClosureRests, C!Init, Checking, C!Checks

(***************************************************************************)
(* Whatever a script passes to the eight functions, with any bounds inside *)
(* lua_Integer: a result lies between the bounds and is the number given.  *)
(***************************************************************************)
THEOREM LetThroughAlways == BindSpec => []LetThrough
<1>1. At(pc) => Delivered
  BY DEF At, Delivered, Blank
<1>2. Checking => LetThrough
  BY <1>1 DEF Checking, Delivered, LetThrough, C!LetThrough, Right
<1>3. QED
  BY <1>2, InitChecking, CheckingStep, PTL DEF BindSpec
-----------------------------------------------------------------------------
(***************************************************************************)
(* Closure: what a caller receives.  What a function has put on the stack  *)
(* lies above the argument, if there is one.                               *)
(***************************************************************************)
IsSeq(r) == \E S : r \in Seq(S)

\* What lies where the argument was; lua_tolstring may have changed it.
Under(b) == IF args = Empty THEN b = Empty ELSE \E x : b = Single(x)

LEMMA Below ==
  ASSUME Scripted, NEW b, Under(b)
  PROVE  IsSeq(b) /\ Len(b) = Len(args) /\ Len(args) \in {0, 1}
<1>1. CASE args = Empty
  <2>1. b = Empty
    BY <1>1 DEF Under
  <2>2. Empty \in Seq({}) /\ Len(Empty) = 0
    BY EmptySeq DEF Empty
  <2>3. QED
    BY <1>1, <2>1, <2>2 DEF IsSeq
<1>2. CASE args # Empty
  <2>1. PICK x : args = Single(x)
    BY <1>2 DEF Scripted
  <2>2. PICK y : b = Single(y)
    BY <1>2 DEF Under
  <2>3. Len(args) = 1
    BY <2>1 DEF Single
  <2>4. Len(b) = 1 /\ b \in Seq({y})
    BY <2>2 DEF Single
  <2>5. QED
    BY <2>3, <2>4 DEF IsSeq
<1>3. QED
  BY <1>1, <1>2

LEMMA InSame ==
  ASSUME NEW r, NEW t, IsSeq(r), IsSeq(t)
  PROVE  \E S : r \in Seq(S) /\ t \in Seq(S)
<1>1. PICK R : r \in Seq(R)
  BY DEF IsSeq
<1>2. PICK T : t \in Seq(T)
  BY DEF IsSeq
<1>3. r \in Seq(R \union T)
  BY <1>1, SeqMonotonic
<1>4. t \in Seq(R \union T)
  BY <1>2, SeqMonotonic
<1>5. QED
  BY <1>3, <1>4

LEMMA Concat ==
  ASSUME NEW r, NEW t, IsSeq(r), IsSeq(t)
  PROVE  /\ IsSeq(r \o t) /\ Len(r) \in Nat /\ Len(t) \in Nat
         /\ Len(r \o t) = Len(r) + Len(t)
         /\ SubSeq(r \o t, 1, Len(r)) = r
         /\ SubSeq(r \o t, Len(r) + 1, Len(r) + Len(t)) = t
<1>1. PICK S : r \in Seq(S) /\ t \in Seq(S)
  BY InSame
<1> DEFINE s == r \o t
<1>2. /\ s \in Seq(S) /\ Len(s) = Len(r) + Len(t)
      /\ Len(r) \in Nat /\ Len(t) \in Nat
      /\ \A k \in 1 .. Len(r) + Len(t) :
           s[k] = IF k <= Len(r) THEN r[k] ELSE t[k - Len(r)]
  BY <1>1, ConcatProperties, LenProperties
<1> HIDE DEF s
<1>3. \A k \in 1 .. Len(s) : s[k] \in S
  BY <1>2, ElementOfSeq
<1>4. SubSeq(s, 1, Len(r)) = r
  <2> DEFINE c == SubSeq(s, 1, Len(r))
  <2>1. /\ c \in Seq(S) /\ Len(c) = Len(r)
        /\ \A k \in 1 .. Len(r) : c[k] = s[k]
    <3>1. \A k \in 1 .. Len(r) : s[k] \in S
      BY <1>2, <1>3
    <3>2. /\ SubSeq(s, 1, Len(r)) \in Seq(S)
          /\ Len(SubSeq(s, 1, Len(r))) = IF 1 <= Len(r) THEN Len(r) - 1 + 1 ELSE 0
          /\ \A k \in 1 .. Len(r) - 1 + 1 : SubSeq(s, 1, Len(r))[k] = s[1 + k - 1]
      BY <1>2, <3>1, SubSeqProperties
    <3>3. QED
      BY <1>2, <3>2
  <2> HIDE DEF c
  <2>2. QED
    BY <1>1, <1>2, <2>1, SeqEqual DEF c
<1>5. SubSeq(s, Len(r) + 1, Len(r) + Len(t)) = t
  <2> DEFINE n == Len(r) + 1
             l == Len(r) + Len(t)
             c == SubSeq(s, n, l)
  <2>1. /\ c \in Seq(S) /\ Len(c) = Len(t)
        /\ \A k \in 1 .. Len(t) : c[k] = s[Len(r) + k]
    <3>1. \A k \in n .. l : s[k] \in S
      BY <1>2, <1>3
    <3>2. n \in Int /\ l \in Int
      BY <1>2
    <3>3. /\ SubSeq(s, n, l) \in Seq(S)
          /\ Len(SubSeq(s, n, l)) = IF n <= l THEN l - n + 1 ELSE 0
          /\ \A k \in 1 .. l - n + 1 : SubSeq(s, n, l)[k] = s[n + k - 1]
      <4> HIDE DEF n, l
      <4>1. QED
        BY <3>1, <3>2, SubSeqProperties
    <3>4. QED
      BY <1>2, <3>3
  <2> HIDE DEF c
  <2>2. ASSUME NEW k \in 1 .. Len(t)
        PROVE  c[k] = t[k]
    <3>1. /\ Len(r) + k \in 1 .. Len(r) + Len(t) /\ ~ (Len(r) + k <= Len(r))
          /\ (Len(r) + k) - Len(r) = k
      BY <1>2
    <3>2. s[Len(r) + k] = t[k]
      BY <1>2, <3>1
    <3>3. QED
      BY <2>1, <3>2
  <2>3. QED
    BY <1>1, <2>1, <2>2, SeqEqual DEF c
<1>6. QED
  BY <1>2, <1>4, <1>5 DEF s, IsSeq

LEMMA Associates ==
  ASSUME NEW b, NEW r, NEW t, IsSeq(b), IsSeq(r), IsSeq(t)
  PROVE  (b \o r) \o t = b \o (r \o t)
<1>1. PICK S : b \in Seq(S) /\ r \in Seq(S)
  BY InSame
<1>2. PICK T : t \in Seq(T)
  BY DEF IsSeq
<1>3. b \in Seq(S \union T) /\ r \in Seq(S \union T)
  BY <1>1, SeqMonotonic
<1>4. t \in Seq(S \union T)
  BY <1>2, SeqMonotonic
<1>5. QED
  BY <1>3, <1>4, ConcatAssociative

\* The values r lie above the argument.
Laid(r) == IsSeq(r) /\ \E b : Under(b) /\ m.stack = b \o r

LEMMA LaidFirst ==
  ASSUME Scripted, m.stack = args
  PROVE  Laid(Empty) /\ Under(args)
<1>1. Under(args)
  BY DEF Under, Scripted
<1>2. IsSeq(args)
  BY <1>1, Below
<1>3. PICK S : args \in Seq(S)
  BY <1>2 DEF IsSeq
<1>4. args \o Empty = args /\ Empty \in Seq(S)
  BY <1>3, ConcatEmptySeq, EmptySeq DEF Empty
<1>5. QED
  BY <1>1, <1>4 DEF Laid, IsSeq

\* A push puts its values above those that lie there.
LEMMA LaidNext ==
  ASSUME Scripted, args' = args, NEW r, Laid(r), NEW t, IsSeq(t),
         Shaped(m), m' = C!luaX_push(m, t)
  PROVE  Laid(r \o t)' /\ Shaped(m') /\ m'.error = m.error /\ m'.local = m.local
<1>1. PICK b : Under(b) /\ m.stack = b \o r
  BY DEF Laid
<1>2. IsSeq(b) /\ IsSeq(r)
  BY <1>1, Below DEF Laid
<1>3. m' = Stacked(m, m.stack \o t)
  BY DEF C!luaX_push, Stacked
<1>4. /\ Shaped(m') /\ m'.error = m.error /\ m'.local = m.local
      /\ m'.stack = b \o (r \o t)
  <2>1. m.stack \o t = b \o (r \o t)
    BY <1>1, <1>2, Associates
  <2> DEFINE s == m.stack \o t
  <2>2. m' = Stacked(m, s)
    BY <1>3
  <2> HIDE DEF s
  <2>3. /\ Shaped(m') /\ m'.error = m.error /\ m'.local = m.local
        /\ m'.stack = s
    BY <2>2, StackedKeeps
  <2>4. QED
    BY <2>1, <2>3 DEF s
<1>5. Under(b)'
  BY <1>1 DEF Under
<1>6. IsSeq(r \o t)
  BY <1>2, Concat
<1>7. QED
  BY <1>4, <1>5, <1>6 DEF Laid

\* closure() hands back what lies above the argument.
LEMMA LaidReturned ==
  ASSUME Scripted, NEW r, Laid(r)
  PROVE  /\ C!Top(m) - Len(args) = Len(r) /\ C!Top(m) \in Nat /\ Len(args) \in Nat
         /\ SubSeq(m.stack, Len(args) + 1, C!Top(m)) = r
<1>1. PICK b : Under(b) /\ m.stack = b \o r
  BY DEF Laid
<1>2. IsSeq(b) /\ IsSeq(r) /\ Len(b) = Len(args)
  BY <1>1, Below DEF Laid
<1>3. /\ Len(b) \in Nat /\ Len(r) \in Nat
      /\ Len(m.stack) = Len(b) + Len(r)
      /\ SubSeq(m.stack, Len(b) + 1, Len(b) + Len(r)) = r
  BY <1>1, <1>2, Concat
<1>4. QED
  BY <1>2, <1>3 DEF C!Top

\* The functions that build tables.
Building ==
  {"set_field", "set_metafield", "get_context", "luaopen_bind", "luaopen_fuse"}

\* The functions that end with a failure.
Failing == {"failure1", "failure2", "failure3", "failure4"}

\* What the caller passed first.
Argument == IF args = Empty THEN C!Nil ELSE args[1]

IsHandle ==
  Argument.type = "userdata" /\ Argument.s \in {"handle_ref", "handle"}

\* Is the argument the Boolean of is_true or is_false, and is it an integer?
IsBool == C!Bool(args = Single(C!Bool(fn = "is_true")))

IsInteger(x) ==
  \/ x.type = "integer"
  \/ x.type = "double" /\ \E n \in C!lua_Integer : x.n = 2 * n

IsWhole == C!Bool(IsInteger(Argument))

\* The values a function that returns is to lay on the stack.
Wanted(r) ==
  /\ fn \in {"result_int", "result_void"} => r = C!Five
  /\ fn \in {"push_none", "unexpected"} => r = Empty
  /\ fn = "push_nil" => r = Single(C!Nil)
  /\ fn = "push_enum" => r = Single(C!Integer(4))
  /\ fn = "push_string" => Len(r) = 14
  /\ fn = "push_success" =>
       r = Single(IF C!ToBoolean(Argument) THEN Argument ELSE C!Bool(TRUE))
  /\ fn = "top_saver" => r = Single(C!Integer(0))
  /\ fn \in {"is_true", "is_false"} => r = Single(IsBool)
  /\ fn = "is_integer" /\ args # Empty /\ Argument # C!Double(2 * (Huge + 1)) =>
       r = Single(IsWhole)
  /\ fn = "to_string" => r = IF C!IsString(Argument) THEN C!Shifted ELSE Empty
  /\ fn = "check_string" => C!IsString(Argument) /\ r = C!Shifted
  /\ fn = "get" => IsHandle /\ r = Single(C!Integer(Argument.n))
  /\ fn \notin Failing \union {"throw", "field_error"}

\* The functions that end with an error, and when.
Refuses ==
  /\ fn = "check_string" => ~ C!IsString(Argument)
  /\ fn = "get" => ~ IsHandle
  /\ fn \in C!Checks \union {"check_string", "get", "field_error"}

\* The functions the theorem is about; the others that build no table are the
\* checks of integers, of which CallerSees says nothing.
Covered ==
  {"result_int", "result_void", "push_none", "push_nil", "push_enum",
   "push_string", "push_success", "unexpected", "throw", "field_error",
   "top_saver", "is_true", "is_false", "is_integer", "to_string",
   "check_string", "get"} \union Failing

LEMMA Others ==
  fn' \notin Covered \union Building => C!Promise'
BY DEF Covered, Building, Failing, C!Promise

LEMMA NilIs ==
  /\ C!Nil.type = "nil" /\ C!Nil.s = Blank
  /\ ~ C!IsString(C!Nil) /\ ~ C!ToBoolean(C!Nil)
BY DEF C!Nil, C!Value, Blank, C!IsString, C!IsNumber, C!ToBoolean

LEMMA WantedPromised ==
  ASSUME Wanted(values)', outcome' = "values", fn' \notin Building
  PROVE  C!Promise'
<1>1. CASE fn' \in {"result_int", "result_void", "push_none", "unexpected",
                  "push_nil", "push_enum", "top_saver"}
  BY <1>1 DEF Wanted, C!Promise, Single, Empty
<1>2. CASE fn' \in {"push_string"}
  BY <1>2 DEF Wanted, C!Promise
<1>3. CASE fn' \in {"push_success"}
  BY <1>3, NilIs DEF Wanted, C!Promise, Single, Empty, Argument
<1>4. CASE fn' \in {"is_true", "is_false"}
  BY <1>4 DEF Wanted, C!Promise, Single, IsBool
<1>5. CASE fn' = "is_integer"
  BY <1>5 DEF Wanted, C!Promise, C!IsIntegerRight, Single, Empty, Argument,
            IsWhole, IsInteger
<1>6. CASE fn' \in {"to_string", "check_string"}
  BY <1>6, NilIs DEF Wanted, C!Promise, Single, Empty, Argument
<1>7. CASE fn' = "get"
  BY <1>7, NilIs DEF Wanted, C!Promise, Single, Empty, Argument, IsHandle
<1>8. fn' \notin Failing \union {"throw", "field_error"}
  BY DEF Wanted
<1>9. QED
  BY <1>1, <1>2, <1>3, <1>4, <1>5, <1>6, <1>7, <1>8, Others DEF Covered

LEMMA RefusesPromised ==
  ASSUME Refuses', outcome' = "error"
  PROVE  C!Promise'
<1>1. CASE fn' \in {"check_string"}
  BY <1>1, NilIs DEF Refuses, C!Promise, Empty, Argument
<1>2. CASE fn' = "get"
  BY <1>2, NilIs DEF Refuses, C!Promise, Empty, Argument, IsHandle
<1>3. CASE fn' = "field_error"
  BY <1>3 DEF C!Promise
<1>4. CASE fn' \in C!Checks
  <2>1. fn' \notin Covered \union Building
    BY <1>4 DEF Covered, Building, Failing, C!Checks
  <2>2. QED
    BY <2>1, Others
<1>5. QED
  BY <1>1, <1>2, <1>3, <1>4 DEF Refuses

LEMMA CoreIs ==
  \A f \in DOMAIN C!CorePrograms : C!Program(f) = C!CorePrograms[f]
BY DEF C!Program, C!CorePrograms, C!UtilPrograms

LEMMA UtilIs ==
  \A f \in DOMAIN C!UtilPrograms : C!Program(f) = C!UtilPrograms[f]
BY DEF C!Program

LEMMA GetIs == C!Program("get") = C!HandlePrograms["get"]
BY DEF C!Program, C!CorePrograms, C!UtilPrograms, C!HandlePrograms

LEMMA CoreNames ==
  {"result_int", "result_void", "push_none", "push_nil", "push_enum",
   "push_string", "push_success", "unexpected", "throw", "field_error",
   "top_saver"} \union Failing \subseteq DOMAIN C!CorePrograms
BY DEF C!CorePrograms, Failing

LEMMA CoreBodies ==
  /\ C!Program("result_int") = <<C!Push(C!Five), C!Return(5)>>
  /\ C!Program("result_void") = <<C!Push(C!Five), C!Void>>
  /\ C!Program("push_none") = <<C!Void>>
  /\ C!Program("push_nil") = <<C!Push(<<C!Nil>>), C!Void>>
  /\ C!Program("push_enum") = <<C!Push(<<C!Integer(4)>>), C!Void>>
  /\ C!Program("push_success") = <<C!Do("push_success"), C!Void>>
  /\ C!Program("unexpected") = <<C!Void>>
  /\ C!Program("throw") = <<C!Throw("runtime_error")>>
  /\ C!Program("field_error") = <<C!Do("field_error")>>
  /\ C!Program("top_saver") = <<C!Do("save_top"), C!Void>>
  /\ C!Program("failure1") = <<C!Push(<<C!Integer(4)>>), C!Failure("failure1", Absent)>>
  /\ C!Program("failure2") = <<C!Push(<<C!Integer(4)>>), C!Failure("failure2", 6)>>
  /\ C!Program("failure3") = <<C!Push(<<C!Integer(4)>>), C!Failure("failure3", Absent)>>
  /\ C!Program("failure4") = <<C!Push(<<C!Integer(4)>>), C!Failure("failure4", 6)>>
BY CoreIs, CoreNames DEF C!CorePrograms, Failing

LEMMA StringBody ==
  C!Program("push_string") =
    <<C!Push([k \in 1 .. 5 |-> C!Str("a")]), C!Push(<<C!Str("b")>>),
      C!Push([k \in 1 .. 4 |-> C!Str("foo")]),
      C!Push([k \in 1 .. 4 |-> C!Str("baz")]), C!Void>>
BY CoreIs, CoreNames DEF C!CorePrograms, Failing

LEMMA UtilBodies ==
  /\ C!Program("is_true") = <<C!Do("is_true"), C!Void>>
  /\ C!Program("is_false") = <<C!Do("is_false"), C!Void>>
  /\ C!Program("is_integer") = <<C!Do("is_integer"), C!Void>>
  /\ C!Program("to_string") = <<C!Do("to_string"), C!Void>>
  /\ C!Program("check_string") = <<C!Do("check_string"), C!Void>>
BY UtilIs DEF C!UtilPrograms

LEMMA GetBody ==
  C!Program("get") =
    <<C!Udata(<<"handle_ref", "handle">>), C!PushLocal, C!Void>>
BY GetIs DEF C!HandlePrograms

\* A script passes nothing, one of the inputs, or its table.
Argued == args = Empty \/ \E x \in C!Scalars \union {C!Table(1)} : args = Single(x)

LEMMA ArguedScripted == Argued => Scripted
BY DEF Argued, Scripted

LEMMA ArgumentAt ==
  ASSUME Scripted, m.stack = args
  PROVE  C!At(m, 1) = Argument
<1>1. CASE args = Empty
  BY <1>1 DEF Argument, C!At, C!Slot, C!Top, Empty
<1>2. ASSUME NEW x, args = Single(x)
      PROVE  C!At(m, 1) = Argument
  <2>1. C!At(m, 1) = x
    BY <1>2, SingleOnTop
  <2>2. Argument = args[1]
    BY <1>2, Tuples DEF Argument
  <2>3. QED
    BY <1>2, <2>1, <2>2, Tuples
<1>3. QED
  BY <1>1, <1>2 DEF Scripted

\* What a script passes is a value of Lua.
Lua(x) ==
  /\ x.n \in Int
  /\ x.type = "boolean" => x \in {C!Bool(TRUE), C!Bool(FALSE)}
  /\ x.type = "double" => x = C!Double(x.n) /\ x.n # 2 * Huge
  /\ x.type = "userdata" => x.n # 0

LEMMA ArgumentLua ==
  ASSUME Argued
  PROVE  /\ Lua(Argument)
         /\ args # Empty => args = Single(Argument)
<1>1. CASE args = Empty
  <2>1. Argument = C!Nil
    BY <1>1 DEF Argument
  <2>2. QED
    BY <1>1, <2>1, NilTyped, NilType DEF Lua
<1>2. ASSUME NEW x \in C!Scalars \union {C!Table(1)}, args = Single(x)
      PROVE  Lua(Argument) /\ args = Single(Argument)
  <2>1. Argument = x
    BY <1>2, Tuples DEF Argument
  <2>2. CASE x \in C!Scalars
    BY <2>1, <2>2, <1>2, InputsAssumption DEF C!Scalars, Lua
  <2>3. CASE x = C!Table(1)
    <3>1. x.type = "table" /\ x.n = 1
      BY <2>3 DEF C!Table, C!Value
    <3>2. QED
      BY <2>1, <3>1, <1>2 DEF Lua
  <2>4. QED
    BY <2>2, <2>3
<1>3. QED
  BY <1>1, <1>2 DEF Argued

Truth == C!Bool(TRUE)
Falsity == C!Bool(FALSE)

LEMMA Truths == Truth # Falsity
<1>1. Truth.n = 1 /\ Falsity.n = 0
  BY DEF Truth, Falsity, C!Bool, C!Value
<1>2. QED
  BY <1>1

LEMMA TrueTold ==
  ASSUME Argued
  PROVE  /\ C!luaX_is_true(Argument) <=> args = Single(Truth)
         /\ C!luaX_is_false(Argument) <=> args = Single(Falsity)
<1>1. CASE args = Empty
  <2>1. Argument = C!Nil
    BY <1>1 DEF Argument
  <2>2. ~ C!luaX_is_true(Argument) /\ ~ C!luaX_is_false(Argument)
    BY <2>1, NilType DEF C!luaX_is_true, C!luaX_is_false
  <2>3. QED
    BY <1>1, <2>2, Tuples
<1>2. CASE args # Empty
  <2>1. args = Single(Argument)
    BY <1>2, ArgumentLua
  <2>2. \A b : args = Single(b) <=> Argument = b
    BY <2>1, Tuples
  <2>3. Argument.type = "boolean" => Argument \in {Truth, Falsity}
    BY ArgumentLua DEF Lua, Truth, Falsity
  <2>4. /\ Truth.type = "boolean" /\ Truth.type # "nil"
        /\ Falsity.type = "boolean" /\ Falsity.type # "nil"
    BY DEF Truth, Falsity, C!Bool, C!Value
  <2>5. /\ \A x : C!luaX_is_true(x) <=> x.type = "boolean" /\ x.type # "nil" /\ x # Falsity
        /\ \A x : C!luaX_is_false(x) <=>
             x.type = "boolean" /\ ~ (x.type # "nil" /\ x # Falsity)
    BY DEF C!luaX_is_true, C!luaX_is_false, C!ToBoolean, Falsity
  <2>6. /\ C!luaX_is_true(Argument) <=> Argument = Truth
        /\ C!luaX_is_false(Argument) <=> Argument = Falsity
    BY <2>3, <2>4, <2>5, Truths
  <2>7. QED
    BY <2>2, <2>6
<1>3. QED
  BY <1>1, <1>2

(***************************************************************************)
(* is_integer asks whether the integer a double converts to is the double. *)
(***************************************************************************)
LEMMA IntegerTold ==
  ASSUME NEW x, Lua(x), x # C!Double(2 * (Huge + 1)), NEW b \in C!luaX_is_integer(x)
  PROVE  b = IsInteger(x)
<1>1. Huge \in Nat
  BY OptRangeAssumption
<1>2. CASE x.type = "integer"
  BY <1>2 DEF C!luaX_is_integer, IsInteger
<1>3. CASE x.type = "double"
  <2>1. PICK n \in C!Cast(x) : b = (x.n = C!ToDouble(n))
    BY <1>3 DEF C!luaX_is_integer
  <2>2. x.n \in Int /\ x.n # 2 * Huge /\ x = C!Double(x.n)
    BY <1>3 DEF Lua
  <2>3. x.n # 2 * (Huge + 1)
    BY <2>2
  <2>4. /\ C!Whole(x.n) \in Int
        /\ \A l \in Int : x.n = 2 * l => C!Whole(x.n) = l
    BY <2>2 DEF C!Whole
  <2>5. CASE C!Whole(x.n) \in C!lua_Integer
    <3>1. n = C!Whole(x.n)
      BY <1>3, <2>1, <2>5 DEF C!Cast
    <3>2. x.n = C!ToDouble(n) <=> x.n = 2 * n
      BY <1>1, <2>2, <2>3, <2>4, <3>1 DEF C!ToDouble
    <3>3. x.n = 2 * n <=> \E l \in C!lua_Integer : x.n = 2 * l
      BY <2>4, <2>5, <3>1 DEF C!lua_Integer
    <3>4. QED
      BY <1>3, <2>1, <3>2, <3>3 DEF IsInteger
  <2>6. CASE C!Whole(x.n) \notin C!lua_Integer
    <3>1. n \in {-Huge - 1, Huge}
      BY <1>3, <2>1, <2>6 DEF C!Cast
    <3>2. x.n # 2 * (-Huge - 1)
      BY <1>1, <2>4, <2>6 DEF C!lua_Integer
    <3>3. x.n # C!ToDouble(n)
      BY <1>1, <2>3, <3>1, <3>2 DEF C!ToDouble
    <3>4. \A l \in C!lua_Integer : l \in Int
      BY <1>1 DEF C!lua_Integer
    <3>5. ~ \E l \in C!lua_Integer : x.n = 2 * l
      BY <2>4, <2>6, <3>4
    <3>6. QED
      BY <1>3, <2>1, <3>3, <3>5 DEF IsInteger
  <2>7. QED
    BY <2>5, <2>6
<1>4. CASE x.type \notin {"integer", "double"}
  BY <1>4 DEF C!luaX_is_integer, IsInteger
<1>5. QED
  BY <1>2, <1>3, <1>4

\* Some values lie on the stack, as the function wants them.
LaidAll == \E r : Wanted(r) /\ Laid(r)

\* The functions of one statement that lays what is wanted, and a return.
Simple ==
  {"result_int", "result_void", "push_nil", "push_enum", "push_success",
   "top_saver", "is_true", "is_false", "is_integer", "to_string",
   "check_string"}

\* How many strings push_string has pushed before its statement n.
Strings(n) == IF n = 2 THEN 5 ELSE IF n = 3 THEN 6 ELSE IF n = 4 THEN 10 ELSE 14

\* What holds before the statement at pc.
Stage ==
  \/ pc = 1 /\ m.stack = args /\ m.local = 0
  \/ pc = 2 /\ fn \in Simple /\ LaidAll
  \/ pc = 2 /\ fn \in Failing /\ \E r : Laid(r)
  \/ pc = 2 /\ fn = "get" /\ IsHandle /\ m.stack = args /\ m.local = Argument.n
  \/ pc = 3 /\ fn = "get" /\ LaidAll
  \/ pc \in 2 .. 5 /\ fn = "push_string" /\ \E r : Laid(r) /\ Len(r) = Strings(pc)

\* A Lua error ends only the functions that may refuse their argument.
Progress ==
  IF m.error = Blank THEN Stage ELSE Refuses

\* The inductive invariant.
Serving ==
  /\ pc = 0 \/ outcome = Blank
  /\ fn \in Covered =>
       IF pc = 0 THEN outcome # Blank => C!Promise
       ELSE Shaped(m) /\ Argued /\ Progress

\* Where a function starts.
Starting == Shaped(m) /\ Argued /\ m.error = Blank /\ m.stack = args /\ m.local = 0

LEMMA LaidOnly ==
  ASSUME Starting, args' = args, NEW t, IsSeq(t), m' = C!luaX_push(m, t)
  PROVE  Laid(t)' /\ Shaped(m') /\ m'.error = Blank
<1>1. Scripted /\ m.stack = args /\ Shaped(m) /\ m.error = Blank
  BY ArguedScripted DEF Starting
<1>2. Laid(Empty)
  BY <1>1, LaidFirst
<1>3. Empty \o t = t
  <2>1. PICK S : t \in Seq(S)
    BY DEF IsSeq
  <2>2. QED
    BY <2>1, ConcatEmptySeq DEF Empty
<1>4. Laid(Empty \o t)' /\ Shaped(m') /\ m'.error = m.error
  BY <1>1, <1>2, LaidNext
<1>5. QED
  BY <1>1, <1>3, <1>4

LEMMA SeqSingle == \A x : IsSeq(Single(x)) /\ Len(Single(x)) = 1
<1> TAKE x
<1>1. Single(x) \in Seq({x})
  BY DEF Single
<1>2. QED
  BY <1>1 DEF IsSeq, Single

LEMMA SeqEmpty == IsSeq(Empty) /\ Len(Empty) = 0
<1>1. Empty \in Seq({})
  BY EmptySeq DEF Empty
<1>2. QED
  BY <1>1 DEF IsSeq, Empty

LEMMA SeqFive == IsSeq(C!Five) /\ Len(C!Five) = 5
<1>1. C!Five \in Seq({C!Nil, C!Double(1), C!Integer(4), C!Bool(TRUE), C!Str("foo")})
  BY DEF C!Five
<1>2. QED
  BY <1>1 DEF IsSeq, C!Five

LEMMA SeqShifted == IsSeq(C!Shifted)
BY SeqSingle DEF C!Shifted, Single

LEMMA SeqCopies ==
  \A n \in Nat : \A x :
    IsSeq([k \in 1 .. n |-> x]) /\ Len([k \in 1 .. n |-> x]) = n
<1> TAKE n \in Nat
<1> TAKE x
<1> DEFINE s == [k \in 1 .. n |-> x]
<1>1. s \in Seq({x}) /\ DOMAIN s = 1 .. n
  OBVIOUS
<1> HIDE DEF s
<1>2. Len(s) = n
  BY <1>1, LenProperties
<1>3. QED
  BY <1>1, <1>2 DEF IsSeq, s

\* The statements a function begins with.
LEMMA EffectValues == \A vs : C!Effect(C!Push(vs)) = {C!luaX_push(m, vs)}
BY DEF C!Effect, C!Push

LEMMA EffectSuccess == C!Effect(C!Do("push_success")) = {C!luaX_push_success(m)}
BY DEF C!Effect, C!Do

LEMMA EffectSave ==
  C!Effect(C!Do("save_top")) =
    {LET after == C!luaX_top_saver(C!luaX_push(m, <<C!Integer(4)>>), C!Top(m))
     IN C!luaX_push(after, <<C!Integer(C!Top(after) - C!Top(m))>>)}
BY DEF C!Effect, C!Do

LEMMA EffectTells ==
  /\ C!Effect(C!Do("is_true")) =
       {C!luaX_push(m, <<C!Bool(C!luaX_is_true(C!At(m, 1)))>>)}
  /\ C!Effect(C!Do("is_false")) =
       {C!luaX_push(m, <<C!Bool(C!luaX_is_false(C!At(m, 1)))>>)}
  /\ C!Effect(C!Do("is_integer")) =
       {C!luaX_push(m, <<C!Bool(b)>>) : b \in C!luaX_is_integer(C!At(m, 1))}
BY DEF C!Effect, C!Do

LEMMA EffectStrings ==
  /\ C!Effect(C!Do("to_string")) =
       {IF C!IsString(C!At(m, 1)) THEN C!luaX_push(C!luaX_to_string(m, 1), C!Shifted)
        ELSE m}
  /\ C!Effect(C!Do("check_string")) =
       {IF C!IsString(C!At(m, 1)) THEN C!luaX_push(C!luaX_to_string(m, 1), C!Shifted)
        ELSE C!Raise(m, "string expected")}
  /\ C!Effect(C!Do("field_error")) = {C!luaX_field_error(m, "not an integer")}
BY DEF C!Effect, C!Do

LEMMA EffectUdata ==
  \A names : C!Effect(C!Udata(names)) = {C!luaX_check_udata(m, 1, names)}
BY DEF C!Effect, C!Udata

\* The first statement pushes what the function is to return.
LEMMA FirstPushed ==
  ASSUME Starting, args' = args, NEW r, IsSeq(r), Wanted(r)', m' = C!luaX_push(m, r)
  PROVE  Shaped(m') /\ m'.error = Blank /\ LaidAll'
BY LaidOnly DEF LaidAll

LEMMA FirstPushes ==
  ASSUME Starting, args' = args, fn' = fn,
         fn \in {"result_int", "result_void", "push_nil", "push_enum"},
         m' \in C!Effect(C!Program(fn)[1])
  PROVE  Shaped(m') /\ m'.error = Blank /\ LaidAll'
<1> DEFINE t == IF fn \in {"result_int", "result_void"} THEN C!Five
                ELSE IF fn = "push_nil" THEN Single(C!Nil)
                ELSE Single(C!Integer(4))
<1>1. C!Program(fn)[1] = C!Push(t)
  BY CoreBodies DEF Single
<1>2. IsSeq(t)
  BY SeqFive, SeqSingle
<1>3. PICK r : r = t
  OBVIOUS
<1>4. Wanted(r)'
  BY <1>3 DEF Wanted, Failing
<1> HIDE DEF t
<1>5. m' = C!luaX_push(m, r)
  BY <1>1, <1>3, EffectValues
<1>6. QED
  BY <1>2, <1>3, <1>4, <1>5, FirstPushed

LEMMA FirstString ==
  ASSUME Starting, args' = args, fn' = fn, fn = "push_string",
         m' \in C!Effect(C!Program(fn)[1])
  PROVE  Shaped(m') /\ m'.error = Blank /\ \E r : Laid(r)' /\ Len(r) = 5
<1> DEFINE t == [k \in 1 .. 5 |-> C!Str("a")]
<1>1. C!Program(fn)[1] = C!Push(t)
  BY StringBody
<1>2. IsSeq(t) /\ Len(t) = 5
  BY SeqCopies
<1> HIDE DEF t
<1>3. m' = C!luaX_push(m, t)
  BY <1>1, EffectValues
<1>4. QED
  BY <1>2, <1>3, LaidOnly

LEMMA FirstFailing ==
  ASSUME Starting, args' = args, fn' = fn, fn \in Failing,
         m' \in C!Effect(C!Program(fn)[1])
  PROVE  Shaped(m') /\ m'.error = Blank /\ \E r : Laid(r)'
<1> DEFINE t == Single(C!Integer(4))
<1>1. C!Program(fn)[1] = C!Push(t)
  BY CoreBodies DEF Single, Failing
<1>2. IsSeq(t)
  BY SeqSingle
<1> HIDE DEF t
<1>3. m' = C!luaX_push(m, t)
  BY <1>1, EffectValues
<1>4. QED
  BY <1>2, <1>3, LaidOnly

LEMMA FirstSuccess ==
  ASSUME Starting, args' = args, fn' = fn, fn = "push_success",
         m' \in C!Effect(C!Program(fn)[1])
  PROVE  Shaped(m') /\ m'.error = Blank /\ LaidAll'
<1> DEFINE x == IF C!ToBoolean(Argument) THEN Argument ELSE C!Bool(TRUE)
<1>1. C!At(m, 1) = Argument
  BY ArgumentAt, ArguedScripted DEF Starting
<1>2. m' = C!luaX_push_success(m)
  BY CoreBodies, EffectSuccess
<1>3. m' = C!luaX_push(m, Single(x))
  BY <1>1, <1>2 DEF C!luaX_push_success, Single
<1>4. Argument' = Argument
  BY DEF Argument
<1>5. PICK r : r = Single(x)
  OBVIOUS
<1>6. Wanted(r)'
  BY <1>4, <1>5 DEF Wanted, Failing
<1>7. QED
  BY <1>3, <1>5, <1>6, FirstPushed, SeqSingle

LEMMA FirstSave ==
  ASSUME Starting, args' = args, fn' = fn, fn = "top_saver",
         m' \in C!Effect(C!Program(fn)[1])
  PROVE  Shaped(m') /\ m'.error = Blank /\ LaidAll'
<1> DEFINE t == Single(C!Integer(4))
           pushed == C!luaX_push(m, t)
           after == C!luaX_top_saver(pushed, C!Top(m))
<1>1. m' = C!luaX_push(after, Single(C!Integer(C!Top(after) - C!Top(m))))
  BY CoreBodies, EffectSave DEF Single
<1>2. Shaped(m) /\ m.stack = args /\ IsSeq(args) /\ Len(args) \in {0, 1}
  BY ArguedScripted, LaidFirst, Below DEF Starting
<1>3. IsSeq(t)
  BY SeqSingle
<1>4. pushed = Stacked(m, m.stack \o t)
  BY DEF C!luaX_push, Stacked
<1>5. after = Stacked(m, SubSeq(m.stack \o t, 1, C!Top(m)))
  BY <1>4 DEF C!luaX_top_saver, C!SetTop, Stacked
<1> HIDE DEF t, after, pushed
<1>6. SubSeq(m.stack \o t, 1, C!Top(m)) = m.stack
  BY <1>2, <1>3, Concat DEF C!Top
<1>7. after = Stacked(m, m.stack)
  BY <1>5, <1>6
<1>8. after.stack = m.stack
  BY <1>2, <1>7, StackedKeeps
<1>9. C!Top(after) - C!Top(m) = 0
  BY <1>2, <1>8 DEF C!Top
<1>10. m' = C!luaX_push(after, Single(C!Integer(0)))
  BY <1>1, <1>9
<1>11. C!luaX_push(after, Single(C!Integer(0))) = C!luaX_push(m, Single(C!Integer(0)))
  BY <1>7, <1>8 DEF C!luaX_push, Stacked
<1>12. Wanted(Single(C!Integer(0)))'
  BY DEF Wanted, Failing
<1>13. QED
  BY <1>10, <1>11, <1>12, FirstPushed, SeqSingle

LEMMA FirstTells ==
  ASSUME Starting, args' = args, fn' = fn, fn \in {"is_true", "is_false", "is_integer"},
         m' \in C!Effect(C!Program(fn)[1])
  PROVE  Shaped(m') /\ m'.error = Blank /\ LaidAll'
<1>1. C!At(m, 1) = Argument /\ Argued
  BY ArgumentAt, ArguedScripted DEF Starting
<1>2. Argument' = Argument
  BY DEF Argument
<1>3. CASE fn = "is_true"
  <2> DEFINE x == C!Bool(args = Single(Truth))
  <2>1. m' = C!luaX_push(m, Single(C!Bool(C!luaX_is_true(Argument))))
    BY <1>1, <1>3, UtilBodies, EffectTells DEF Single
  <2>2. C!Bool(C!luaX_is_true(Argument)) = x
    BY <1>1, TrueTold DEF C!Bool
  <2>3. PICK r : r = Single(x)
    OBVIOUS
  <2>4. Wanted(r)'
    BY <1>3, <2>3 DEF Wanted, Failing, Truth, IsBool
  <2> HIDE DEF x
  <2>5. QED
    BY <2>1, <2>2, <2>3, <2>4, FirstPushed, SeqSingle
<1>4. CASE fn = "is_false"
  <2> DEFINE x == C!Bool(args = Single(Falsity))
  <2>1. m' = C!luaX_push(m, Single(C!Bool(C!luaX_is_false(Argument))))
    BY <1>1, <1>4, UtilBodies, EffectTells DEF Single
  <2>2. C!Bool(C!luaX_is_false(Argument)) = x
    BY <1>1, TrueTold DEF C!Bool
  <2>3. PICK r : r = Single(x)
    OBVIOUS
  <2>4. Wanted(r)'
    <3>1. (fn = "is_true") = FALSE
      BY <1>4
    <3>2. QED
      BY <1>4, <2>3, <3>1 DEF Wanted, Failing, Falsity, IsBool
  <2> HIDE DEF x
  <2>5. QED
    BY <2>1, <2>2, <2>3, <2>4, FirstPushed, SeqSingle
<1>5. CASE fn = "is_integer"
  <2>1. PICK b \in C!luaX_is_integer(Argument) : m' = C!luaX_push(m, Single(C!Bool(b)))
    BY <1>1, <1>5, UtilBodies, EffectTells DEF Single
  <2>2. Lua(Argument)
    BY <1>1, ArgumentLua
  <2>3. Argument # C!Double(2 * (Huge + 1)) => b = IsInteger(Argument)
    BY <2>2, IntegerTold
  <2>4. Argument # C!Double(2 * (Huge + 1)) => C!Bool(b) = C!Bool(IsInteger(Argument))
    BY <2>3
  <2> DEFINE x == C!Bool(b)
  <2> HIDE DEF x
  <2>5. Argument # C!Double(2 * (Huge + 1)) => x = C!Bool(IsInteger(Argument))
    BY <2>4 DEF x
  <2>6. Wanted(Single(x))'
    BY <1>2, <1>5, <2>5 DEF Wanted, Failing, IsWhole, IsInteger
  <2>7. QED
    BY <2>1, <2>6, FirstPushed, SeqSingle DEF x
<1>6. QED
  BY <1>3, <1>4, <1>5

\* A string lies where the argument was.
LEMMA Stringed ==
  ASSUME Starting, args' = args, C!IsString(Argument),
         m' = C!luaX_push(C!luaX_to_string(m, 1), C!Shifted)
  PROVE  Shaped(m') /\ m'.error = Blank /\ Laid(C!Shifted)'
<1>1. Shaped(m) /\ Argued /\ m.error = Blank /\ m.stack = args
  BY DEF Starting
<1>2. args # Empty
  BY NilIs DEF Argument
<1>3. m.stack = Single(Argument)
  BY <1>1, <1>2, ArgumentLua
<1> DEFINE b == Single(IF C!IsNumber(Argument) THEN C!Str("number") ELSE Argument)
           k == C!luaX_to_string(m, 1)
<1>4. C!luaX_to_string(m, 1) = Stacked(m, b)
  BY <1>3 DEF C!luaX_to_string, C!Slot, Stacked, Single
<1>5. PICK s : s = b \o C!Shifted
  OBVIOUS
<1>6. m' = Stacked(m, s)
  BY <1>4, <1>5 DEF C!luaX_push, Stacked
<1>7. Shaped(m') /\ m'.error = Blank /\ m'.stack = s
  BY <1>1, <1>6, StackedKeeps
<1>8. PICK c : c = b
  OBVIOUS
<1>9. Under(c)'
  BY <1>2, <1>8 DEF Under
<1>10. QED
  BY <1>5, <1>7, <1>8, <1>9, SeqShifted DEF Laid, C!Shifted

LEMMA FirstConverts ==
  ASSUME Starting, args' = args, fn' = fn, fn \in {"to_string", "check_string"},
         m' \in C!Effect(C!Program(fn)[1])
  PROVE  Shaped(m') /\ IF m'.error = Blank THEN LaidAll' ELSE Refuses'
<1>1. C!At(m, 1) = Argument /\ Shaped(m) /\ m.stack = args /\ m.error = Blank
  BY ArgumentAt, ArguedScripted DEF Starting
<1>2. Argument' = Argument
  BY DEF Argument
<1>3. C!Shifted' = C!Shifted
  BY DEF C!Shifted
<1> DEFINE taken == C!luaX_push(C!luaX_to_string(m, 1), C!Shifted)
<1>4. fn = "to_string" => m' = IF C!IsString(Argument) THEN taken ELSE m
  <2>1. fn = "to_string" => C!Program(fn)[1] = C!Do("to_string")
    BY UtilBodies
  <2>2. C!Effect(C!Do("to_string")) = {IF C!IsString(Argument) THEN taken ELSE m}
    BY <1>1, EffectStrings
  <2> HIDE DEF taken
  <2>3. QED
    BY <2>1, <2>2
<1>5. fn = "check_string" =>
        m' = IF C!IsString(Argument) THEN taken ELSE C!Raise(m, "string expected")
  <2>1. fn = "check_string" => C!Program(fn)[1] = C!Do("check_string")
    BY UtilBodies
  <2>2. C!Effect(C!Do("check_string")) =
          {IF C!IsString(Argument) THEN taken ELSE C!Raise(m, "string expected")}
    BY <1>1, EffectStrings
  <2> HIDE DEF taken
  <2>3. QED
    BY <2>1, <2>2
<1>6. CASE C!IsString(Argument)
  <2>1. m' = C!luaX_push(C!luaX_to_string(m, 1), C!Shifted)
    BY <1>6, <1>4, <1>5
  <2>2. Shaped(m') /\ m'.error = Blank /\ Laid(C!Shifted)'
    BY <1>6, <2>1, Stringed
  <2>3. PICK r : r = C!Shifted
    OBVIOUS
  <2>4. Laid(r)'
    BY <1>3, <2>2, <2>3 DEF Laid
  <2>5. Wanted(r)'
    BY <1>2, <1>3, <1>6, <2>3 DEF Wanted, Failing
  <2>6. QED
    BY <2>2, <2>4, <2>5 DEF LaidAll
<1>7. CASE ~ C!IsString(Argument) /\ fn = "to_string"
  <2>1. m' = m
    BY <1>7, <1>4
  <2>2. Laid(Empty)
    BY <1>1, LaidFirst, ArguedScripted DEF Starting
  <2>3. Laid(Empty)'
    BY <2>1, <2>2 DEF Laid, Under
  <2>4. Wanted(Empty)'
    BY <1>2, <1>7 DEF Wanted, Failing
  <2>5. QED
    BY <1>1, <2>1, <2>3, <2>4 DEF LaidAll
<1>8. CASE ~ C!IsString(Argument) /\ fn = "check_string"
  <2>1. m' = C!Raise(m, "string expected")
    BY <1>8, <1>5
  <2>2. Shaped(m') /\ m'.error # Blank
    BY <1>1, <2>1 DEF C!Raise, Shaped, Blank
  <2>3. Refuses'
    BY <1>2, <1>8 DEF Refuses
  <2>4. QED
    BY <2>2, <2>3
<1>9. QED
  BY <1>6, <1>7, <1>8

LEMMA FirstRaises ==
  ASSUME Starting, args' = args, fn' = fn, fn = "field_error",
         m' \in C!Effect(C!Program(fn)[1])
  PROVE  Shaped(m') /\ m'.error # Blank /\ Refuses'
<1>1. m' = C!Raise(m, "not an integer") /\ Shaped(m)
  <2>1. C!Program(fn)[1] = C!Do("field_error")
    BY CoreBodies
  <2>2. m' = C!luaX_field_error(m, "not an integer")
    BY <2>1, EffectStrings
  <2>3. QED
    BY <2>2 DEF Starting, C!luaX_field_error
<1>2. Shaped(m') /\ m'.error # Blank
  BY <1>1 DEF C!Raise, Shaped, Blank
<1>3. QED
  BY <1>2 DEF Refuses

(***************************************************************************)
(* An object is known by the name of its metatable.                        *)
(***************************************************************************)
\* A machine with n in its local variable.
Local(k, n) == [k EXCEPT !.local = n]

LEMMA LocalKeeps ==
  \A k, n : Shaped(k) =>
    /\ Shaped(Local(k, n)) /\ Local(k, n).local = n
    /\ Local(k, n).stack = k.stack /\ Local(k, n).error = k.error
BY DEF Shaped, Local

LEMMA SameName == \A s, t : C!Str(s) = C!Str(t) <=> s = t
<1>1. \A s : C!Str(s).s = s
  BY DEF C!Str, C!Value
<1>2. QED
  BY <1>1

LEMMA Named ==
  ASSUME NEW k, Shaped(k), NEW x, k.stack = Pair(x, C!Str(x.s)), NEW name
  PROVE  C!IsNamed(k, name) <=> x.s = name
<1> DEFINE t == C!Str(x.s)
           c == C!Str(name)
           pushed == C!luaX_push(k, Single(c))
<1>1. Pair(x, t) \o Single(c) = <<x, t, c>>
  <2> HIDE DEF t, c
  <2>1. /\ <<x, t>> \in Seq({x, t, c}) /\ <<c>> \in Seq({x, t, c})
        /\ <<x, t, c>> \in Seq({x, t, c})
    OBVIOUS
  <2>2. /\ <<x, t>> \o <<c>> \in Seq({x, t, c}) /\ Len(<<x, t>> \o <<c>>) = 3
        /\ \A n \in 1 .. 3 : (<<x, t>> \o <<c>>)[n] = <<x, t, c>>[n]
    BY <2>1, ConcatProperties
  <2>3. QED
    BY <2>1, <2>2, SeqEqual DEF Pair, Single
<1>2. pushed = Stacked(k, <<x, t, c>>)
  BY <1>1 DEF C!luaX_push, Stacked
<1> HIDE DEF pushed
<1>3. pushed.stack = <<x, t, c>>
  BY <1>2, StackedKeeps
<1> HIDE DEF t, c
<1>4. C!At(pushed, -1) = c /\ C!At(pushed, -2) = t
  BY <1>3 DEF C!At, C!Slot, C!Top
<1>5. C!IsNamed(k, name) <=> c = t
  BY <1>4 DEF C!IsNamed, pushed, Single, c
<1>6. QED
  BY <1>5, SameName DEF t, c

Object(x) == x.type = "userdata" /\ x.s # Blank

LEMMA ToUdata ==
  ASSUME NEW k, Shaped(k), NEW x, k.stack = Single(x), NEW name, Object(x)
  PROVE  LET l == C!luaX_to_udata(k, 1, Single(name))
         IN  /\ Shaped(l) /\ l.stack = Single(x) /\ l.error = k.error
             /\ l.local = IF x.s = name THEN x.n ELSE 0
<1> DEFINE l == C!luaX_to_udata(k, 1, Single(name))
           c == C!Str(x.s)
           pushed == C!luaX_push(k, Single(c))
           n == IF x.s = name THEN x.n ELSE 0
<1>1. C!At(k, 1) = x
  BY SingleOnTop
<1>2. pushed = Stacked(k, Pair(x, c))
  BY PushOn
<1> HIDE DEF pushed
<1>3. Shaped(pushed) /\ pushed.stack = Pair(x, c) /\ pushed.error = k.error
  BY <1>2, StackedKeeps
<1>4. (\E d \in 1 .. Len(Single(name)) : C!IsNamed(pushed, Single(name)[d])) <=> x.s = name
  <2>1. C!IsNamed(pushed, name) <=> x.s = name
    BY <1>3, Named
  <2>2. Len(Single(name)) = 1 /\ Single(name)[1] = name
    BY DEF Single
  <2>3. QED
    BY <2>1, <2>2
<1>5. l = C!Pop(Local(pushed, n), 1)
  <2>1. l = C!Pop([pushed EXCEPT !.local =
              IF \E d \in 1 .. Len(Single(name)) : C!IsNamed(pushed, Single(name)[d])
              THEN x.n ELSE 0], 1)
    BY <1>1 DEF C!luaX_to_udata, Object, Blank, pushed, Single
  <2>2. QED
    BY <1>4, <2>1 DEF Local
<1> HIDE DEF l, n
<1>6. /\ Shaped(Local(pushed, n)) /\ Local(pushed, n).local = n
      /\ Local(pushed, n).stack = Pair(x, c) /\ Local(pushed, n).error = k.error
  BY <1>3, LocalKeeps
<1>7. l = Stacked(Local(pushed, n), Single(x))
  BY <1>5, <1>6, PopPair
<1>8. /\ Shaped(l) /\ l.stack = Single(x) /\ l.error = k.error /\ l.local = n
  BY <1>6, <1>7, StackedKeeps
<1>9. QED
  BY <1>8 DEF l, n

LEMMA NotUdata ==
  \A k, names : ~ Object(C!At(k, 1)) => C!luaX_to_udata(k, 1, names) = k
BY DEF C!luaX_to_udata, Object, Blank

LEMMA TwoNames ==
  /\ C!Front(<<"handle_ref", "handle">>) = Single("handle_ref")
  /\ Single(C!Last(<<"handle_ref", "handle">>)) = Single("handle")
<1> DEFINE s == <<"handle_ref", "handle">>
<1>1. Len(s) = 2 /\ s[1] = "handle_ref" /\ s[2] = "handle"
  OBVIOUS
<1>2. C!Front(s) = SubSeq(s, 1, 1) /\ C!Last(s) = s[2]
  BY <1>1 DEF C!Front, C!Last
<1>3. QED
  BY <1>1, <1>2, Cuts DEF Single

LEMMA FirstGets ==
  ASSUME Starting, args' = args, fn' = fn, fn = "get",
         m' \in C!Effect(C!Program(fn)[1])
  PROVE  /\ Shaped(m')
         /\ IF m'.error = Blank
            THEN IsHandle' /\ m'.stack = args /\ m'.local = Argument.n
            ELSE Refuses'
<1> DEFINE x == Argument
           tried == C!luaX_to_udata(m, 1, Single("handle_ref"))
           found == C!luaX_to_udata(tried, 1, Single("handle"))
<1>1. /\ C!At(m, 1) = x /\ Shaped(m) /\ m.stack = args /\ m.error = Blank
      /\ m.local = 0 /\ Argued
  BY ArgumentAt, ArguedScripted DEF Starting
<1>2. x' = x
  BY DEF Argument
<1>3. m' = IF tried.local # 0 THEN tried
           ELSE IF found.local # 0 THEN found
           ELSE C!Raise(tried, "userdata expected")
  <2>1. m' = C!luaX_check_udata(m, 1, <<"handle_ref", "handle">>)
    BY GetBody, EffectUdata
  <2>2. Single(C!Last(<<"handle_ref", "handle">>)) = <<C!Last(<<"handle_ref", "handle">>)>>
    BY DEF Single
  <2>3. QED
    BY <2>1, <2>2, TwoNames DEF C!luaX_check_udata
<1>4. \A k : Shaped(k) => /\ Shaped(C!Raise(k, "userdata expected"))
                          /\ C!Raise(k, "userdata expected").error # Blank
  BY DEF C!Raise, Shaped, Blank
<1> HIDE DEF tried, found
<1>5. CASE Object(x)
  <2>1. args = Single(x)
    <3>1. args # Empty
      BY <1>5, NilIs DEF Argument, Object
    <3>2. QED
      BY <1>1, <3>1, ArgumentLua
  <2>2. /\ Shaped(tried) /\ tried.stack = Single(x) /\ tried.error = Blank
        /\ tried.local = IF x.s = "handle_ref" THEN x.n ELSE 0
    BY <1>1, <1>5, <2>1, ToUdata DEF tried
  <2>3. /\ Shaped(found) /\ found.stack = Single(x) /\ found.error = Blank
        /\ found.local = IF x.s = "handle" THEN x.n ELSE 0
    BY <1>5, <2>2, ToUdata DEF found
  <2>4. x.n # 0
    BY <1>1, <1>5, ArgumentLua DEF Lua, Object
  <2>5. CASE x.s = "handle_ref" \/ x.s = "handle"
    <3>1. Shaped(m') /\ m'.stack = args /\ m'.error = Blank /\ m'.local = x.n
      BY <1>3, <2>1, <2>2, <2>3, <2>4, <2>5
    <3>2. IsHandle'
      BY <1>2, <1>5, <2>5 DEF IsHandle, Object
    <3>3. QED
      BY <3>1, <3>2
  <2>6. CASE ~ (x.s = "handle_ref" \/ x.s = "handle")
    <3>1. Shaped(m') /\ m'.error # Blank
      BY <1>3, <1>4, <2>2, <2>3, <2>6
    <3>2. Refuses'
      BY <1>2, <2>6 DEF Refuses, IsHandle
    <3>3. QED
      BY <3>1, <3>2
  <2>7. QED
    BY <2>5, <2>6
<1>6. CASE ~ Object(x)
  <2>1. tried = m
    BY <1>1, <1>6, NotUdata DEF tried
  <2>2. found = m
    BY <1>1, <1>6, <2>1, NotUdata DEF found
  <2>3. Shaped(m') /\ m'.error # Blank
    BY <1>1, <1>3, <1>4, <2>1, <2>2
  <2>4. ~ IsHandle
    BY <1>6 DEF IsHandle, Object, Blank
  <2>5. Refuses'
    BY <1>2, <2>4 DEF Refuses, IsHandle
  <2>6. QED
    BY <2>3, <2>5
<1>7. QED
  BY <1>5, <1>6

(***************************************************************************)
(* The statements of each function after its first.                        *)
(***************************************************************************)
LEMMA DoWhat ==
  /\ \A vs : C!Push(vs).do = "push"
  /\ \A s : C!Do(s).do = s
  /\ \A n : C!Return(n).do = "return" /\ C!Return(n).count = n
  /\ C!Void.do = "void" /\ C!PushLocal.do = "push_local"
  /\ \A s : C!Throw(s).do = "throw" /\ C!Throw(s).message = C!Str(s)
  /\ \A s, n : /\ C!Failure(s, n).do = "failure" /\ C!Failure(s, n).code = n
               /\ C!Failure(s, n).message = C!Str(s)
  /\ \A names : C!Udata(names).do = "check_udata"
BY DEF C!Push, C!Do, C!Return, C!Void, C!PushLocal, C!Throw, C!Failure, C!Udata

LEMMA AtFirst ==
  /\ fn \in {"push_none", "unexpected"} => C!Program(fn)[1].do = "void"
  /\ fn = "throw" => C!Program(fn)[1] = C!Throw("runtime_error")
  /\ fn \in Covered \ {"push_none", "unexpected", "throw"} =>
       C!Program(fn)[1].do \notin C!Ends
<1>1. fn \in {"push_none", "unexpected"} => C!Program(fn)[1].do = "void"
  BY CoreBodies, DoWhat
<1>2. fn = "throw" => C!Program(fn)[1] = C!Throw("runtime_error")
  BY CoreBodies
<1>3. fn \in {"result_int", "result_void", "push_nil", "push_enum"} \union Failing =>
        C!Program(fn)[1].do = "push"
  BY CoreBodies, DoWhat DEF Failing
<1>4. fn = "push_string" => C!Program(fn)[1].do = "push"
  BY StringBody, DoWhat
<1>5. /\ fn = "push_success" => C!Program(fn)[1].do = "push_success"
      /\ fn = "top_saver" => C!Program(fn)[1].do = "save_top"
      /\ fn = "field_error" => C!Program(fn)[1].do = "field_error"
  BY CoreBodies, DoWhat
<1>6. fn \in {"is_true", "is_false", "is_integer", "to_string", "check_string"} =>
        C!Program(fn)[1].do = fn
  BY UtilBodies, DoWhat
<1>7. fn = "get" => C!Program(fn)[1].do = "check_udata"
  BY GetBody, DoWhat
<1>8. QED
  BY <1>1, <1>2, <1>3, <1>4, <1>5, <1>6, <1>7 DEF Covered, C!Ends

LEMMA AtSecond ==
  /\ fn = "result_int" => C!Program(fn)[2] = C!Return(5)
  /\ fn \in Simple \ {"result_int"} => C!Program(fn)[2].do = "void"
  /\ fn = "get" => C!Program(fn)[2] = C!PushLocal /\ C!Program(fn)[3].do = "void"
<1>1. fn = "result_int" => C!Program(fn)[2] = C!Return(5)
  BY CoreBodies
<1>2. fn \in {"result_void", "push_nil", "push_enum", "push_success", "top_saver"} =>
        C!Program(fn)[2].do = "void"
  BY CoreBodies, DoWhat
<1>3. fn \in {"is_true", "is_false", "is_integer", "to_string", "check_string"} =>
        C!Program(fn)[2].do = "void"
  BY UtilBodies, DoWhat
<1>4. fn = "get" => C!Program(fn)[2] = C!PushLocal /\ C!Program(fn)[3].do = "void"
  BY GetBody, DoWhat
<1>5. QED
  BY <1>1, <1>2, <1>3, <1>4 DEF Simple

\* What a failure says.
Code == IF fn \in {"failure1", "failure3"} THEN Absent ELSE 6

LEMMA AtFailure ==
  fn \in Failing => C!Program(fn)[2] = C!Failure(fn, Code)
BY CoreBodies DEF Failing, Code

LEMMA AtStrings ==
  fn = "push_string" =>
    /\ \E t : IsSeq(t) /\ Len(t) = 1 /\ C!Program(fn)[2] = C!Push(t)
    /\ \E t : IsSeq(t) /\ Len(t) = 4 /\ C!Program(fn)[3] = C!Push(t)
    /\ \E t : IsSeq(t) /\ Len(t) = 4 /\ C!Program(fn)[4] = C!Push(t)
    /\ C!Program(fn)[5].do = "void"
<1> HAVE fn = "push_string"
<1>1. \E t : IsSeq(t) /\ Len(t) = 1 /\ C!Program(fn)[2] = C!Push(t)
  <2>1. C!Program(fn)[2] = C!Push(Single(C!Str("b")))
    BY StringBody DEF Single
  <2>2. QED
    BY <2>1, SeqSingle
<1>2. \E t : IsSeq(t) /\ Len(t) = 4 /\ C!Program(fn)[3] = C!Push(t)
  <2>1. C!Program(fn)[3] = C!Push([k \in 1 .. 4 |-> C!Str("foo")])
    BY StringBody
  <2>2. QED
    BY <2>1, SeqCopies
<1>3. \E t : IsSeq(t) /\ Len(t) = 4 /\ C!Program(fn)[4] = C!Push(t)
  <2>1. C!Program(fn)[4] = C!Push([k \in 1 .. 4 |-> C!Str("baz")])
    BY StringBody
  <2>2. QED
    BY <2>1, SeqCopies
<1>4. C!Program(fn)[5].do = "void"
  BY StringBody, DoWhat
<1>5. QED
  BY <1>1, <1>2, <1>3, <1>4

(***************************************************************************)
(* A statement that ends no function.                                      *)
(***************************************************************************)
LEMMA FirstStage ==
  ASSUME Starting, args' = args, fn' = fn, fn \in Covered, pc' = 2,
         C!Program(fn)[1].do \notin C!Ends, m' \in C!Effect(C!Program(fn)[1])
  PROVE  Shaped(m') /\ Progress'
<1>1. CASE fn \in {"result_int", "result_void", "push_nil", "push_enum"}
  BY <1>1, FirstPushes DEF Progress, Stage, Simple
<1>2. CASE fn = "push_string"
  <2>1. PICK r : Shaped(m') /\ m'.error = Blank /\ Laid(r)' /\ Len(r) = 5
    BY <1>2, FirstString
  <2>2. pc' \in 2 .. 5 /\ Strings(pc') = 5
    BY DEF Strings
  <2>3. QED
    BY <1>2, <2>1, <2>2 DEF Progress, Stage
<1>3. CASE fn \in Failing
  BY <1>3, FirstFailing DEF Progress, Stage
<1>4. CASE fn = "push_success"
  BY <1>4, FirstSuccess DEF Progress, Stage, Simple
<1>5. CASE fn = "top_saver"
  BY <1>5, FirstSave DEF Progress, Stage, Simple
<1>6. CASE fn \in {"is_true", "is_false", "is_integer"}
  BY <1>6, FirstTells DEF Progress, Stage, Simple
<1>7. CASE fn \in {"to_string", "check_string"}
  BY <1>7, FirstConverts DEF Progress, Stage, Simple
<1>8. CASE fn = "field_error"
  BY <1>8, FirstRaises DEF Progress
<1>9. CASE fn = "get"
  <2>1. Argument' = Argument
    BY DEF Argument
  <2>2. QED
    BY <1>9, <2>1, FirstGets DEF Progress, Stage
<1>10. CASE fn \in {"push_none", "unexpected", "throw"}
  BY <1>10, AtFirst, DoWhat DEF C!Ends
<1>11. QED
  BY <1>1, <1>2, <1>3, <1>4, <1>5, <1>6, <1>7, <1>8, <1>9, <1>10 DEF Covered

LEMMA NextString ==
  ASSUME Scripted, args' = args, fn' = fn, fn = "push_string", Shaped(m),
         m.error = Blank, pc \in 2 .. 4, pc' = pc + 1,
         NEW r, Laid(r), Len(r) = Strings(pc),
         m' \in C!Effect(C!Program(fn)[pc])
  PROVE  Shaped(m') /\ Progress'
<1>1. PICK t : /\ IsSeq(t) /\ C!Program(fn)[pc] = C!Push(t)
               /\ Len(t) = IF pc = 2 THEN 1 ELSE 4
  BY AtStrings
<1>2. m' = C!luaX_push(m, t)
  BY <1>1, EffectValues
<1>3. Laid(r \o t)' /\ Shaped(m') /\ m'.error = m.error
  BY <1>1, <1>2, LaidNext
<1>4. Len(r \o t) = Len(r) + Len(t)
  BY <1>1, Concat DEF Laid
<1>5. Len(r \o t) = Strings(pc + 1)
  BY <1>1, <1>4 DEF Strings
<1>6. pc' \in 2 .. 5
  OBVIOUS
<1>7. QED
  BY <1>3, <1>5, <1>6 DEF Progress, Stage

LEMMA NextGet ==
  ASSUME Argued, args' = args, fn' = fn, fn = "get", Shaped(m), m.error = Blank,
         pc' = 3, IsHandle, m.stack = args, m.local = Argument.n,
         m' \in C!Effect(C!Program(fn)[2])
  PROVE  Shaped(m') /\ Progress'
<1> DEFINE t == Single(C!Integer(Argument.n))
<1>1. m' = C!luaX_push(m, t)
  BY AtSecond, EffectPush DEF Single
<1>2. Laid(Empty)
  BY LaidFirst, ArguedScripted
<1>3. PICK r : r = t
  OBVIOUS
<1>4. IsSeq(r)
  BY <1>3, SeqSingle
<1>5. Empty \o r = r
  <2>1. PICK S : r \in Seq(S)
    BY <1>4 DEF IsSeq
  <2>2. QED
    BY <2>1, ConcatEmptySeq DEF Empty
<1>6. Laid(r)' /\ Shaped(m') /\ m'.error = m.error
  BY <1>1, <1>2, <1>3, <1>4, <1>5, LaidNext, ArguedScripted
<1>7. Argument' = Argument
  BY DEF Argument
<1>8. Wanted(r)'
  BY <1>3, <1>7 DEF Wanted, Failing, IsHandle
<1>9. QED
  BY <1>6, <1>8 DEF Progress, Stage, LaidAll

LEMMA ExecuteServing ==
  ASSUME Serving, C!Execute
  PROVE  Serving'
<1>1. /\ fn' = fn /\ args' = args /\ lua' = lua /\ outcome' = outcome
      /\ pc # 0 /\ pc' = pc + 1 /\ m.error = Blank
      /\ m' \in C!Effect(C!Program(fn)[pc]) /\ C!Program(fn)[pc].do \notin C!Ends
  BY DEF C!Execute, C!Statement, Blank
<1>2. outcome' = Blank
  BY <1>1 DEF Serving
<1> SUFFICES ASSUME fn \in Covered
             PROVE  pc' # 0 /\ Shaped(m') /\ Argued' /\ Progress'
  BY <1>1, <1>2 DEF Serving
<1>3. Shaped(m) /\ Argued /\ Stage
  BY <1>1 DEF Serving, Progress
<1>4. Argued'
  BY <1>1, <1>3 DEF Argued, C!Scalars
<1>5. pc' # 0
  BY <1>1, <1>3 DEF Stage
<1>6. CASE pc = 1 /\ m.stack = args /\ m.local = 0
  <2>1. Starting
    BY <1>1, <1>3, <1>6 DEF Starting
  <2>2. Shaped(m') /\ Progress'
    BY <1>1, <1>6, <2>1, FirstStage
  <2>3. QED
    BY <1>4, <1>5, <2>2
<1>7. CASE pc = 2 /\ fn \in Simple
  BY <1>1, <1>7, AtSecond, DoWhat DEF C!Ends
<1>8. CASE pc = 2 /\ fn \in Failing
  BY <1>1, <1>8, AtFailure, DoWhat DEF C!Ends
<1>9. CASE pc = 2 /\ fn = "get" /\ IsHandle /\ m.stack = args /\ m.local = Argument.n
  <2>1. Shaped(m') /\ Progress'
    BY <1>1, <1>3, <1>9, NextGet
  <2>2. QED
    BY <1>4, <1>5, <2>1
<1>10. CASE pc = 3 /\ fn = "get"
  BY <1>1, <1>10, AtSecond DEF C!Ends
<1>11. ASSUME pc \in 2 .. 5, fn = "push_string", NEW r, Laid(r), Len(r) = Strings(pc)
       PROVE  Shaped(m') /\ Progress'
  <2>1. pc # 5
    BY <1>1, <1>11, AtStrings DEF C!Ends
  <2>2. QED
    BY <1>1, <1>3, <1>11, <2>1, NextString, ArguedScripted
<1>12. QED
  BY <1>3, <1>4, <1>5, <1>6, <1>7, <1>8, <1>9, <1>10, <1>11 DEF Stage

(***************************************************************************)
(* The end of a function.                                                  *)
(***************************************************************************)
LEMMA WantedKept ==
  ASSUME NEW r, Wanted(r), fn' = fn, args' = args, values' = r
  PROVE  Wanted(values)'
<1>1. Argument' = Argument /\ IsHandle' = IsHandle
  BY DEF Argument, IsHandle
<1>2. IsBool' = IsBool /\ IsWhole' = IsWhole
  BY <1>1 DEF IsBool, IsWhole
<1>3. /\ fn' \in {"result_int", "result_void"} => values' = C!Five
      /\ fn' \notin Failing \union {"throw", "field_error"}
  BY DEF Wanted
<1>4. /\ fn' \in {"push_none", "unexpected"} => values' = Empty
      /\ fn' = "push_nil" => values' = Single(C!Nil)
      /\ fn' = "push_enum" => values' = Single(C!Integer(4))
      /\ fn' = "top_saver" => values' = Single(C!Integer(0))
  BY DEF Wanted
<1>5. fn' = "push_string" => Len(values') = 14
  BY DEF Wanted
<1>6. fn' = "push_success" =>
        values' = Single(IF C!ToBoolean(Argument) THEN Argument ELSE C!Bool(TRUE))'
  BY <1>1 DEF Wanted
<1>7. fn' \in {"is_true", "is_false"} => values' = Single(IsBool')
  BY <1>2 DEF Wanted
<1>8. fn' = "is_integer" /\ args' # Empty /\ Argument' # C!Double(2 * (Huge + 1)) =>
        values' = Single(IsWhole')
  BY <1>1, <1>2 DEF Wanted
<1>9. fn' = "to_string" => values' = (IF C!IsString(Argument) THEN C!Shifted ELSE Empty)'
  BY <1>1 DEF Wanted, C!Shifted
<1>10. fn' = "check_string" => C!IsString(Argument)' /\ values' = C!Shifted'
  BY <1>1 DEF Wanted, C!Shifted
<1>11. fn' = "get" => IsHandle' /\ values' = Single(C!Integer(Argument'.n))
  BY <1>1 DEF Wanted
<1>12. QED
  BY <1>3, <1>4, <1>5, <1>6, <1>7, <1>8, <1>9, <1>10, <1>11 DEF Wanted

LEMMA HandedBack ==
  ASSUME Serving, fn \in Covered, Argued, NEW r, Wanted(r), Laid(r),
         C!Deliver(m, Len(r))
  PROVE  Serving'
<1>1. /\ outcome' = "values" /\ m' = m /\ pc' = 0 /\ fn' = fn /\ args' = args
      /\ values' = SubSeq(m.stack, C!Top(m) - Len(r) + 1, C!Top(m))
  BY DEF C!Deliver
<1>2. /\ C!Top(m) - Len(args) = Len(r) /\ C!Top(m) \in Nat /\ Len(args) \in Nat
      /\ SubSeq(m.stack, Len(args) + 1, C!Top(m)) = r
  BY LaidReturned, ArguedScripted
<1>3. C!Top(m) - Len(r) + 1 = Len(args) + 1
  BY <1>2
<1>4. values' = r
  BY <1>1, <1>2, <1>3
<1>5. Wanted(values)'
  BY <1>1, <1>4, WantedKept
<1>6. C!Promise'
  BY <1>1, <1>5, WantedPromised DEF Covered, Building, Failing
<1>7. QED
  BY <1>1, <1>6 DEF Serving

LEMMA ReturnServing ==
  ASSUME Serving, C!ReturnInt \/ C!ReturnVoid
  PROVE  Serving'
<1>1. /\ fn' = fn /\ pc' = 0 /\ pc # 0 /\ m.error = Blank
      /\ C!Program(fn)[pc].do \in {"return", "void"}
      /\ C!Program(fn)[pc].do = "return" => C!Deliver(m, C!Program(fn)[pc].count)
      /\ C!Program(fn)[pc].do = "void" => C!Deliver(m, C!Top(m) - Len(args))
  BY DEF C!ReturnInt, C!ReturnVoid, C!Deliver, C!Statement, Blank
<1> SUFFICES ASSUME fn \in Covered
             PROVE  Serving'
  BY <1>1 DEF Serving
<1>2. Shaped(m) /\ Argued /\ Stage /\ Scripted
  BY <1>1, ArguedScripted DEF Serving, Progress
<1>3. ASSUME NEW r, Wanted(r), Laid(r), C!Program(fn)[pc].do = "void"
      PROVE  Serving'
  BY <1>1, <1>2, <1>3, LaidReturned, HandedBack
<1>4. CASE pc = 1 /\ m.stack = args /\ m.local = 0
  <2>1. fn \in {"push_none", "unexpected"}
    BY <1>1, <1>4, AtFirst, DoWhat DEF C!Ends
  <2>2. Wanted(Empty)
    BY <2>1 DEF Wanted, Failing
  <2>3. Laid(Empty)
    BY <1>2, <1>4, LaidFirst
  <2>4. QED
    BY <1>3, <1>4, <2>1, <2>2, <2>3, AtFirst
<1>5. CASE pc = 2 /\ fn = "result_int" /\ LaidAll
  <2>1. PICK r : Wanted(r) /\ Laid(r)
    BY <1>5 DEF LaidAll
  <2>2. Len(r) = 5
    BY <1>5, <2>1, SeqFive DEF Wanted
  <2>3. C!Deliver(m, 5)
    BY <1>1, <1>5, AtSecond, DoWhat
  <2>4. QED
    BY <1>2, <2>1, <2>2, <2>3, HandedBack
<1>6. CASE pc = 2 /\ fn \in Simple \ {"result_int"} /\ LaidAll
  BY <1>3, <1>6, AtSecond DEF LaidAll
<1>7. CASE pc = 2 /\ fn \in Failing
  BY <1>1, <1>7, AtFailure, DoWhat
<1>8. CASE pc = 2 /\ fn = "get"
  BY <1>1, <1>8, AtSecond, DoWhat
<1>9. CASE pc = 3 /\ fn = "get" /\ LaidAll
  BY <1>3, <1>9, AtSecond DEF LaidAll
<1>10. ASSUME pc \in 2 .. 5, fn = "push_string", NEW r, Laid(r), Len(r) = Strings(pc)
       PROVE  Serving'
  <2>1. pc = 5
    BY <1>1, <1>10, AtStrings, DoWhat
  <2>2. Wanted(r)
    BY <1>10, <2>1 DEF Wanted, Failing, Strings
  <2>3. QED
    BY <1>3, <1>10, <2>1, <2>2, AtStrings
<1>11. QED
  BY <1>2, <1>4, <1>5, <1>6, <1>7, <1>8, <1>9, <1>10 DEF Stage

(***************************************************************************)
(* A failure leaves nil, its message and perhaps a code in place of what   *)
(* the function had pushed, or is an error.                                *)
(***************************************************************************)
\* What the caller of a failing function receives if it is no error.
Told ==
  Pair(C!Nil, C!Str(fn)) \o IF Code = Absent THEN Empty ELSE Single(C!Integer(Code))

LEMMA SeqPair == \A x, y : IsSeq(Pair(x, y)) /\ Len(Pair(x, y)) = 2
<1> TAKE x, y
<1>1. Pair(x, y) \in Seq({x, y})
  BY DEF Pair
<1>2. QED
  BY <1>1 DEF IsSeq, Pair

LEMMA FailingPromised ==
  ASSUME fn \in Failing, fn' = fn, policy' = policy,
         IF policy THEN outcome' = "error" /\ values' = Single(C!Str(fn))
         ELSE outcome' = "values" /\ values' = Told
  PROVE  C!Promise'
<1>1. Absent # 6
  BY AbsentAssumption
<1>2. CASE fn \in {"failure1", "failure3"}
  <2>1. Told = <<C!Nil, C!Str(fn)>> \o <<>>
    BY <1>2 DEF Told, Code, Pair, Empty
  <2>2. C!Fails(fn, <<>>)'
    BY <2>1 DEF C!Fails, Single
  <2>3. QED
    BY <1>2, <2>2 DEF C!Promise
<1>3. CASE fn \in {"failure2", "failure4"}
  <2>1. Told = <<C!Nil, C!Str(fn)>> \o <<C!Integer(6)>>
    BY <1>1, <1>3 DEF Told, Code, Pair, Single
  <2>2. C!Fails(fn, <<C!Integer(6)>>)'
    BY <2>1 DEF C!Fails, Single
  <2>3. QED
    BY <1>3, <2>2 DEF C!Promise
<1>4. QED
  BY <1>2, <1>3 DEF Failing

LEMMA ReportTold ==
  ASSUME Scripted, NEW r, Laid(r), Shaped(m), C!Report(C!Failure(fn, Code))
  PROVE  outcome' = "values" /\ values' = Told
<1> DEFINE code == IF Code = Absent THEN Empty ELSE Single(C!Integer(Code))
           told == Pair(C!Nil, C!Str(fn)) \o code
           cut == C!SetTop(m, Len(args))
           report == C!luaX_push(cut, told)
<1>1. C!Deliver(report, 2 + Len(code))
  <2>1. /\ C!Failure(fn, Code).code = Code
        /\ C!Failure(fn, Code).message = C!Str(fn)
    BY DoWhat
  <2>2. <<C!Nil, C!Str(fn)>> = Pair(C!Nil, C!Str(fn))
    BY DEF Pair
  <2>3. code = IF Code = Absent THEN <<>> ELSE <<C!Integer(Code)>>
    BY DEF Empty, Single
  <2>4. QED
    BY <2>1, <2>2, <2>3 DEF C!Report
<1>2. IsSeq(code)
  BY SeqEmpty, SeqSingle
<1>3. IsSeq(told) /\ Len(told) = 2 + Len(code)
  <2>1. PICK p : p = Pair(C!Nil, C!Str(fn))
    OBVIOUS
  <2>2. IsSeq(p) /\ Len(p) = 2 /\ told = p \o code
    BY <2>1, SeqPair
  <2> HIDE DEF code, told
  <2>3. QED
    BY <1>2, <2>2, Concat
<1>4. told = Told
  BY DEF Told
<1> HIDE DEF told, code
<1>5. PICK b : Under(b) /\ m.stack = b \o r
  BY DEF Laid
<1>6. IsSeq(b) /\ Len(b) = Len(args) /\ IsSeq(r)
  BY <1>5, Below DEF Laid
<1>7. SubSeq(m.stack, 1, Len(args)) = b
  <2>1. SubSeq(b \o r, 1, Len(b)) = b
    BY <1>6, Concat
  <2>2. QED
    BY <1>5, <1>6, <2>1
<1>8. cut = Stacked(m, b)
  BY <1>7 DEF C!SetTop, Stacked
<1> HIDE DEF cut
<1>9. Shaped(cut) /\ cut.stack = b
  BY <1>8, StackedKeeps
<1>10. report = Stacked(cut, b \o told)
  BY <1>9 DEF C!luaX_push, Stacked
<1> HIDE DEF report
<1>11. report.stack = b \o told
  BY <1>9, <1>10, StackedKeeps
<1>12. /\ Len(b) \in Nat /\ Len(told) \in Nat
       /\ Len(b \o told) = Len(b) + Len(told)
       /\ SubSeq(b \o told, Len(b) + 1, Len(b) + Len(told)) = told
  BY <1>3, <1>6, Concat
<1>13. C!Top(report) = Len(b) + Len(told)
  BY <1>11, <1>12 DEF C!Top
<1>14. C!Top(report) - (2 + Len(code)) + 1 = Len(b) + 1
  BY <1>3, <1>12, <1>13
<1>15. /\ outcome' = "values"
       /\ values' = SubSeq(report.stack, C!Top(report) - (2 + Len(code)) + 1, C!Top(report))
  BY <1>1 DEF C!Deliver
<1>16. values' = told
  BY <1>11, <1>12, <1>13, <1>14, <1>15
<1>17. QED
  BY <1>4, <1>15, <1>16

LEMMA CatchServing ==
  ASSUME Serving, C!CatchFailure \/ C!CatchError
  PROVE  Serving'
<1>1. /\ fn' = fn /\ pc' = 0 /\ pc # 0 /\ m.error = Blank /\ policy' = policy
      /\ C!Program(fn)[pc].do \in {"failure", "throw"}
      /\ C!Program(fn)[pc].do = "throw" => C!Escape(C!Program(fn)[pc].message)
      /\ C!Program(fn)[pc].do = "failure" =>
           IF policy THEN C!Escape(C!Program(fn)[pc].message)
           ELSE C!Report(C!Program(fn)[pc])
  BY DEF C!CatchFailure, C!CatchError, C!Report, C!Deliver, C!Escape, C!Statement, Blank
<1> SUFFICES ASSUME fn \in Covered
             PROVE  C!Promise'
  BY <1>1 DEF Serving
<1>2. Shaped(m) /\ Argued /\ Stage /\ Scripted
  BY <1>1, ArguedScripted DEF Serving, Progress
<1>3. CASE pc = 1
  <2>1. fn = "throw" /\ C!Program(fn)[pc] = C!Throw("runtime_error")
    BY <1>1, <1>3, AtFirst, DoWhat DEF C!Ends
  <2>2. outcome' = "error" /\ values' = <<C!Str("runtime_error")>>
    BY <1>1, <2>1, DoWhat DEF C!Escape
  <2>3. QED
    BY <1>1, <2>1, <2>2 DEF C!Promise
<1>4. ASSUME pc = 2, fn \in Failing, NEW r, Laid(r)
      PROVE  C!Promise'
  <2>1. C!Program(fn)[pc] = C!Failure(fn, Code)
    BY <1>4, AtFailure
  <2>2. CASE policy
    <3>1. outcome' = "error" /\ values' = Single(C!Str(fn))
      BY <1>1, <2>1, <2>2, DoWhat DEF C!Escape, Single
    <3>2. QED
      BY <1>1, <1>4, <2>2, <3>1, FailingPromised
  <2>3. CASE ~ policy
    <3>1. C!Report(C!Failure(fn, Code))
      BY <1>1, <2>1, <2>3, DoWhat
    <3>2. outcome' = "values" /\ values' = Told
      BY <1>2, <1>4, <3>1, ReportTold
    <3>3. QED
      BY <1>1, <1>4, <2>3, <3>2, FailingPromised
  <2>4. QED
    BY <2>2, <2>3
<1>5. CASE pc = 2 /\ fn \in Simple
  BY <1>1, <1>5, AtSecond, DoWhat
<1>6. CASE pc \in {2, 3} /\ fn = "get"
  BY <1>1, <1>6, AtSecond, DoWhat
<1>7. CASE pc \in 2 .. 5 /\ fn = "push_string"
  BY <1>1, <1>7, AtStrings, DoWhat
<1>8. QED
  BY <1>2, <1>3, <1>4, <1>5, <1>6, <1>7 DEF Stage

LEMMA ErrorServing ==
  ASSUME Serving, C!LuaError
  PROVE  Serving'
<1>1. /\ fn' = fn /\ args' = args /\ pc' = 0 /\ pc # 0 /\ m.error # Blank
      /\ outcome' = "error"
  BY DEF C!LuaError, C!Escape, Blank
<1> SUFFICES ASSUME fn \in Covered
             PROVE  C!Promise'
  BY <1>1 DEF Serving
<1>2. Refuses
  BY <1>1 DEF Serving, Progress
<1>3. Argument' = Argument /\ IsHandle' = IsHandle
  BY <1>1 DEF Argument, IsHandle
<1>4. Refuses'
  BY <1>1, <1>2, <1>3 DEF Refuses, C!Checks
<1>5. QED
  BY <1>1, <1>4, RefusesPromised

LEMMA Locals ==
  /\ \A s : C!Machine(s).local = 0
  /\ \A x : C!WithTable(x).local = 0
BY DEF C!Machine, C!WithTable

LEMMA CallServing ==
  ASSUME Serving, C!Call
  PROVE  Serving'
<1>1. /\ lua' = lua /\ outcome' = Blank /\ pc' = 1 /\ args' = m'.stack
  BY DEF C!Call, Blank
<1> SUFFICES ASSUME fn' \in Covered
             PROVE  Shaped(m') /\ Argued' /\ Progress'
  BY <1>1 DEF Serving
<1>2. fn' \notin DOMAIN C!Loaders
  BY DEF Covered, Failing, C!Loaders
<1>3. \/ m' = C!Machine(Empty)
      \/ \E x \in C!Scalars : m' = C!Machine(Single(x)) \/ m' = C!WithTable(x)
  BY <1>2 DEF C!Call, Empty, Single
<1>4. Shaped(m') /\ m'.error = Blank /\ m'.local = 0
  BY <1>3, MachineReady, Locals DEF Blank
<1>5. m'.stack = Empty \/ \E x \in C!Scalars \union {C!Table(1)} : m'.stack = Single(x)
  BY <1>3, MachineReady
<1>6. C!Scalars' = C!Scalars
  BY <1>1 DEF C!Scalars
<1>7. Argued'
  BY <1>1, <1>5, <1>6 DEF Argued
<1>8. QED
  BY <1>1, <1>4, <1>7 DEF Progress, Stage

LEMMA ForgetServing ==
  ASSUME Serving, C!Forget
  PROVE  Serving'
<1>1. pc = 0 /\ pc' = pc /\ outcome' = Blank
  BY DEF Serving, C!Forget, Blank
<1>2. QED
  BY <1>1 DEF Serving

LEMMA PromiseKept ==
  ASSUME UNCHANGED closureVars, fn \in Covered, C!Promise
  PROVE  C!Promise'
<1>1. /\ policy' = policy /\ fn' = fn /\ args' = args
      /\ outcome' = outcome /\ values' = values
  BY DEF closureVars
<1>2. CASE fn \in {"result_int", "result_void", "push_none", "unexpected",
                   "push_nil", "push_enum", "top_saver", "throw", "field_error",
                   "push_string", "push_success"}
  BY <1>1, <1>2 DEF C!Promise
<1>3. CASE fn \in Failing
  BY <1>1, <1>3 DEF C!Promise, C!Fails, Failing
<1>4. CASE fn \in {"is_true", "is_false", "get"}
  BY <1>1, <1>4 DEF C!Promise
<1>5. CASE fn = "is_integer"
  BY <1>1, <1>5 DEF C!Promise, C!IsIntegerRight
<1>6. CASE fn \in {"to_string", "check_string"}
  BY <1>1, <1>6 DEF C!Promise, C!Shifted
<1>7. QED
  BY <1>2, <1>3, <1>4, <1>5, <1>6 DEF Covered

LEMMA StageKept ==
  ASSUME UNCHANGED closureVars, Stage
  PROVE  Stage'
<1>1. fn' = fn /\ args' = args /\ pc' = pc /\ m' = m
  BY DEF closureVars
<1>2. Argument' = Argument /\ IsHandle' = IsHandle
  BY <1>1 DEF Argument, IsHandle
<1>3. \A r : Laid(r)' <=> Laid(r)
  BY <1>1 DEF Laid, Under
<1>4. IsBool' = IsBool /\ IsWhole' = IsWhole /\ C!Shifted' = C!Shifted
  BY <1>1, <1>2 DEF IsBool, IsWhole, C!Shifted
<1>5. \A r : Wanted(r)' <=> Wanted(r)
  BY <1>1, <1>2, <1>4 DEF Wanted
<1>6. LaidAll' <=> LaidAll
  BY <1>3, <1>5 DEF LaidAll
<1>7. QED
  BY <1>1, <1>2, <1>3, <1>6 DEF Stage

LEMMA RestServing ==
  ASSUME Serving, C!SetPolicy \/ UNCHANGED closureVars
  PROVE  Serving'
<1>1. CASE C!SetPolicy
  <2>1. pc' = 0 /\ outcome' = Blank
    BY <1>1 DEF C!SetPolicy, Blank
  <2>2. QED
    BY <2>1 DEF Serving
<1>2. CASE UNCHANGED closureVars
  <2>1. /\ lua' = lua /\ fn' = fn /\ args' = args /\ pc' = pc
        /\ m' = m /\ outcome' = outcome
    BY <1>2 DEF closureVars
  <2>2. Argument' = Argument /\ IsHandle' = IsHandle
    BY <2>1 DEF Argument, IsHandle
  <2>3. Refuses' <=> Refuses
    BY <2>1, <2>2 DEF Refuses, C!Checks
  <2>4. Argued' <=> Argued
    BY <2>1 DEF Argued, C!Scalars
  <2>5. QED
    BY <1>2, <2>1, <2>3, <2>4, PromiseKept, StageKept DEF Serving, Progress
<1>3. QED
  BY <1>1, <1>2

LEMMA ServingStep == Serving /\ [BindNext]_BindVars => Serving'
<1> SUFFICES ASSUME Serving, [BindNext]_BindVars
             PROVE  Serving'
  OBVIOUS
<1>1. C!Next \/ UNCHANGED closureVars
  BY DEF BindNext, Ranges, Closures, Main, Thread, Message, AskAgain, Over,
         BindVars
<1>2. CASE C!Next
  BY <1>2, CallServing, ForgetServing, RestServing, ExecuteServing,
     ReturnServing, CatchServing, ErrorServing DEF C!Next
<1>3. QED
  BY <1>1, <1>2, RestServing

LEMMA InitServing == BindInit => Serving
<1> SUFFICES ASSUME BindInit
             PROVE  pc = 0 /\ outcome = Blank
  BY DEF Serving
<1>1. ClosureRests \/ C!Init
  BY DEF BindInit
<1>2. QED
  BY <1>1 DEF ClosureRests, C!Init, Blank

LEMMA ServingSees == Serving => (fn \notin Building => CallerSees)
<1> SUFFICES ASSUME Serving, fn \notin Building, outcome # Blank
             PROVE  C!Promise
  BY DEF CallerSees, C!CallerSees, Blank
<1>1. CASE fn \in Covered
  BY <1>1 DEF Serving
<1>2. CASE fn \notin Covered
  BY <1>2 DEF Covered, Building, Failing, C!Promise
<1>3. QED
  BY <1>1, <1>2

(***************************************************************************)
(* Whatever the script passes, the caller of a function of core.cpp,       *)
(* util.cpp or handle.cpp that builds no table receives what the function  *)
(* is written to produce and no other value, a failure as nil, its message *)
(* and its code or as an error, as the policy says.                        *)
(***************************************************************************)
THEOREM CallerSeesAlways == BindSpec => [](fn \notin Building => CallerSees)
<1>1. BindInit => Serving
  BY InitServing
<1>2. Serving /\ [BindNext]_BindVars => Serving'
  BY ServingStep
<1>3. Serving => (fn \notin Building => CallerSees)
  BY ServingSees
<1>4. QED
  BY <1>1, <1>2, <1>3, PTL DEF BindSpec
=============================================================================
