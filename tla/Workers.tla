------------------------------- MODULE Workers -------------------------------
(***************************************************************************)
(* The tests of thread and atomic_count (thread.cpp, atomic.cpp): a C      *)
(* function creates threads that share a counter in its frame, or each     *)
(* have a global variable, joins them in order and returns what they left. *)
(* pthread_create may fail for any of them: the constructor throws, and    *)
(* the destructors of the threads made before it terminate the process.    *)
(***************************************************************************)
EXTENDS Integers, FiniteSets

CONSTANTS
  Threads,    \* how many threads a test creates
  Rounds      \* how often each of them increments the counter

VARIABLES
  test,       \* "atomic" or "thread"
  main,       \* "create", "join", "read", "done", "raised" or "terminated"
  next,       \* the thread to create or to join next
  joinable,   \* the thread objects whose destructor would terminate
  step,       \* step[w]: where thread w is, "none" before it starts
  register,   \* register[w]: the count as thread w read it
  round,      \* round[w]: increments thread w has finished
  owner,      \* the thread that holds the mutex of the counter, 0 if none
  count,      \* the counter
  v           \* v[w]: the global variable of thread w

vars == <<test, main, next, joinable, step, register, round, owner, count, v>>

Ids == 1 .. Threads

Init ==
  /\ test \in {"atomic", "thread"}
  /\ main = "create" /\ next = 1 /\ joinable = {}
  /\ step = [w \in Ids |-> "none"]
  /\ register = [w \in Ids |-> 0] /\ round = [w \in Ids |-> 0]
  /\ owner = 0 /\ count = 0 /\ v = [w \in Ids |-> 0]
-----------------------------------------------------------------------------
(***************************************************************************)
(* impl_test.                                                              *)
(***************************************************************************)
Create ==
  /\ main = "create"
  /\ step' = [step EXCEPT ![next] = "begin"]
  /\ joinable' = joinable \union {next}
  /\ main' = IF next = Threads THEN "join" ELSE "create"
  /\ next' = IF next = Threads THEN 1 ELSE next + 1
  /\ UNCHANGED <<test, register, round, owner, count, v>>

\* Faulty variant of CreateFails: the exception leaves impl_test although
\* threads are running, as if their destructors did nothing.
CreateFailsQuietly ==
  /\ main = "create"
  /\ main' = "raised"
  /\ UNCHANGED <<test, next, joinable, step, register, round, owner, count, v>>

\* system_error, and ~thread of every thread constructed before.
CreateFails ==
  /\ main = "create"
  /\ main' = IF joinable = {} THEN "raised" ELSE "terminated"
  /\ UNCHANGED <<test, next, joinable, step, register, round, owner, count, v>>

Join ==
  /\ main = "join"
  /\ step[next] = "ended"
  /\ joinable' = joinable \ {next}
  /\ main' = IF next = Threads THEN "read" ELSE "join"
  /\ next' = IF next = Threads THEN 1 ELSE next + 1
  /\ UNCHANGED <<test, step, register, round, owner, count, v>>

\* --count, or the global variables.
Read ==
  /\ main = "read"
  /\ owner = 0
  /\ count' = IF test = "atomic" THEN count - 1 ELSE count
  /\ main' = "done"
  /\ UNCHANGED <<test, next, joinable, step, register, round, owner, v>>
-----------------------------------------------------------------------------
(***************************************************************************)
(* The threads: f of atomic.cpp with atomic_count::operator++, and f1 to   *)
(* f4 of thread.cpp.  A process that terminates takes them along.          *)
(***************************************************************************)
Goto(w, from, to) ==
  /\ main # "terminated"
  /\ step[w] = from
  /\ step' = [step EXCEPT ![w] = to]
  /\ UNCHANGED <<test, main, next, joinable>>

Store(w) ==
  /\ test = "thread"
  /\ Goto(w, "begin", "ended")
  /\ v' = [v EXCEPT ![w] = w]
  /\ UNCHANGED <<register, round, owner, count>>

\* Faulty variant of Lock: the guard is missing.
LockSkipped(w) ==
  /\ test = "atomic" /\ round[w] < Rounds
  /\ Goto(w, "begin", "load")
  /\ UNCHANGED <<register, round, owner, count, v>>

Lock(w) ==
  /\ test = "atomic" /\ round[w] < Rounds
  /\ owner = 0
  /\ Goto(w, "begin", "load")
  /\ owner' = w
  /\ UNCHANGED <<register, round, count, v>>

Load(w) ==
  /\ Goto(w, "load", "add")
  /\ register' = [register EXCEPT ![w] = count]
  /\ UNCHANGED <<round, owner, count, v>>

Add(w) ==
  /\ Goto(w, "add", "unlock")
  /\ count' = register[w] + 1
  /\ UNCHANGED <<register, round, owner, v>>

Unlock(w) ==
  /\ Goto(w, "unlock", "begin")
  /\ owner' = 0
  /\ round' = [round EXCEPT ![w] = @ + 1]
  /\ UNCHANGED <<register, count, v>>

End(w) ==
  /\ test = "atomic" /\ round[w] = Rounds
  /\ Goto(w, "begin", "ended")
  /\ UNCHANGED <<register, round, owner, count, v>>

Main == Create \/ CreateFails \/ Join \/ Read
Thread(w) == Store(w) \/ Lock(w) \/ Load(w) \/ Add(w) \/ Unlock(w) \/ End(w)

Next == Main \/ \E w \in Ids : Thread(w)

Spec == Init /\ [][Next]_vars
-----------------------------------------------------------------------------
(***************************************************************************)
(* No increment is lost and no assignment missed: the joins order all work *)
(* of the threads before the result is read.                               *)
(***************************************************************************)
NothingLost ==
  main = "done" =>
    IF test = "atomic" THEN count = Threads * Rounds - 1
    ELSE \A w \in Ids : v[w] = w

(***************************************************************************)
(* impl_test never returns to Lua, with a result or an exception, while a  *)
(* thread can still reach the counter in its frame.                        *)
(***************************************************************************)
FrameOutlivesThreads ==
  main \in {"done", "raised"} => \A w \in Ids : step[w] \in {"none", "ended"}
=============================================================================
