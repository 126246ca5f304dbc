-------------------------------- MODULE Bind --------------------------------
(***************************************************************************)
(* The functions of dromozoa-bind under a script: OptRange (opt_range of   *)
(* util.cpp), Closure (the other functions of util.cpp, those of core.cpp  *)
(* and get of handle.cpp), Workers (atomic.cpp and thread.cpp) and         *)
(* Strerror (system_error.hpp).  A Lua state runs one C function at a      *)
(* time, so a behaviour of the library is one of the four: the others are  *)
(* at rest.                                                                *)
(***************************************************************************)
EXTENDS OptRange

CONSTANTS Absent, Types, Default, Inputs, Threads, Rounds, Lengths, Errors

ASSUME BindAssumption == Threads \in Nat \ {0} /\ Rounds \in Nat

\* No code of a failure is taken for its absence.
ASSUME AbsentAssumption == Absent \notin Int

\* Each of the types lies strictly inside lua_Integer, which has 64 bits where
\* the widest of them has 32.
ASSUME TypesAssumption ==
  /\ Default \in Int
  /\ \A t \in {Types.int, Types.int16, Types.uint16, Types.byte, Types.nice,
             Types.nanosecond} :
       t.low \in Int /\ t.high \in Int /\ -Huge - 1 < t.low /\ t.high < Huge

VARIABLES
  running,                                             \* which of the four
  lua, policy, fn, args, pc, m, outcome, values,       \* Closure
  test, main, next, joinable, step, register, round, owner, count, v,
                                                       \* Workers
  api, length, errno, saved, entry, bytes, buffer, what, at   \* Strerror

C == INSTANCE Closure
W == INSTANCE Workers
E == INSTANCE Strerror WITH size <- bytes

(***************************************************************************)
(* The inputs are values of Lua.  The largest lua_Integer is no double, an *)
(* object has an address.  A table is not among them: Closure makes its    *)
(* own.                                                                    *)
(***************************************************************************)
ASSUME InputsAssumption ==
  \A x \in Inputs :
    /\ x.type # "table" /\ x.n \in Int
    /\ x.type = "boolean" => x \in {C!Bool(TRUE), C!Bool(FALSE)}
    /\ x.type = "double" => x = C!Double(x.n) /\ x.n # 2 * Huge
    /\ x.type = "userdata" => x.n # 0

rangeVars == <<size, first, last, i, j, returned>>
closureVars == <<lua, policy, fn, args, pc, m, outcome, values>>
workersVars ==
  <<test, main, next, joinable, step, register, round, owner, count, v>>
strerrorVars == <<api, length, errno, saved, entry, bytes, buffer, what, at>>

\* The variables of a part at rest.
RangeRests ==
  /\ size = 0 /\ first = None /\ last = None
  /\ i = 0 /\ j = 0 /\ returned = FALSE

ClosureRests ==
  /\ lua = "integer" /\ policy = FALSE /\ fn = "push_none" /\ args = <<>>
  /\ pc = 0 /\ m = C!Machine(<<>>) /\ outcome = "" /\ values = <<>>

WorkersRest ==
  /\ test = "thread" /\ main = "create" /\ next = 1 /\ joinable = {}
  /\ step = [w \in W!Ids |-> "none"]
  /\ register = [w \in W!Ids |-> 0] /\ round = [w \in W!Ids |-> 0]
  /\ owner = 0 /\ count = 0 /\ v = [w \in W!Ids |-> 0]

StrerrorRests ==
  /\ api = "gnu" /\ length = 0 /\ errno = 0 /\ saved = 0 /\ entry = 0
  /\ bytes = 0 /\ buffer = 0 /\ what = "" /\ at = "idle"

BindInit ==
  \/ running = "range" /\ Init /\ ClosureRests /\ WorkersRest /\ StrerrorRests
  \/ running = "closure" /\ C!Init /\ RangeRests /\ WorkersRest /\ StrerrorRests
  \/ running = "workers" /\ W!Init /\ RangeRests /\ ClosureRests /\ StrerrorRests
  \/ running = "strerror" /\ E!Init /\ RangeRests /\ ClosureRests /\ WorkersRest

Part(name) == running = name /\ running' = running

Ranges ==
  /\ Part("range") /\ Next
  /\ UNCHANGED <<closureVars, workersVars, strerrorVars>>

Closures ==
  /\ Part("closure") /\ C!Next
  /\ UNCHANGED <<rangeVars, workersVars, strerrorVars>>

Main ==
  /\ Part("workers") /\ W!Main
  /\ UNCHANGED <<rangeVars, closureVars, strerrorVars>>

Thread(w) ==
  /\ Part("workers") /\ W!Thread(w)
  /\ UNCHANGED <<rangeVars, closureVars, strerrorVars>>

Message ==
  /\ Part("strerror") /\ E!Step
  /\ UNCHANGED <<rangeVars, closureVars, workersVars>>

AskAgain ==
  /\ Part("strerror") /\ E!Again
  /\ UNCHANGED <<rangeVars, closureVars, workersVars>>

BindVars == <<running, rangeVars, closureVars, workersVars, strerrorVars>>

\* A test is over when its C function has returned or the process has ended.
Over ==
  /\ main \in {"done", "raised", "terminated"}
  /\ Part("workers") /\ UNCHANGED BindVars

BindNext ==
  \/ Ranges \/ Closures \/ Main \/ (\E w \in W!Ids : Thread(w))
  \/ Message \/ AskAgain \/ Over

\* A C function keeps running.
BindSpec ==
  /\ BindInit /\ [][BindNext]_BindVars
  /\ WF_BindVars(Message)
-----------------------------------------------------------------------------
\* What Closure promises a caller of the functions of core.cpp.
CallerSees == C!CallerSees

\* What Closure says the integer checks of util.cpp let through.
LetThrough == C!LetThrough

\* What Workers says the tests of thread and atomic_count return.
NothingLost == W!NothingLost

\* What Workers says of the frame threads share.
FrameOutlivesThreads == W!FrameOutlivesThreads

\* What Strerror says of the message, its buffer and errno.
Described == E!Described

\* The search for a message ends.
MessageFound == E!MessageFound
=============================================================================
