----------------------------- MODULE StatePool -----------------------------
(***************************************************************************)
(* state_manager_pool.cpp: the manager that lends independent Lua          *)
(* universes, each built from the same chunk.  The module follows a pool   *)
(* from its constructor, through the mounts a script makes with it, to its *)
(* collection:                                                             *)
(*                                                                         *)
(*   building    the constructor makes the start_states first universes    *)
(*   script      the script runs; it owns the pool and no file system is   *)
(*               mounted                                                   *)
(*   setup       fuse.main: the operations constructor borrows a state     *)
(*   serving     fuse_main: threads of libfuse borrow states               *)
(*   destroying, destroyed     __gc: the idle states are closed            *)
(*   build_failed              the constructor threw                       *)
(*   terminated                an open() threw inside a fuse handler; the  *)
(*                             exception meets the C frames of libfuse     *)
(*                                                                         *)
(* open() and close() are split where the code takes or releases mutex_.   *)
(***************************************************************************)
EXTENDS Naturals, Sequences, FiniteSets

CONSTANTS
  Threads,        \* the threads libfuse runs operations on
  Main,           \* the thread of the script, one of them
  States,         \* lua_State* values luaL_newstate can return
  NoState,        \* the null pointer
  NoThread,       \* the mutex is free
  StartStates,    \* start_states
  MaxStates,      \* max_states_
  MaxIdleStates,  \* max_idle_states_
  NumMounts,      \* bound: how often the script calls fuse.main
  NumRequests     \* bound: how many operations the kernel sends in all

ASSUME PoolAssumption ==
  /\ IsFiniteSet(Threads)
  /\ Main \in Threads
  /\ NoThread \notin Threads
  /\ NoState \notin States
  /\ StartStates \in Nat /\ MaxStates \in Nat /\ MaxIdleStates \in Nat
  /\ NumMounts \in Nat /\ NumRequests \in Nat

VARIABLES
  phase,      \* the life of the pool, see above
  mutex,      \* the owner of mutex_, or NoThread
  waiters,    \* threads blocked in condition_.wait
  active,     \* active_states_
  idle,       \* idle_states_
  live,       \* the universes that exist: newstate done, lua_close not
  held,       \* held[t]: the lua_State* thread t works with
  pc,         \* pc[t]: where thread t is in open() and close()
  thrown,     \* how many open() calls threw (history)
  mounts,     \* calls of fuse.main still to come
  todo        \* operations still to come

vars == <<phase, mutex, waiters, active, idle, live, held, pc, thrown,
          mounts, todo>>

Phases == {"building", "build_failed", "script", "setup", "serving",
           "destroying", "destroyed", "terminated"}

Labels == {"idle", "open_lock", "open_test", "waiting", "constructing",
           "using", "close_lock", "close_body", "close_free"}

Init ==
  /\ phase = "building"
  /\ mutex = NoThread
  /\ waiters = {}
  /\ active = 0
  /\ idle = <<>>
  /\ live = {}
  /\ held = [t \in Threads |-> NoState]
  /\ pc = [t \in Threads |-> "idle"]
  /\ thrown = 0
  /\ mounts = NumMounts
  /\ todo = NumRequests

Goto(t, from, to) ==
  /\ pc[t] = from
  /\ pc' = [pc EXCEPT ![t] = to]

NobodyInside == \A t \in Threads : pc[t] = "idle"
-----------------------------------------------------------------------------
(***************************************************************************)
(* The constructor of the pool.                                            *)
(***************************************************************************)
BuildState ==
  /\ phase = "building"
  /\ Len(idle) < StartStates
  /\ \E s \in States \ live :
       /\ live' = live \union {s}
       /\ idle' = Append(idle, s)
  /\ UNCHANGED <<phase, mutex, waiters, active, held, pc, thrown, mounts, todo>>

(***************************************************************************)
(* construct() throws: the object never existed, its list is destroyed and *)
(* no destructor closes the universes that were already in it.             *)
(***************************************************************************)
BuildFail ==
  /\ phase = "building"
  /\ Len(idle) < StartStates
  /\ phase' = "build_failed"
  /\ idle' = <<>>
  /\ UNCHANGED <<mutex, waiters, active, live, held, pc, thrown, mounts, todo>>

BuildDone ==
  /\ phase = "building"
  /\ Len(idle) >= StartStates
  /\ phase' = "script"
  /\ UNCHANGED <<mutex, waiters, active, idle, live, held, pc, thrown, mounts,
                 todo>>

(***************************************************************************)
(* fuse.main: the operations constructor opens a state on the script's     *)
(* thread and closes it again before fuse_main runs.                       *)
(***************************************************************************)
Mount ==
  /\ phase = "script"
  /\ mounts > 0
  /\ Goto(Main, "idle", "open_lock")
  /\ phase' = "setup"
  /\ mounts' = mounts - 1
  /\ UNCHANGED <<mutex, waiters, active, idle, live, held, thrown, todo>>

\* A request reaches thread t and its handler constructs a managed_state.
Request(t) ==
  /\ phase = "serving"
  /\ todo > 0
  /\ Goto(t, "idle", "open_lock")
  /\ todo' = todo - 1
  /\ UNCHANGED <<phase, mutex, waiters, active, idle, live, held, thrown, mounts>>

\* Faulty variant of Unmount: it does not wait for the handlers.
UnmountBusy ==
  /\ phase = "serving"
  /\ phase' = "script"
  /\ UNCHANGED <<mutex, waiters, active, idle, live, held, pc, thrown, mounts,
                 todo>>

\* fuse_main returns: no handler is running any more.
Unmount ==
  /\ phase = "serving"
  /\ NobodyInside
  /\ phase' = "script"
  /\ UNCHANGED <<mutex, waiters, active, idle, live, held, pc, thrown, mounts,
                 todo>>

(***************************************************************************)
(* The manager is garbage: impl_gc runs the destructor.                    *)
(***************************************************************************)
Collect ==
  /\ phase = "script"
  /\ phase' = "destroying"
  /\ UNCHANGED <<mutex, waiters, active, idle, live, held, pc, thrown, mounts,
                 todo>>

DestroyIdle ==
  /\ phase = "destroying"
  /\ idle # <<>>
  /\ live' = live \ {Head(idle)}
  /\ idle' = Tail(idle)
  /\ UNCHANGED <<phase, mutex, waiters, active, held, pc, thrown, mounts, todo>>

DestroyDone ==
  /\ phase = "destroying"
  /\ idle = <<>>
  /\ phase' = "destroyed"
  /\ UNCHANGED <<mutex, waiters, active, idle, live, held, pc, thrown, mounts,
                 todo>>
-----------------------------------------------------------------------------
(***************************************************************************)
(* open().  The threads run only while a fuse.main call is in progress.    *)
(***************************************************************************)
Running == phase \in {"setup", "serving"}

\* Faulty variant of the wait condition: the last slot is not used.
MustWaitEarly == idle = <<>> /\ active + 1 >= MaxStates

MustWait == idle = <<>> /\ active >= MaxStates

OpenLock(t) ==
  /\ Running
  /\ mutex = NoThread
  /\ Goto(t, "open_lock", "open_test")
  /\ mutex' = t
  /\ UNCHANGED <<phase, waiters, active, idle, live, held, thrown, mounts, todo>>

OpenWait(t) ==
  /\ Running
  /\ MustWait
  /\ Goto(t, "open_test", "waiting")
  /\ waiters' = waiters \union {t}
  /\ mutex' = NoThread
  /\ UNCHANGED <<phase, active, idle, live, held, thrown, mounts, todo>>

\* Nothing in the pool signals condition_; a wait ends only spuriously.
SpuriousWakeup(t) ==
  /\ Running
  /\ t \in waiters
  /\ Goto(t, "waiting", "open_lock")
  /\ waiters' = waiters \ {t}
  /\ UNCHANGED <<phase, mutex, active, idle, live, held, thrown, mounts, todo>>

\* Faulty variants of OpenIdle: the state is not counted; it is not popped.
OpenIdleUncounted(t) ==
  /\ Running
  /\ idle # <<>>
  /\ Goto(t, "open_test", "using")
  /\ held' = [held EXCEPT ![t] = Head(idle)]
  /\ idle' = Tail(idle)
  /\ mutex' = NoThread
  /\ UNCHANGED <<phase, waiters, active, live, thrown, mounts, todo>>

OpenIdleShared(t) ==
  /\ Running
  /\ idle # <<>>
  /\ Goto(t, "open_test", "using")
  /\ active' = active + 1
  /\ held' = [held EXCEPT ![t] = Head(idle)]
  /\ mutex' = NoThread
  /\ UNCHANGED <<phase, waiters, idle, live, thrown, mounts, todo>>

OpenIdle(t) ==
  /\ Running
  /\ idle # <<>>
  /\ Goto(t, "open_test", "using")
  /\ active' = active + 1
  /\ held' = [held EXCEPT ![t] = Head(idle)]
  /\ idle' = Tail(idle)
  /\ mutex' = NoThread
  /\ UNCHANGED <<phase, waiters, live, thrown, mounts, todo>>

OpenNew(t) ==
  /\ Running
  /\ idle = <<>>
  /\ ~MustWait
  /\ Goto(t, "open_test", "constructing")
  /\ active' = active + 1
  /\ mutex' = NoThread
  /\ UNCHANGED <<phase, waiters, idle, live, held, thrown, mounts, todo>>

\* construct() runs outside the mutex, and so do the chunks of the universes.
Construct(t) ==
  /\ Running
  /\ Goto(t, "constructing", "using")
  /\ \E s \in States \ live :
       /\ live' = live \union {s}
       /\ held' = [held EXCEPT ![t] = s]
  /\ UNCHANGED <<phase, mutex, waiters, active, idle, thrown, mounts, todo>>

(***************************************************************************)
(* construct() throws.  scoped_state closes the half-made universe; the    *)
(* managed_state was never constructed, so no close() follows and          *)
(* active_states_ stays incremented.  During setup the exception becomes a *)
(* Lua error in the script; inside a handler it ends the process.          *)
(***************************************************************************)
ConstructFail(t) ==
  /\ Running
  /\ Goto(t, "constructing", "idle")
  /\ thrown' = thrown + 1
  /\ phase' = IF phase = "setup" THEN "script" ELSE "terminated"
  /\ UNCHANGED <<mutex, waiters, active, idle, live, held, mounts, todo>>
-----------------------------------------------------------------------------
(***************************************************************************)
(* close(), called by ~managed_state.                                      *)
(***************************************************************************)
Finish(t) ==
  /\ Running
  /\ Goto(t, "using", "close_lock")
  /\ UNCHANGED <<phase, mutex, waiters, active, idle, live, held, thrown, mounts,
                 todo>>

CloseLock(t) ==
  /\ Running
  /\ mutex = NoThread
  /\ Goto(t, "close_lock", "close_body")
  /\ mutex' = t
  /\ UNCHANGED <<phase, waiters, active, idle, live, held, thrown, mounts, todo>>

\* The operations constructor ends with its close(); fuse_main comes next.
AfterClose == phase' = IF phase = "setup" THEN "serving" ELSE phase

CloseKeep(t) ==
  /\ Running
  /\ Len(idle) < MaxIdleStates
  /\ Goto(t, "close_body", "idle")
  /\ active' = active - 1
  /\ idle' = Append(idle, held[t])
  /\ held' = [held EXCEPT ![t] = NoState]
  /\ mutex' = NoThread
  /\ AfterClose
  /\ UNCHANGED <<waiters, live, thrown, mounts, todo>>

CloseDrop(t) ==
  /\ Running
  /\ Len(idle) >= MaxIdleStates
  /\ Goto(t, "close_body", "close_free")
  /\ active' = active - 1
  /\ mutex' = NoThread
  /\ UNCHANGED <<phase, waiters, idle, live, held, thrown, mounts, todo>>

\* Faulty variant of CloseFree: the surplus state is released, not closed.
CloseFreeLeaks(t) ==
  /\ Running
  /\ Goto(t, "close_free", "idle")
  /\ held' = [held EXCEPT ![t] = NoState]
  /\ AfterClose
  /\ UNCHANGED <<mutex, waiters, active, idle, live, thrown, mounts, todo>>

\* ~scoped_state runs lua_close after the lock_guard has unlocked.
CloseFree(t) ==
  /\ Running
  /\ Goto(t, "close_free", "idle")
  /\ live' = live \ {held[t]}
  /\ held' = [held EXCEPT ![t] = NoState]
  /\ AfterClose
  /\ UNCHANGED <<mutex, waiters, active, idle, thrown, mounts, todo>>
-----------------------------------------------------------------------------
(***************************************************************************)
(* The pool is gone, or the process is.                                    *)
(***************************************************************************)
Done ==
  /\ phase \in {"build_failed", "destroyed", "terminated"}
  /\ UNCHANGED vars

Owner ==
  \/ BuildState \/ BuildFail \/ BuildDone \/ Mount \/ Unmount
  \/ Collect \/ DestroyIdle \/ DestroyDone

Step(t) ==
  \/ OpenLock(t) \/ OpenWait(t) \/ OpenIdle(t) \/ OpenNew(t)
  \/ Construct(t) \/ ConstructFail(t)
  \/ Finish(t) \/ CloseLock(t) \/ CloseKeep(t) \/ CloseDrop(t) \/ CloseFree(t)

Next ==
  \/ Owner
  \/ \E t \in Threads : Request(t) \/ Step(t) \/ SpuriousWakeup(t)
  \/ Done

Spec == Init /\ [][Next]_vars

(***************************************************************************)
(* Threads keep running, callbacks return and the kernel unmounts a file   *)
(* system nobody uses.  Nothing promises a spurious wakeup, and a          *)
(* behaviour with infinitely many of them is not considered.               *)
(***************************************************************************)
FairSpec ==
  /\ Spec
  /\ WF_vars(Unmount)
  /\ \A t \in Threads : WF_vars(Step(t))
  /\ <>[][\A t \in Threads : ~SpuriousWakeup(t)]_vars
-----------------------------------------------------------------------------
Critical == {"open_test", "close_body"}
Holding == {"using", "close_lock", "close_body", "close_free"}
Counted == {"constructing", "using", "close_lock", "close_body"}
Larger(m, n) == IF m >= n THEN m ELSE n
Limit == Larger(StartStates, MaxStates)

IdleSet == {idle[i] : i \in 1 .. Len(idle)}
At(labels) == {t \in Threads : pc[t] \in labels}
HeldSet == {held[t] : t \in At(Holding)}

\* The values of the variables; active_states_ is a size_t and never wraps.
TypeOK ==
  /\ phase \in Phases
  /\ mutex \in Threads \union {NoThread}
  /\ waiters \subseteq Threads
  /\ active \in Nat
  /\ idle \in Seq(States)
  /\ live \subseteq States
  /\ held \in [Threads -> States \union {NoState}]
  /\ pc \in [Threads -> Labels]
  /\ thrown \in Nat
  /\ mounts \in Nat
  /\ todo \in Nat

(***************************************************************************)
(* Where the threads can be: lock_guard covers the critical sections, and  *)
(* nobody is inside open() or close() while the pool is being built, while *)
(* the script runs between two mounts, or when the pool is collected.      *)
(***************************************************************************)
Control ==
  /\ \A t \in Threads : mutex = t <=> pc[t] \in Critical
  /\ \A t \in Threads : t \in waiters <=> pc[t] = "waiting"
  /\ \A t \in Threads : held[t] # NoState <=> pc[t] \in Holding
  /\ phase \notin {"setup", "serving", "terminated"} => NobodyInside
  /\ phase = "setup" => \A t \in Threads \ {Main} : pc[t] = "idle"

(***************************************************************************)
(* A universe is never in two hands: the idle list holds no duplicate and  *)
(* no state a thread works with, no two threads work with the same state,  *)
(* and everything idle or in use has not been closed.                      *)
(***************************************************************************)
Exclusive ==
  /\ \A i, j \in 1 .. Len(idle) : idle[i] = idle[j] => i = j
  /\ \A t \in At(Holding) : held[t] \notin IdleSet
  /\ \A t, u \in At(Holding) : held[t] = held[u] => t = u
  /\ IdleSet \union HeldSet \subseteq live

(***************************************************************************)
(* Nothing leaks: every universe that exists is idle or in a thread's      *)
(* hands, and a collected pool has closed all of them.  A constructor that *)
(* throws is the one exception.                                            *)
(***************************************************************************)
NoLeak ==
  phase # "build_failed" =>
    /\ live \subseteq IdleSet \union HeldSet
    /\ phase = "destroyed" => live = {}

(***************************************************************************)
(* active_states_ counts the states that are lent or being made, plus one  *)
(* for every open() that ever threw.                                       *)
(***************************************************************************)
ActiveCount == active = Cardinality(At(Counted)) + thrown

(***************************************************************************)
(* The size of the pool: what is counted active and what is idle stay      *)
(* together below the larger of start_states and max_states (not below     *)
(* max_states alone), so only states that are just being closed can exceed *)
(* it.                                                                     *)
(***************************************************************************)
PoolBound ==
  /\ active + Len(idle) <= Limit
  /\ Len(idle) <= Larger(StartStates, MaxIdleStates)
  /\ phase # "build_failed" =>
       Cardinality(live) <= Limit + Cardinality(At({"close_free"}))

(***************************************************************************)
(* With a slot for every thread and for every open() that threw, nobody    *)
(* ever blocks on the condition variable.                                  *)
(***************************************************************************)
NobodyWaits == Cardinality(Threads) + thrown <= MaxStates => waiters = {}

(***************************************************************************)
(* The pool implements Lease: a loan lasts from the return of open() to    *)
(* the call of close(), and at most Limit loans are out.                   *)
(***************************************************************************)
LeaseOf(t) == IF pc[t] \in {"using", "close_lock", "close_body"}
              THEN held[t] ELSE NoState

L == INSTANCE Lease WITH
       lease <- [t \in Threads |-> LeaseOf(t)], Capacity <- Limit

ImplementsLease == L!Spec

(***************************************************************************)
(* A mount whose threads all find a slot serves its requests and ends: no  *)
(* thread stays in open() or close() for ever.                             *)
(***************************************************************************)
MountEnds ==
  phase = "serving" /\ Cardinality(Threads) + thrown <= MaxStates
    ~> phase # "serving"

(***************************************************************************)
(* fuse.h on fuse_loop_mt: requests are processed in parallel by several   *)
(* threads.  A request that has reached a thread gets a state eventually,  *)
(* or the process ends.                                                    *)
(***************************************************************************)
RequestsProcessed ==
  \A t \in Threads :
    pc[t] = "open_lock" ~> pc[t] = "using" \/ phase = "terminated"
=============================================================================
