----------------------------- MODULE StateMain -----------------------------
(***************************************************************************)
(* state_manager_main.cpp: the manager that lends the one coroutine of the *)
(* script's own Lua universe.  Every fuse operation of every thread goes   *)
(* through the same lua_State, so the mutex, the condition variable and    *)
(* the notify_one of close() serialise the whole file system.              *)
(*                                                                         *)
(* The wait set of the POSIX condition variable is "waiters"; a thread may *)
(* leave it without a signal (spurious wakeup), and then, like a signalled *)
(* thread, it has to lock the mutex again before it re-tests the loop.     *)
(***************************************************************************)
EXTENDS Naturals, FiniteSets

CONSTANTS
  Threads,      \* the threads libfuse runs operations on
  MainState,    \* the coroutine impl_main created
  NoState,      \* the null pointer
  NoThread,     \* the mutex is free
  NumRequests   \* bound: how many operations the kernel sends in all

ASSUME MainAssumption ==
  /\ IsFiniteSet(Threads)
  /\ NoThread \notin Threads
  /\ NoState # MainState
  /\ NumRequests \in Nat

VARIABLES
  mutex,      \* the owner of mutex_, or NoThread
  waiters,    \* threads blocked in condition_.wait
  state,      \* the member state_
  held,       \* held[t]: the state_ of thread t's managed_state
  pc,         \* pc[t]: where thread t is in open() and close()
  todo        \* operations still to come

vars == <<mutex, waiters, state, held, pc, todo>>

Labels == {"idle", "open_lock", "open_test", "waiting", "using",
           "close_lock", "close_set", "close_notify"}

Init ==
  /\ mutex = NoThread
  /\ waiters = {}
  /\ state = MainState
  /\ held = [t \in Threads |-> NoState]
  /\ pc = [t \in Threads |-> "idle"]
  /\ todo = NumRequests

Goto(t, from, to) ==
  /\ pc[t] = from
  /\ pc' = [pc EXCEPT ![t] = to]

(***************************************************************************)
(* A request reaches thread t and its handler constructs a managed_state.  *)
(***************************************************************************)
Request(t) ==
  /\ todo > 0
  /\ Goto(t, "idle", "open_lock")
  /\ todo' = todo - 1
  /\ UNCHANGED <<mutex, waiters, state, held>>

(***************************************************************************)
(* lock_guard in open(), and the re-acquisition that ends a wait.          *)
(***************************************************************************)
OpenLock(t) ==
  /\ mutex = NoThread
  /\ Goto(t, "open_lock", "open_test")
  /\ mutex' = t
  /\ UNCHANGED <<waiters, state, held, todo>>

(***************************************************************************)
(* while (!state_) condition_.wait(lock): the wait releases the mutex.     *)
(***************************************************************************)
OpenWait(t) ==
  /\ state = NoState
  /\ Goto(t, "open_test", "waiting")
  /\ waiters' = waiters \union {t}
  /\ mutex' = NoThread
  /\ UNCHANGED <<state, held, todo>>

SpuriousWakeup(t) ==
  /\ t \in waiters
  /\ Goto(t, "waiting", "open_lock")
  /\ waiters' = waiters \ {t}
  /\ UNCHANGED <<mutex, state, held, todo>>

\* Faulty variant of OpenTake: state_ is not cleared.
OpenTakeShared(t) ==
  /\ state # NoState
  /\ Goto(t, "open_test", "using")
  /\ held' = [held EXCEPT ![t] = state]
  /\ mutex' = NoThread
  /\ UNCHANGED <<waiters, state, todo>>

(***************************************************************************)
(* The rest of open(): take state_ and leave the null pointer.             *)
(***************************************************************************)
OpenTake(t) ==
  /\ state # NoState
  /\ Goto(t, "open_test", "using")
  /\ held' = [held EXCEPT ![t] = state]
  /\ state' = NoState
  /\ mutex' = NoThread
  /\ UNCHANGED <<waiters, todo>>

(***************************************************************************)
(* The handler is done with the Lua state: ~managed_state calls close().   *)
(***************************************************************************)
Finish(t) ==
  /\ Goto(t, "using", "close_lock")
  /\ UNCHANGED <<mutex, waiters, state, held, todo>>

CloseLock(t) ==
  /\ mutex = NoThread
  /\ Goto(t, "close_lock", "close_set")
  /\ mutex' = t
  /\ UNCHANGED <<waiters, state, held, todo>>

CloseSet(t) ==
  /\ Goto(t, "close_set", "close_notify")
  /\ state' = held[t]
  /\ held' = [held EXCEPT ![t] = NoState]
  /\ UNCHANGED <<mutex, waiters, todo>>

\* Faulty variant of CloseNotify: nobody is notified.
CloseSilent(t) ==
  /\ Goto(t, "close_notify", "idle")
  /\ mutex' = NoThread
  /\ UNCHANGED <<waiters, state, held, todo>>

(***************************************************************************)
(* notify_one, then the lock_guard unlocks.  The signal picks any waiter;  *)
(* a signal that wakes more than one is this step and spurious wakeups.    *)
(***************************************************************************)
CloseNotify(t) ==
  /\ pc[t] = "close_notify"
  /\ \/ /\ waiters = {}
        /\ pc' = [pc EXCEPT ![t] = "idle"]
        /\ UNCHANGED waiters
     \/ \E w \in waiters :
          /\ pc' = [pc EXCEPT ![t] = "idle", ![w] = "open_lock"]
          /\ waiters' = waiters \ {w}
  /\ mutex' = NoThread
  /\ UNCHANGED <<state, held, todo>>

(***************************************************************************)
(* Every request has been answered: the file system is unmounted.          *)
(***************************************************************************)
Done ==
  /\ todo = 0
  /\ \A t \in Threads : pc[t] = "idle"
  /\ UNCHANGED vars

Step(t) ==
  \/ OpenLock(t) \/ OpenWait(t) \/ OpenTake(t)
  \/ Finish(t) \/ CloseLock(t) \/ CloseSet(t) \/ CloseNotify(t)

Next ==
  \/ \E t \in Threads : Request(t) \/ Step(t) \/ SpuriousWakeup(t)
  \/ Done

Spec == Init /\ [][Next]_vars

(***************************************************************************)
(* Threads keep running and callbacks return.  Nothing promises that a     *)
(* request arrives or that a wait ends without a signal, and a behaviour   *)
(* in which spurious wakeups never stop is not considered: under it a      *)
(* thread could take and release the mutex for ever.                       *)
(***************************************************************************)
FairSpec ==
  /\ Spec
  /\ \A t \in Threads : WF_vars(Step(t))
  /\ <>[][\A t \in Threads : ~SpuriousWakeup(t)]_vars
-----------------------------------------------------------------------------
Critical == {"open_test", "close_set", "close_notify"}
Owning == {"using", "close_lock", "close_set"}

TypeOK ==
  /\ mutex \in Threads \union {NoThread}
  /\ waiters \subseteq Threads
  /\ state \in {MainState, NoState}
  /\ held \in [Threads -> {MainState, NoState}]
  /\ pc \in [Threads -> Labels]
  /\ todo \in Nat

\* lock_guard covers exactly the critical sections of open() and close().
MutexOwner ==
  /\ \A t \in Threads : mutex = t <=> pc[t] \in Critical
  /\ \A t \in Threads : t \in waiters <=> pc[t] = "waiting"

(***************************************************************************)
(* The one coroutine is always in exactly one place: in the manager, or in *)
(* the hands of exactly one thread between its open() and its close().     *)
(***************************************************************************)
Custody ==
  /\ \A t \in Threads : held[t] = MainState <=> pc[t] \in Owning
  /\ \A t \in Threads : held[t] = MainState => state = NoState
  /\ \A t, u \in Threads : held[t] = MainState /\ held[u] = MainState => t = u
  /\ state = NoState => \E t \in Threads : held[t] = MainState

Inv == TypeOK /\ MutexOwner /\ Custody

(***************************************************************************)
(* No wakeup is lost: when the state is back in the manager and somebody   *)
(* still waits for it, some thread is about to signal, or has been woken   *)
(* and will test state_ again.                                             *)
(***************************************************************************)
NoLostWakeup ==
  state # NoState /\ waiters # {} =>
    \E t \in Threads : pc[t] \in {"open_lock", "open_test", "close_notify"}

(***************************************************************************)
(* The manager implements Lease with room for one loan.                    *)
(***************************************************************************)
L == INSTANCE Lease WITH lease <- held, States <- {MainState}, Capacity <- 1

ImplementsLease == L!Spec

(***************************************************************************)
(* Every open() of a finite workload gets the state, although a thread     *)
(* that was signalled can find the state gone and has to wait again.       *)
(***************************************************************************)
OpenReturns ==
  \A t \in Threads : pc[t] = "open_lock" ~> pc[t] = "using"
=============================================================================
