------------------------------ MODULE Session ------------------------------
(***************************************************************************)
(* fuse.main (main.cpp) and the life of the operations object: a script    *)
(* calls fuse.main again and again; every call makes an object, hands it   *)
(* to libfuse as private_data, and leaves it to the destroy handler to     *)
(* delete it.  Handlers of all threads read private_data and borrow a      *)
(* state from the manager the object points to.                            *)
(*                                                                         *)
(* A callback can use files of its own mount: then its thread keeps the    *)
(* borrowed state while another thread serves that request.                *)
(*                                                                         *)
(* The manager is reduced to how many states it lends at a time, to the    *)
(* threads that sleep in open(), and to whom close() wakes (StateMain and  *)
(* StatePool have the rest).  A pool has max_states slots, and does not    *)
(* start with more states than that.                                       *)
(***************************************************************************)
EXTENDS Naturals, FiniteSets

CONSTANTS
  Threads,      \* threads of libfuse
  Main,         \* the thread that called fuse.main
  NoThread,     \* the request comes from another process
  Slots,        \* how many states a pool may lend at a time: max_states
  NumCalls,     \* bound: calls of fuse.main
  NumRequests   \* bound: requests in all

ASSUME SessionAssumption ==
  /\ Main \in Threads /\ NoThread \notin Threads
  /\ IsFiniteSet(Threads)
  /\ Slots \subseteq Nat /\ NumCalls \in Nat /\ NumRequests \in Nat

Null == 0
Objects == 1 .. NumCalls

VARIABLES
  phase,     \* how far fuse.main is; "script" outside of it
  call,      \* which call of fuse.main this is; also names its object
  object,    \* object[o]: "none", "live" or "deleted"
  scoped,    \* what the scoped_ptr of impl_main owns
  private,   \* private_data of libfuse's context
  inited,    \* FUSE_INIT has been answered
  pc,        \* pc[t]: where the handler of thread t is
  serves,    \* serves[t]: "init", "request" or "destroy"
  self,      \* self[t]: the object the handler uses
  asker,     \* asker[t]: the thread whose callback waits for this request
  lost,      \* history: objects whose owner was given up on an error path
  todo,      \* requests still to come
  manager,   \* the script's manager: "main" or "pool"
  slots      \* states the manager can still lend at a time

vars == <<phase, call, object, scoped, private, inited, pc, serves, self, asker,
          lost, todo, manager, slots>>

handlers == <<pc, serves, self, asker>>

pools == <<manager, slots>>

Labels == {"idle", "opening", "waiting", "callback", "asking", "leaving"}
Lending == {t \in Threads : pc[t] \in {"callback", "asking"}}
Waiting == {t \in Threads : pc[t] = "waiting"}
Busy == {t \in Threads : pc[t] # "idle"}

\* A state is there, or a universe may be made.
Free == Cardinality(Lending) < slots

Init ==
  /\ phase = "script" /\ call = 0
  /\ object = [o \in Objects |-> "none"]
  /\ scoped = Null /\ private = Null /\ inited = FALSE
  /\ pc = [t \in Threads |-> "idle"]
  /\ serves = [t \in Threads |-> "request"]
  /\ self = [t \in Threads |-> Null]
  /\ asker = [t \in Threads |-> NoThread]
  /\ lost = {} /\ todo = NumRequests
  /\ \/ manager = "main" /\ slots = 1
     \/ manager = "pool" /\ slots \in Slots

-----------------------------------------------------------------------------
(* impl_main. *)

\* The constructor borrows a state, looks at the script's table and gives
\* the state back.  It sleeps for ever if the manager has none left.
NewOperations ==
  /\ phase = "script" /\ call < NumCalls /\ Free
  /\ call' = call + 1
  /\ object' = [object EXCEPT ![call'] = "live"]
  /\ scoped' = call' /\ phase' = "constructed"
  /\ UNCHANGED <<private, inited, handlers, lost, todo, pools>>

(***************************************************************************)
(* The arguments are refused or the constructor throws: the closure makes  *)
(* it a Lua error, and there is no object.  When it is the open() of a pool*)
(* that throws, its slot stays counted (state_manager_pool.cpp:108).       *)
(***************************************************************************)
NewOperationsFails ==
  /\ phase = "script" /\ call < NumCalls
  /\ call' = call + 1
  /\ \/ UNCHANGED pools
     \/ manager = "pool" /\ Free /\ slots' = slots - 1 /\ UNCHANGED manager
  /\ UNCHANGED <<phase, object, scoped, private, inited, handlers, lost, todo>>

(***************************************************************************)
(* convert(L, 3, ops) raises on a bad flag.  A Lua built as C jumps over   *)
(* the scoped_ptr; a Lua built as C++ unwinds it (FlagsThrow).             *)
(***************************************************************************)
FlagsRaise ==
  /\ phase = "constructed"
  /\ phase' = "script" /\ scoped' = Null
  /\ lost' = lost \union {scoped}
  /\ UNCHANGED <<call, object, private, inited, handlers, todo, pools>>

FlagsThrow ==
  /\ phase = "constructed"
  /\ phase' = "script" /\ scoped' = Null
  /\ object' = [object EXCEPT ![scoped] = "deleted"]
  /\ UNCHANGED <<call, private, inited, handlers, lost, todo, pools>>

\* Faulty form of FuseMain: the scoped_ptr keeps the object as well.
FuseMainShared ==
  /\ phase = "constructed"
  /\ private' = scoped /\ phase' = "looping"
  /\ UNCHANGED <<call, object, scoped, inited, handlers, lost, todo, pools>>

\* release() gives the object to fuse_main, which mounts the file system.
FuseMain ==
  /\ phase = "constructed"
  /\ private' = scoped /\ scoped' = Null /\ phase' = "looping"
  /\ UNCHANGED <<call, object, inited, handlers, lost, todo, pools>>

\* fuse_main fails before there is a file system: bad options, no mount.
FuseMainFails ==
  /\ phase = "constructed"
  /\ lost' = lost \union {scoped} /\ scoped' = Null /\ phase' = "returned"
  /\ UNCHANGED <<call, object, private, inited, handlers, todo, pools>>

\* fuse_main returns: the result goes to the script and ~scoped_ptr runs.
Return ==
  /\ phase = "returned"
  /\ phase' = "script" /\ scoped' = Null
  /\ object' = IF scoped = Null THEN object
               ELSE [object EXCEPT ![scoped] = "deleted"]
  /\ UNCHANGED <<call, private, inited, handlers, lost, todo, pools>>

-----------------------------------------------------------------------------
(* libfuse. *)

Start(t, kind, from) ==
  /\ pc[t] = "idle"
  /\ serves' = [serves EXCEPT ![t] = kind]
  /\ self' = [self EXCEPT ![t] = private]
  /\ asker' = [asker EXCEPT ![t] = from]

\* The first request of the kernel is FUSE_INIT.
CallInit(t) ==
  /\ phase = "looping" /\ ~inited /\ Busy = {}
  /\ Start(t, "init", NoThread)
  /\ pc' = [pc EXCEPT ![t] = "opening"]
  /\ UNCHANGED <<phase, call, object, scoped, private, inited, lost, todo, pools>>

Request(t) ==
  /\ phase = "looping" /\ inited /\ todo > 0
  /\ Start(t, "request", NoThread)
  /\ pc' = [pc EXCEPT ![t] = "opening"]
  /\ todo' = todo - 1
  /\ UNCHANGED <<phase, call, object, scoped, private, inited, lost, pools>>

(***************************************************************************)
(* The callback of thread t uses a file of its own mount.  libfuse starts  *)
(* threads as it needs them, so thread u is free to serve the request.     *)
(***************************************************************************)
Ask(t, u) ==
  /\ phase = "looping" /\ todo > 0
  /\ pc[t] = "callback" /\ serves[t] = "request"
  /\ Start(u, "request", t)
  /\ pc' = [pc EXCEPT ![t] = "asking", ![u] = "opening"]
  /\ todo' = todo - 1
  /\ UNCHANGED <<phase, call, object, scoped, private, inited, lost, pools>>

\* The loop ends when the file system is unmounted and all threads are
\* joined; fuse_main then calls destroy on its own thread.
CallDestroy ==
  /\ phase = "looping" /\ Busy = {}
  /\ Start(Main, "destroy", NoThread)
  /\ pc' = [pc EXCEPT ![Main] = "opening"]
  /\ phase' = "destroying"
  /\ UNCHANGED <<call, object, scoped, private, inited, lost, todo, pools>>

-----------------------------------------------------------------------------
(* Handlers. *)

\* self->manager()->open() returns.
Open(t) ==
  /\ pc[t] = "opening" /\ Free
  /\ pc' = [pc EXCEPT ![t] = "callback"]
  /\ UNCHANGED <<phase, call, object, scoped, private, inited, serves, self,
                 asker, lost, todo, pools>>

\* The pool has to make a universe and construct() throws: no handler catches
\* that, and the process ends.
OpenThrows(t) ==
  /\ manager = "pool" /\ pc[t] = "opening" /\ Free
  /\ phase' = "aborted"
  /\ pc' = [u \in Threads |-> "idle"]
  /\ asker' = [u \in Threads |-> NoThread]
  /\ UNCHANGED <<call, object, scoped, private, inited, serves, self, lost, todo,
                 pools>>

\* open() goes to sleep.
Wait(t) ==
  /\ pc[t] = "opening" /\ ~Free
  /\ pc' = [pc EXCEPT ![t] = "waiting"]
  /\ UNCHANGED <<phase, call, object, scoped, private, inited, serves, self,
                 asker, lost, todo, pools>>

\* pthread_cond_wait may end at any time.
SpuriousWakeup(t) ==
  /\ pc[t] = "waiting"
  /\ pc' = [pc EXCEPT ![t] = "opening"]
  /\ UNCHANGED <<phase, call, object, scoped, private, inited, serves, self,
                 asker, lost, todo, pools>>

\* Faulty form of Close: the main manager does not notify either.
CloseSilent(t) ==
  /\ pc[t] = "callback"
  /\ pc' = [pc EXCEPT ![t] = "leaving"]
  /\ UNCHANGED <<phase, call, object, scoped, private, inited, serves, self,
                 asker, lost, todo, pools>>

(***************************************************************************)
(* The callback returns and close() takes the state back.  That of the     *)
(* main manager wakes one sleeper, that of the pool nobody.                *)
(***************************************************************************)
Close(t) ==
  /\ pc[t] = "callback"
  /\ IF manager = "main" /\ Waiting # {}
     THEN \E u \in Waiting :
            pc' = [pc EXCEPT ![t] = "leaving", ![u] = "opening"]
     ELSE pc' = [pc EXCEPT ![t] = "leaving"]
  /\ UNCHANGED <<phase, call, object, scoped, private, inited, serves, self,
                 asker, lost, todo, pools>>

Forget(t) ==
  /\ self' = [self EXCEPT ![t] = Null]
  /\ asker' = [asker EXCEPT ![t] = NoThread]
  /\ UNCHANGED serves

\* The answer of a request reaches the thread that asked for it.
Answer(t) ==
  /\ pc[t] = "leaving" /\ serves[t] = "request"
  /\ pc' = [u \in Threads |-> CASE u = t -> "idle"
                              [] u = asker[t] -> "callback"
                              [] OTHER -> pc[u]]
  /\ Forget(t)
  /\ UNCHANGED <<phase, call, object, scoped, private, inited, lost, todo, pools>>

\* Faulty form of InitReturns: the handler returns the null pointer.
InitReturnsNull(t) ==
  /\ pc[t] = "leaving" /\ serves[t] = "init"
  /\ pc' = [pc EXCEPT ![t] = "idle"]
  /\ private' = Null /\ inited' = TRUE
  /\ Forget(t)
  /\ UNCHANGED <<phase, call, object, scoped, lost, todo, pools>>

\* What init returns is the private_data of all later requests.
InitReturns(t) ==
  /\ pc[t] = "leaving" /\ serves[t] = "init"
  /\ pc' = [pc EXCEPT ![t] = "idle"]
  /\ private' = self[t] /\ inited' = TRUE
  /\ Forget(t)
  /\ UNCHANGED <<phase, call, object, scoped, lost, todo, pools>>

\* The scoped_ptr of destroy, declared first, runs last; fuse_main returns.
DestroyReturns(t) ==
  /\ pc[t] = "leaving" /\ serves[t] = "destroy"
  /\ pc' = [pc EXCEPT ![t] = "idle"]
  /\ object' = [object EXCEPT ![self[t]] = "deleted"]
  /\ private' = Null /\ inited' = FALSE /\ phase' = "returned"
  /\ Forget(t)
  /\ UNCHANGED <<call, scoped, lost, todo, pools>>

ImplMain ==
  \/ NewOperations \/ NewOperationsFails
  \/ FlagsRaise \/ FlagsThrow \/ FuseMain \/ FuseMainFails \/ Return

Handler(t) ==
  \/ Open(t) \/ OpenThrows(t) \/ Wait(t) \/ Close(t)
  \/ Answer(t) \/ InitReturns(t) \/ DestroyReturns(t)

\* The script has made all its calls, or the process has ended.
Done ==
  /\ (phase = "script" /\ call = NumCalls) \/ phase = "aborted"
  /\ UNCHANGED vars

Next ==
  \/ ImplMain \/ CallDestroy \/ Done
  \/ \E t \in Threads :
       CallInit(t) \/ Request(t) \/ Handler(t) \/ SpuriousWakeup(t)
  \/ \E t, u \in Threads : Ask(t, u)

Spec == Init /\ [][Next]_vars

(***************************************************************************)
(* Threads that do not sleep keep running, callbacks return, and an idle   *)
(* file system is unmounted in the end.  Nothing promises that a sleeper   *)
(* wakes of itself, or that a script calls fuse.main.                      *)
(***************************************************************************)
FairSpec ==
  /\ Spec
  /\ \A t \in Threads : WF_vars(Handler(t))
  /\ WF_vars(FlagsRaise \/ FlagsThrow \/ FuseMain \/ FuseMainFails \/ Return)
  /\ WF_vars(CallDestroy)
-----------------------------------------------------------------------------
TypeOK ==
  /\ phase \in {"script", "constructed", "looping", "destroying", "returned",
               "aborted"}
  /\ call \in 0 .. NumCalls
  /\ object \in [Objects -> {"none", "live", "deleted"}]
  /\ scoped \in 0 .. NumCalls /\ private \in 0 .. NumCalls
  /\ inited \in BOOLEAN
  /\ pc \in [Threads -> Labels]
  /\ serves \in [Threads -> {"init", "request", "destroy"}]
  /\ self \in [Threads -> 0 .. NumCalls]
  /\ asker \in [Threads -> Threads \union {NoThread}]
  /\ lost \subseteq Objects /\ todo \in 0 .. NumRequests
  /\ manager \in {"main", "pool"} /\ slots \in Nat

(***************************************************************************)
(* Every handler works on the object of the mount that is running, from    *)
(* the moment it reads private_data until it has given its state back: no  *)
(* request meets a null pointer or an object that destroy has deleted.     *)
(***************************************************************************)
UseLive == \A t \in Busy : self[t] = call /\ object[self[t]] = "live"

(***************************************************************************)
(* Every object that exists has one owner, the scoped_ptr or libfuse, or   *)
(* was lost on an error path; a script that is back from fuse.main has     *)
(* left no other object behind.                                            *)
(***************************************************************************)
OneOwner ==
  /\ \A o \in Objects : object[o] = "live" =>
       \/ o = scoped /\ o # private /\ o \notin lost
       \/ o = private /\ o # scoped /\ o \notin lost
       \/ o \in lost \ {scoped, private}
  /\ \A o \in {scoped, private} \ {Null} : object[o] = "live"

Ownership == TypeOK /\ OneOwner

(***************************************************************************)
(* The two ways in which the threads of a mount can get stuck.  Every      *)
(* state is held by a callback that waits for a request, and no request    *)
(* gets past open().  Or a thread sleeps although the state it waits for   *)
(* was given back: the pool does not wake it.                              *)
(***************************************************************************)
Entangled ==
  /\ Cardinality(Lending) = slots
  /\ \A t \in Busy : pc[t] \in {"asking", "opening", "waiting"}

Starved == manager = "pool" /\ Waiting # {}

(***************************************************************************)
(* Every mount comes to its end and deletes its object, although callbacks *)
(* use their own mount, unless an open() throws in a handler and ends the  *)
(* process or the threads are stuck for ever: entangled, which takes one   *)
(* callback under the main manager, or starved, under a pool only.  Either *)
(* takes more threads than the manager has slots left.                     *)
(***************************************************************************)
MountDeleted ==
  \A o \in Objects :
    private = o /\ phase = "looping" ~>
      \/ object[o] = "deleted" \/ phase = "aborted"
      \/ [](slots < Cardinality(Threads) /\ (Entangled \/ Starved))
=============================================================================
