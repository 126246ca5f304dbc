------------------------------ MODULE Userdata ------------------------------
(***************************************************************************)
(* C++ objects inside userdata, and Lua values that C++ objects refer to:  *)
(* luaX_new, luaX_binder and luaX_reference (luaX.hpp), the handle and     *)
(* callback classes of the bind test module, and the fill handle that the  *)
(* scoped_handle of readdir points to.                                     *)
(*                                                                         *)
(* A callback owns three entries of the registry: its function, the value  *)
(* it is called with, and a thread of its own to run in.  The registry is  *)
(* a root of the collector, so they live until the destructor of the       *)
(* callback gives the entries back.  A scoped_handle only has the address  *)
(* of its userdata.                                                        *)
(*                                                                         *)
(* The collector can run at any allocation (Collect); the __gc of what it  *)
(* found unreachable runs later, one by one (Finalize), and such userdata  *)
(* are freed by a later collection.                                        *)
(***************************************************************************)
EXTENDS Integers, Sequences, FiniteSets, SequencesExt

CONSTANTS
  Handles,     \* userdata of class handle, the keys of callbacks
  Callbacks,   \* userdata of class callback
  Coroutines,  \* threads the script makes
  Fills,       \* fill handles, one for each readdir request
  NumSlots,    \* bound: entries of the registry
  MaxMade,     \* bound: userdata and coroutines made
  MaxDepth     \* bound: callbacks that run inside one another

ASSUME UserdataAssumption ==
  /\ NumSlots \in Nat /\ MaxMade \in Nat /\ MaxDepth \in Nat
  /\ \A S \in {Handles, Callbacks, Coroutines, Fills} :
       IsFiniteSet(S)

Function(c) == <<"function", c>>   \* the Lua function callback c was given
Thread(c) == <<"thread", c>>       \* what lua_newthread made for c
Nil == <<"nil", "">>               \* a free entry of the registry
Main == <<"main", "">>             \* the script's main thread

Slots == 1 .. NumSlots
Scripts == {Main} \union Coroutines
Parts == {Function(c) : c \in Callbacks} \union {Thread(c) : c \in Callbacks}
Collectable == Handles \union Callbacks   \* their metatables have __gc
Objects == Handles \union Callbacks \union Coroutines \union Fills \union Parts

\* Every object is of one kind.
ASSUME KindsAssumption ==
  LET kinds == <<Handles, Callbacks, Coroutines, Fills, Parts, {Nil, Main}>>
  IN \A i, j \in 1 .. 6 : i < j => kinds[i] \intersect kinds[j] = {}

VARIABLES
  status,     \* status[o]: none, live, doomed (its __gc is due), done, freed
  variables,  \* variables[t]: objects in variables of the script's thread t
  upvalues,   \* upvalues[c]: what the function of callback c refers to
  registry,   \* registry[i]: the value of entry i
  refs,       \* refs[c]: the entries of c: thread, function and key
  state,      \* state[c]: the lua_State c runs its function in
  running,    \* callbacks that run, each inside the one before
  param,      \* fill handles that are a parameter of a running function
  scoped,     \* fill handles some scoped_handle points to
  loose,      \* history: fill handles whose parameter ended before the scope
  leaked,     \* history: entries nobody will give back
  undefined   \* history: freed memory was written

heap == <<status, variables, upvalues>>
bound == <<registry, refs, state, leaked>>
fills == <<param, scoped, loose, undefined>>
vars == <<heap, bound, running, fills>>

Init ==
  /\ status = [o \in Objects |-> "none"]
  /\ variables = [t \in Scripts |-> {}]
  /\ upvalues = [c \in Callbacks |-> {}]
  /\ registry = [i \in Slots |-> Nil]
  /\ refs = [c \in Callbacks |-> <<>>]
  /\ state = [c \in Callbacks |-> Main]
  /\ running = <<>>
  /\ param = {} /\ scoped = {} /\ loose = {} /\ leaked = {}
  /\ undefined = FALSE
-----------------------------------------------------------------------------
\* Faulty form of OnStacks: run() takes its arguments from the stack first.
OnStacksCleared == param \union UNION {upvalues[running[d].callback] :
                                         d \in DOMAIN running}

(***************************************************************************)
(* While run() is on the C stack its arguments, and so the callback, are   *)
(* on the Lua stack, and so are the function it called and its parameter.  *)
(***************************************************************************)
OnStacks ==
  param \union UNION {{running[d].callback, running[d].key,
                       Function(running[d].callback)} : d \in DOMAIN running}

Registered == {registry[i] : i \in Slots} \ {Nil}

\* What Lua values refer to: no C++ object is among the sources.
Successors(o) ==
  IF o \in Coroutines THEN variables[o]
  ELSE UNION {upvalues[c] : c \in {d \in Callbacks : Function(d) = o}}

\* Coroutines and functions refer to userdata, which refer to nothing.
Reachable ==
  LET roots == variables[Main] \union OnStacks \union Registered
  IN roots \union UNION {Successors(o) : o \in roots}

\* The callbacks a script gets from some, by running their functions: the
\* least set that has them and what the functions of its members refer to.
Closed(callbacks) == \A c \in callbacks : upvalues[c] \subseteq callbacks

LedTo(callbacks) ==
  {c \in Callbacks : \A found \in SUBSET Callbacks :
     callbacks \subseteq found /\ Closed(found) => c \in found}

\* What the script can still get hold of.  A callback hands out its key.
Usable ==
  LET held == variables[Main] \union OnStacks
      inside == held \union UNION {variables[co] : co \in held \intersect Coroutines}
      callbacks == LedTo(inside \intersect Callbacks)
  IN inside \union callbacks
     \union {registry[refs[c][3]] : c \in {d \in callbacks : refs[d] # <<>>}}

\* A callback whose function leads back to it.
Cyclic(c) == c \in LedTo(upvalues[c])
-----------------------------------------------------------------------------
(***************************************************************************)
(* The script.  Its code runs in the main thread or in a coroutine it      *)
(* resumes; the function of a callback is code of the script too.          *)
(***************************************************************************)
CanRun(t) == t = Main \/ (t \in Usable /\ status[t] = "live")

Known(t) == variables[t] \union variables[Main]

\* Room for one more object.
New(o) ==
  /\ status[o] = "none"
  /\ Cardinality({p \in Objects \ Parts : status[p] # "none"}) < MaxMade

MakeHandle(h, t) ==
  /\ New(h) /\ CanRun(t)
  /\ status' = [status EXCEPT ![h] = "live"]
  /\ variables' = [variables EXCEPT ![t] = @ \union {h}]
  /\ UNCHANGED <<upvalues, bound, running, fills>>

Spawn(co) ==
  /\ New(co)
  /\ status' = [status EXCEPT ![co] = "live"]
  /\ variables' = [variables EXCEPT ![Main] = @ \union {co}]
  /\ UNCHANGED <<upvalues, bound, running, fills>>

Drop(o, t) ==
  /\ o \in variables[t] /\ CanRun(t)
  /\ variables' = [variables EXCEPT ![t] = @ \ {o}]
  /\ UNCHANGED <<status, upvalues, bound, running, fills>>

\* The function of a callback stores the key it was called with.
KeepKey ==
  /\ running # <<>>
  /\ variables' = [variables EXCEPT ![Main] = @ \union {running[Len(running)].key}]
  /\ UNCHANGED <<status, upvalues, bound, running, fills>>
-----------------------------------------------------------------------------
(***************************************************************************)
(* new_callback: luaX_new makes the userdata and constructs the object,    *)
(* which makes a thread and refers to three values; the metatable comes    *)
(* last.  Which free entry luaL_ref takes makes no difference.             *)
(***************************************************************************)
FreeSlots == {i \in Slots : registry[i] = Nil}

Taken(n) == CHOOSE slots \in [1 .. n -> FreeSlots] : IsInjective(slots)

Registering(values) ==
  LET slots == Taken(Len(values))
  IN [i \in Slots |-> IF \E n \in 1 .. Len(values) : slots[n] = i
                      THEN values[CHOOSE n \in 1 .. Len(values) : slots[n] = i]
                      ELSE registry[i]]

Anchored(c, h) == <<Thread(c), Function(c), h>>

\* Faulty form of StateOf: the callback runs in the thread it was made in.
StateOfCaller(c, t) == t

StateOf(c, t) == Thread(c)

\* Callbacks are alike, so one that was not made stands for the others.
Parameters(c, h, t) ==
  /\ h \in Known(t) /\ CanRun(t)
  /\ New(c) /\ c = CHOOSE d \in Callbacks : status[d] = "none"
  /\ Cardinality(FreeSlots) >= 3

MakeCallback(c, h, t, up) ==
  /\ Parameters(c, h, t)
  /\ up \subseteq Known(t) \union {c}
  /\ status' = [o \in Objects |->
       IF o \in {c, Thread(c), Function(c)} THEN "live" ELSE status[o]]
  /\ upvalues' = [upvalues EXCEPT ![c] = up]
  /\ variables' = [variables EXCEPT ![Main] = @ \union {c}]
  /\ registry' = Registering(Anchored(c, h))
  /\ refs' = [refs EXCEPT ![c] = Taken(Len(Anchored(c, h)))]
  /\ state' = [state EXCEPT ![c] = StateOf(c, t)]
  /\ UNCHANGED <<leaked, running, fills>>

(***************************************************************************)
(* luaL_ref runs out of memory after n entries.  A Lua built as C jumps    *)
(* out of the constructor, and the userdata has no metatable yet: nobody   *)
(* gives the entries back.  A Lua built as C++ unwinds the base classes,   *)
(* which is the case n = 0.                                                *)
(***************************************************************************)
MakeCallbackFails(c, h, t, n) ==
  /\ Parameters(c, h, t)
  /\ status' = [o \in Objects |->
       IF o = c THEN "freed"
       ELSE IF o \in {Thread(c), Function(c)} THEN "live" ELSE status[o]]
  /\ registry' = Registering(SubSeq(Anchored(c, h), 1, n))
  /\ leaked' = leaked \union ToSet(Taken(n))
  /\ UNCHANGED <<variables, upvalues, refs, state, running, fills>>
-----------------------------------------------------------------------------
(***************************************************************************)
(* callback::run: function and key are fetched from the registry into the  *)
(* callback's own thread, or the caller's (use_current), and lua_pcall     *)
(* runs the function.  Its error message is popped, so both ends agree.    *)
(***************************************************************************)
Current == IF running = <<>> THEN Main ELSE Last(running).thread

Run(c, use_current) ==
  /\ Len(running) < MaxDepth /\ refs[c] # <<>> /\ c \in Usable
  /\ running' = Append(running,
       [callback |-> c, key |-> registry[refs[c][3]],
        thread |-> IF use_current THEN Current ELSE state[c]])
  /\ UNCHANGED <<heap, bound, fills>>

RunEnds ==
  /\ running # <<>>
  /\ running' = Front(running)
  /\ UNCHANGED <<heap, bound, fills>>
-----------------------------------------------------------------------------
\* Faulty form of Readdir: the handle is not passed to the function.
ReaddirUnrooted(f) ==
  /\ New(f) /\ running = <<>> /\ scoped = {}
  /\ status' = [status EXCEPT ![f] = "live"]
  /\ scoped' = scoped \union {f}
  /\ UNCHANGED <<variables, upvalues, bound, running, param, loose, undefined>>

(***************************************************************************)
(* readdir with its scoped_handle.  The parameter of the script's function *)
(* is what keeps the fill handle; the function may assign to it (LetGo) or *)
(* keep the handle elsewhere.                                              *)
(***************************************************************************)
Readdir(f) ==
  /\ New(f) /\ running = <<>> /\ scoped = {}
  /\ status' = [status EXCEPT ![f] = "live"]
  /\ scoped' = scoped \union {f} /\ param' = param \union {f}
  /\ UNCHANGED <<variables, upvalues, bound, running, loose, undefined>>

LetGo(f) ==
  /\ f \in param
  /\ param' = param \ {f} /\ loose' = loose \union {f}
  /\ UNCHANGED <<heap, bound, running, scoped, undefined>>

KeepFill(f) ==
  /\ f \in param
  /\ variables' = [variables EXCEPT ![Main] = @ \union {f}]
  /\ UNCHANGED <<status, upvalues, bound, running, fills>>

(***************************************************************************)
(* ~scoped_handle writes to the userdata, whether it is still there or     *)
(* not.  lua_pcall has ended the parameter just before.  In between call() *)
(* allocates only when the function raised a number that is no integer,    *)
(* which lua_tostring makes a string (ReaddirRaises).                      *)
(***************************************************************************)
ReaddirRaises(f) ==
  /\ f \in scoped /\ running = <<>> /\ f \in param
  /\ param' = param \ {f} /\ loose' = loose \union {f}
  /\ UNCHANGED <<heap, bound, running, scoped, undefined>>

ResetScope(f) ==
  /\ f \in scoped /\ running = <<>>
  /\ param' = param \ {f} /\ scoped' = scoped \ {f}
  /\ undefined' = (undefined \/ status[f] = "freed")
  /\ UNCHANGED <<heap, bound, running, loose>>
-----------------------------------------------------------------------------
(***************************************************************************)
(* The collector.                                                          *)
(***************************************************************************)
Swept(o, keep) ==
  IF o \in keep \/ status[o] \in {"none", "doomed", "freed"} THEN status[o]
  ELSE IF status[o] = "live" /\ o \in Collectable THEN "doomed"
  ELSE "freed"

Collect ==
  LET keep == Reachable
      swept == [o \in Objects |-> Swept(o, keep)]
  IN /\ swept # status
     /\ status' = swept
     /\ UNCHANGED <<variables, upvalues, bound, running, fills>>

\* Faulty form of Unreferenced: only ~luaX_binder_impl runs.
UnreferencedThread(c) == {refs[c][1]}

\* ~luaX_reference_impl, then ~luaX_binder_impl.
Unreferenced(c) == ToSet(refs[c])

FinalizeHandle(h) ==
  /\ status[h] = "doomed"
  /\ status' = [status EXCEPT ![h] = "done"]
  /\ UNCHANGED <<variables, upvalues, bound, running, fills>>

FinalizeCallback(c) ==
  /\ status[c] = "doomed"
  /\ status' = [status EXCEPT ![c] = "done"]
  /\ registry' = [i \in Slots |->
                    IF i \in Unreferenced(c) THEN Nil ELSE registry[i]]
  /\ refs' = [refs EXCEPT ![c] = <<>>]
  /\ UNCHANGED <<variables, upvalues, state, leaked, running, fills>>

Finalize == \/ \E h \in Handles : FinalizeHandle(h)
            \/ \E c \in Callbacks : FinalizeCallback(c)

Make ==
  \/ \E h \in Handles, t \in Scripts : MakeHandle(h, t)
  \/ \E co \in Coroutines : Spawn(co)
  \/ \E c \in Callbacks, h \in Handles, t \in Scripts :
       \/ \E up \in {{}} \union {{d} : d \in Callbacks} :
            MakeCallback(c, h, t, up)
       \/ \E n \in 0 .. 2 : MakeCallbackFails(c, h, t, n)

Serve(f) ==
  Readdir(f) \/ LetGo(f) \/ KeepFill(f) \/ ReaddirRaises(f) \/ ResetScope(f)

Next ==
  \/ Make
  \/ \E o \in Objects, t \in Scripts : Drop(o, t)
  \/ KeepKey
  \/ \E c \in Callbacks, use_current \in BOOLEAN : Run(c, use_current)
  \/ RunEnds
  \/ \E f \in Fills : Serve(f)
  \/ Collect \/ Finalize

Spec == Init /\ [][Next]_vars

\* A program that allocates keeps the collector going.
FairSpec == Spec /\ WF_vars(Collect) /\ WF_vars(Finalize)
-----------------------------------------------------------------------------
(***************************************************************************)
(* From its construction until its destructor, the three entries of a      *)
(* callback hold its thread, its function and its key, none of them is     *)
(* freed, the key is not destructed, and the thread is the one it runs in: *)
(* whatever the script drops, wherever the callback was made.              *)
(***************************************************************************)
Held ==
  \A c \in Callbacks : refs[c] # <<>> =>
    /\ status[c] \in {"live", "doomed"}
    /\ registry[refs[c][1]] = state[c] /\ status[state[c]] = "live"
    /\ registry[refs[c][2]] = Function(c) /\ status[Function(c)] = "live"
    /\ status[registry[refs[c][3]]] = "live"

(***************************************************************************)
(* While a callback runs, nested or recursive, it is not finalized, and    *)
(* what it runs, its key and its thread are not freed, although the        *)
(* function can drop the last variable that holds the callback.            *)
(***************************************************************************)
RunSafe ==
  \A d \in DOMAIN running :
    /\ status[running[d].callback] = "live"
    /\ running[d].thread # Main => status[running[d].thread] = "live"
    /\ status[running[d].key] = "live"

(***************************************************************************)
(* Every entry in use belongs to exactly one callback that is not yet      *)
(* destructed, or was given up by a constructor that failed: none is       *)
(* shared, and none stays behind.                                          *)
(***************************************************************************)
SlotsOwned ==
  \A i \in Slots :
    LET owners == {c \in Callbacks : i \in ToSet(refs[c])}
    IN IF registry[i] = Nil \/ i \in leaked THEN owners = {}
       ELSE Cardinality(owners) = 1

(***************************************************************************)
(* ~scoped_handle finds its fill handle in memory unless the script's      *)
(* function has assigned to its parameter, or has raised a number that is  *)
(* made a string: a handle that is only passed, called or kept is safe.    *)
(***************************************************************************)
ResetLive == undefined => loose # {}

(***************************************************************************)
(* What the script cannot get hold of any more is destructed in the end:   *)
(* a callback, and after it, in a later collection, its key.  Not so for a *)
(* callback whose function leads back to it, which the registry keeps      *)
(* until the state is closed.                                              *)
(***************************************************************************)
Abandoned(o) == status[o] # "none" /\ o \notin Usable

Released ==
  \A o \in Collectable :
    Abandoned(o) ~> \/ status[o] \in {"done", "freed"}
                    \/ \E c \in Callbacks : Cyclic(c)
=============================================================================
