# A verification development for dromozoa-fuse

dromozoa-fuse binds libfuse 2.9 to Lua. A script calls
`fuse.main(argv, manager, flags)`; libfuse then calls C++ handlers on threads
of its own; each handler borrows a Lua state from the *state manager* the
script chose, calls the script's function for the operation in it, and gives
the state back. Underneath lies dromozoa-bind, a header library that puts C++
functions and objects into Lua. The TLA+ modules in this directory model both,
TLC checks them on small instances, and TLAPS proves the main safety results
for every instance.

Contents

1. Inventory of the system
2. What is hard in it
3. The modules and how they correspond to the code
4. The runs, their bounds, and what they show
5. Fairness
6. What is proved, and how
7. Where the code and its documents disagree
8. Behaviour worth knowing that no run flags
9. What is only model-checked, and what is not modelled
10. Plan
11. How to run it

## 1. Inventory of the system

| Component | Source | State | Operations | Modules |
|---|---|---|---|---|
| state manager interface, `managed_state` | `common.hpp`, `state_manager.cpp`, `managed_state.cpp` | the state a handler holds | `open()`, `close()`, `__gc` | Lease |
| main manager | `state_manager_main.cpp` | one coroutine in `state_`, a mutex, a condition variable | `open()`, `close()` | StateMain |
| pool manager | `state_manager_pool.cpp` | `active_states_`, `idle_states_`, a mutex, a condition variable | constructor, `open()`, `construct()`, `close()`, destructor | StatePool |
| fuse operations | `operations.cpp` | the registered operations; per request: a borrowed state and its stack | 37 handlers, the constructor | FuseApi, Operations |
| fill handle | `fill_dir.cpp`, `handle.cpp` | libfuse's filler function and buffer, until reset | `__call`, `reset()` | Operations, Userdata |
| `fuse.main` | `main.cpp`, `module.cpp` | who owns the operations object | `impl_main`, and `init`/`destroy` of `operations.cpp`; `get_context` | Session, Programs |
| conversions | `convert.cpp` | none: C structures to Lua tables and back | `convert` for nine structures | Convert |
| luaX: stack, fields, checks, closures | `bind/dromozoa/bind/luaX.hpp` | the Lua stack; the failure policy | push, get and set fields, check integers and userdata, closures | LuaStack, Programs, Closure, OptRange |
| luaX: objects and references | `luaX.hpp`, `bind/handle.cpp`, `bind/callback.cpp` | userdata, registry entries | `luaX_new`, `luaX_binder`, `luaX_reference`, `__gc` | Userdata |
| thread and `atomic_count` | `thread.hpp`, `atomic.hpp`, `mutex.hpp` | joinable threads, a counter under a mutex | create, join, destructor, increments | Workers |
| `system_error` | `system_error.hpp` | a cached message, a buffer, `errno` | `what()`, the search for a message | Strerror |
| scripts and examples | `test/*.lua` | | what a callback may do | Operations |
| libfuse, Lua | external | threads and requests; stacks, the collector, `lua_pcall` | as this code uses them | |

How they interact. `impl_main` makes an `operations` object on the script's
thread; its constructor already borrows a state once, to see which functions
the script's table has. The object is the `private_data` of libfuse. Every
handler reads `private_data`, constructs a `managed_state` (`open()`), restores
the Lua stack with a `luaX_top_saver`, converts structures to tables with
`scoped_converter`s, calls the script with `lua_pcall`, converts the result,
and leaves it to the destructors, in reverse order, to reset a fill handle,
write tables back, restore the stack and call `close()`. The handler `destroy`
deletes the object. The manager is a userdata that the script owns and that
can serve several calls of `fuse.main`. Every function a script calls is
wrapped by a closure of luaX, which counts results and turns exceptions into
results or errors.

What makes each component correct:

- **managers**: a Lua state is never used by two threads; a state that was
  borrowed comes back; no universe is leaked or used after `lua_close`; nobody
  waits for ever for a state that is free; the pool stays within its limits;
- **operations**: the script sees the parameters of the prototype in `fuse.h`
  and libfuse gets back what the script left; whatever the script does, the
  state goes back with the stack it came with; nothing is written beyond a
  buffer, or to a directory buffer that is gone; every request is answered;
- **fuse.main**: handlers only meet a live object; the object has one owner;
  every mount ends and deletes its object;
- **conversions**: what the script leaves alone stays, what it writes arrives
  or is refused, and nothing old shows through;
- **luaX**: the caller of a C++ function receives its results and nothing
  else, on every path; a check lets through only numbers within its bounds and
  as they were given;
- **objects**: what C++ refers to is not freed, what nothing refers to is
  destructed, and every registry entry is given back;
- **threads**: no increment is lost, and no thread outlives the frame it uses;
- **system_error**: there is always a message, the search for it ends, and
  neither `errno` nor memory is lost.

## 2. What is hard in it

The hazards, each at its line and with the properties that watch it, are in
`PROJECT.json`. The main groups are:

- **Interleavings.** `open()` and `close()` of many threads under one mutex
  and one condition variable, with spurious wakeups and with threads that
  barge in between a signal and its receiver; construction and destruction of
  a universe *outside* the mutex, while the slot is already, or still, counted.
- **Partial failure.** `construct()` can throw in the pool's constructor, in
  the setup of a mount and inside a handler; converting a result can raise
  outside `lua_pcall`; `fuse_main` can fail before there is a file system;
  `luaL_ref` can run out of memory in the middle of a constructor, and
  `pthread_create` or `realloc` in the middle of a loop.
- **Stale things.** A script that keeps a fill handle; an operations table
  registered from one universe and used in another; structures with old
  contents; `private_data`; the address of a userdata that may be collected.
- **The collector**, which can run at every allocation and finalizes in an
  order of its own, while C++ holds references it knows nothing of.
- **Deadlock.** A callback that uses its own mount keeps the state that
  the request it sent may need.
- **Limits of integers and buffers.** Widths, signs, bit-fields, doubles,
  buffer sizes, fractions, mixed signed and unsigned bounds.

Nothing is persisted, and libfuse delivers every request exactly once, so
recovery and unreliable delivery are no subject here.

## 3. The modules and how they correspond to the code

```
          Lease              FuseApi          abstract: lend and give back;
         /  |  \             /                struct fuse_operations as a service
StateMain StatePool  Operations               the managers refine Lease; Operations
    |        |           |                    uses Lease and implements FuseApi
    ...Proofs ...Proofs  ...Proofs

Session -- SessionProofs                      fuse.main, init, destroy, nested requests
Convert -- ConvertProofs                      structures, tables, integers, times
Userdata -- UserdataProofs                    objects, references, the collector

LuaStack <- Programs <- Closure               the stack, the functions, how they end
OptRange -- OptRangeProofs                    substring bounds
Workers, Strerror                             threads and a counter; error messages
Bind -- BindProofs                            the four above as one library

MC<module>                                    values of the constants for TLC
```

**Lease** is what `common.hpp` promises: `Grant` is a return of `open()`,
`Return` a call of `close()`; `lease[t]` is the state thread `t` holds, no two
threads hold the same one, and at most `Capacity` are out.

**StateMain** is `state_manager_main.cpp`. `mutex` is the owner of the
`lock_guard`, `waiters` the wait set of the condition variable, `state` is the
member `state_`, and `held[t]` is the state inside `t`'s `managed_state`. One
action is one step between two points where another thread can interfere:
taking the mutex (`OpenLock`, `CloseLock`), entering the wait, which releases
it (`OpenWait`), taking the state and unlocking (`OpenTake`), putting it back
(`CloseSet`), and `notify_one` with the unlock (`CloseNotify`). A woken thread
goes back to `open_lock`, where a newcomer can overtake it.

**StatePool** is `state_manager_pool.cpp` and the script that owns the pool:
`phase` says whether the pool is being built, idle in the script, in the setup
of a mount, serving, being destroyed, and so on. `live` is the set of
universes that exist (`luaL_newstate` without `lua_close`). `OpenNew` counts
the slot and unlocks, and `Construct`/`ConstructFail` follow as steps of their
own; `CloseDrop` releases the slot and unlocks, and `CloseFree` is the later
`lua_close`. `thrown` is a history variable that counts constructions that
threw in `open()`: their slot is never released. A throw in the setup becomes a
Lua error, one inside a handler terminates the process.

**FuseApi** is `struct fuse_operations` as libfuse and a script may see it,
translated from the prototypes of `fuse.h`: an operation libfuse was given is
asked for (`Ask`), runs in the script with exactly the parameters of its
prototype, or in no function if that universe's script has none, comes to an
answer, and returns with the structures as the script left them. There are no
states and stacks in it. `Prototype` has the parameters of each member, and
`Given` what a script receives for a parameter: nothing for what libfuse only
wants filled in, two numbers for a pair of times, one value for the others.

**Operations** is the common shape of the 37 handlers, with a table (`LinkOps`
to `LockOps`) that records for each of them the field it looks up, the
structures it converts, what it pushes, the literal given to `lua_pcall` and
how it reads the result. A Lua value is a pair of what it is and whom it
belongs to, so the stack is a sequence of such pairs and `lua_pcall` takes
`nargs + 1` of them from its top, right or wrong. The manager lends one state
or several, whose chunks may have defined different functions. The steps of a
request are `Arrive`, `Invoke` or `NotDefined`, the callback's `Fill`, `Keep`,
`Assign`, then `Answer` or `Raise`, then the destructors `ResetScope`,
`WriteBack`, `RestoreTop`, `CloseState`. `AnswerAborts` and `WriteBackAborts`
are Lua errors outside `lua_pcall`, which end the process. `ImplementsApi` is
FuseApi under a refinement mapping: the phase of a request is read off its
label, and what the script got off the frame that `lua_pcall` built.

**Session** is `main.cpp` and the life of the operations object: `scoped` is
what the `scoped_ptr` of `impl_main` owns, `private` is `private_data`,
`object[o]` says whether object `o` exists, and `lost` is a history variable
for objects given up on an error path. A callback can send a request to its
own mount (`Ask`), which a second thread serves while the first keeps its
state. The manager is reduced to what a mount can feel of it: the number of
states it lends (`slots`), the threads that sleep in `open()` (`Wait`), and
whom `close()` wakes, which is one sleeper of the main manager and none of a
pool. `SpuriousWakeup` is the other way out of a sleep. A `construct()` that
throws takes a slot for good in the constructor of the object
(`NewOperationsFails`) and ends the process in a handler (`OpenThrows`).
`convert` raising an error with a live `scoped_ptr` is undefined in
C++; the two outcomes Lua can be built with are two actions, `FlagsRaise`
(longjmp, the object is lost) and `FlagsThrow` (unwinding, it is deleted).

**Convert** is `convert.cpp` on the integer functions of `luaX.hpp`. `that` is
the C structure, `table` the Lua table; `Lend` fills one with what libfuse and
the kernel supply and pushes it, `Edit` is the script setting a field, `Take`
reads the table back or `Refuse` raises. Every request supplies new values
(`Supplied`), any integers of the types of the fields, so also 64-bit ones that
no double can be; only `fh` is what libfuse took from `open()`. `Utimens` is
asked to set any time in the same way. One field stands for all fields of a
structure with the same type. The sizes of the C types are the constants `Long`
and `Short`, half the number of values of `intmax_t` and of `int`. A number is
kept in ticks, a fraction of a unit, so that fractions are there; `Doubles` are
the ticks that a double can be, with gaps that grow with their size, as in the
format of doubles. `Nearest` rounds to them, to the even one of two, and does
so wherever the code computes or keeps a double: a literal of the script
(`Literal`), an integer pushed in a Lua without integers (`lua_pushinteger`),
and the product of a fraction and 10^9 (`SplitTime`). `lua` selects how Lua
keeps integers: as integers (5.3) or as doubles (5.1, 5.2, LuaJIT).
`ToInteger` is what C makes of a double when it is read back, which for a
double beyond `intmax_t` is up to the machine (`Beyond`). `Held` says that an
integer survives both.

**Userdata** is what `luaX_new`, `luaX_binder` and `luaX_reference` make of the
`handle` and `callback` classes, and the life of the fill handle against the
address that `scoped_handle` keeps. A script makes, runs, nests, drops and
abandons callbacks, their keys, coroutines and fill handles; `registry` is
Lua's registry, a root of the collector; `refs[c]` are the entries callback
`c` owns. `Collect` marks from the roots and dooms or frees the rest;
`Finalize` runs one `__gc` of an object that was doomed. `MakeCallbackFails`
is `luaL_ref` running out of memory after some entries, before the userdata
has a metatable: those entries are `leaked`.

**LuaStack** has the helpers of luaX and the part of the Lua API they use as
operators on a machine: a stack, tables, metatables, an error. **Programs** has
the functions of `core.cpp`, `util.cpp` and `handle.cpp`, `get_context`, and
the functions that build the library tables, as sequences of statements over
it; the ranges of the integer types the library checks against are the constant
`Types`, the default of its optional integers is `Default`. Indexing a string
or an object that has methods gives nil for an unknown key, indexing any other
value that is no table raises. **Closure** runs them: `Execute` is one statement, `ReturnInt` and
`ReturnVoid` count results as luaX does, `CatchFailure`, `CatchError` and
`LuaError` are the ways a function fails, under both failure policies.

**OptRange** is `luaX_opt_range_i` and `luaX_opt_range_j` with their mixed
signed and unsigned arithmetic, next to a definition of the substring Lua's
`string.sub` takes. **Workers** is `thread.cpp` and `atomic.cpp` on
`thread.hpp` and `atomic.hpp`: an increment is a load, an addition and a store
under the mutex; `CreateFails` is `pthread_create` failing for any of the
threads, after which the destructor of a joinable one terminates the process.
**Strerror** is `system_error.hpp` with the three forms of `strerror_r`.

**Bind** composes OptRange, Closure, Workers and Strerror: a Lua state runs one
C function at a time, so one of the four moves and the others rest, and its
specification has the actions of each.

Operators whose comment begins "Faulty" are not part of any specification.
They are plausible slips of the code (a missing reset, a dropped count, an
off-by-one); each property of each passing run is violated when one of them
takes the place of the definition it imitates (the `mutants` of
`PROJECT.json`), which shows that the property is about the code.

## 4. The runs, their bounds, and what they show

| Run | Instance | Distinct states | Shows |
|---|---|---|---|
| `StateMain` | 3 threads, 6 requests | 839 | the coroutine is always in one place (`Inv`), `NoLostWakeup`, refinement of Lease, and every `open()` returns |
| `StatePool` | 3 threads, start 3, max 2, idle 1, 2 mounts, 8 requests | 4,936 | `Control`, `Exclusive`, `NoLeak`, `ActiveCount`, `PoolBound`, refinement of Lease |
| `StatePoolServe` | 2 threads, start 0, max 3, idle 1, 2 mounts, 4 requests | 5,198 | with a slot per thread and per failed `open()`, nobody waits and every mount ends |
| `StatePoolStarve` | 2 threads, start, max and idle 1 | violation | a thread that waits for a slot is never notified |
| `OperationsShared` | 2 requests, in one universe or in two that define different functions | 61,538 | the stack and the fill handle of one request survive the other; both are answered |
| `OperationsTable` | 1 request, all operations, all results, 3 sizes | 11,646 | every handler calls the function it looks up, with the parameters of `fuse.h`, gives the structures back and respects its buffer (`ImplementsApi`); that `flock` looks up `lock` is taken as it is, and is the subject of `OperationsFlock` |
| `OperationsFlock` | 1 request | violation | `flock` runs the script's `lock` |
| `OperationsRead` | 1 request | violation | `read` answers with more bytes than were asked for |
| `Convert` | `intmax_t` of 5 bits, `int` of 3, doubles of 4, 2 edits | 202,091 | what a structure becomes and what comes back, from an untouched table and from an edited one |
| `Session` | 3 threads, the main manager and pools of 1 to 3 slots, 3 calls of `fuse.main`, 4 requests | 51,959 | handlers meet a live object, it has one owner, every mount deletes its object unless its threads are stuck in one of two ways |
| `Userdata` | 2 callbacks, 1 key, 1 coroutine, 1 fill handle, 6 registry entries, 2 nested runs | 46,346 | what C++ refers to stays, what nobody refers to is destructed, entries have one owner |
| `Bind` | a four-bit Lua, 3 threads, 4 message lengths | 61,091 | the range is the substring; callers get the results; checks let through what is legal; no increment is lost; there is always a message |

Why the bounds are enough.

- `StateMain`: with three threads one can hold the state, one be signalled and
  one barge in; six requests let every thread go round twice. The theorems
  cover all other sizes.
- `StatePool`: three threads exceed the two slots and the one idle place, so
  `MustWait`, the list of idle states and the surplus state are all reached;
  starting with three states lends more than `max_states` first; two mounts let
  an exception in the first setup be felt in the second. Universes and the
  threads other than the script's are interchangeable, so the run uses symmetry
  (it has no liveness property). The theorems cover all other settings.
- `StatePoolServe` has two threads and a third slot, which one construction
  that throws uses up; the bound is exact, and `MountEnds` has it in its
  antecedent because more failures make waiting possible. It starts with no
  state, so that every loan begins with a construction.
- `Operations`: all hazards between requests need two of them, one in its
  callback while the other arrives, or one after the other in the same
  universe. Results are one of each kind the code tells apart: integers, nil,
  a boolean, a float, strings shorter than, equal to and longer than the
  buffer, and tables that convert or not. Buffers have none, one or two bytes:
  `getxattr` and `listxattr` are given none when they are asked for a length,
  `readlink` always has room for its final zero, and for nothing else when it
  has one byte (`BufferSizes`). What a script may do in
  `OperationsShared` needs one result only, and what it may answer in
  `OperationsTable` one request only; the theorems have both for any number.
- `Convert`: five bits for 64 and three for 32 keep the order of the bounds of
  the types, and so every comparison the code makes. A double has the sign and
  four bits of the rest, so the wide types have integers between doubles, and
  the largest of them round to one beyond the type, as in the code; fractions
  have gaps too, so that the product of a fraction and the units of a second
  is rounded (3/4 of a second, 3.75 units, becomes 4, as 0.3 becomes
  300000000). The numbers of the script lie below, inside and above the range
  of every type, with fractions of both signs; those of the kernel are doubles
  and no doubles, small and large, for every width. What C makes of a double
  beyond `intmax_t` is what x86 makes of it, the least `intmax_t`. Two edits
  are enough for a field and a second one, and for the two names of a time.
- `Session`: three threads allow a chain of two nested requests whose callbacks
  hold both states of a pool of two, and a third thread that sleeps while the
  two it waits for give theirs back; a pool of three has a slot for each until
  an `open()` throws. Three calls allow a failure, a mount and a mount after
  both.
- `Userdata`: with two callbacks one can refer to itself or to the other, run
  the other, be dropped while it runs, or take entries the other gave back;
  six entries are exactly what two callbacks use, so a leaked one leaves too
  few for the second. Four of the five objects fit into one behaviour.
- `Bind`: every integer of a four-bit Lua and every double around and beyond
  it are passed to every function of the library, under both failure policies;
  three threads can lose increments in both orders; the messages fit at once,
  after one doubling, after two, or do not exist.

`NumRequests`, `NumMounts`, `NumCalls`, `MaxFill`, `MaxEdits`, `NumSlots`,
`MaxMade`, `MaxDepth`, `Threads`, `Rounds` and `Lengths` bound the model, not
the code: the number of requests, mounts, calls of `fuse.main`, entries per
directory buffer, fields set per session, registry entries, objects made,
nested runs, threads, increments per thread, and lengths of messages. The code
has five threads of ten thousand increments each.

Deadlock is checked in every run but `Userdata`, whose script may stop
wherever it likes. `Done` is the stutter of a program that has finished, or
whose process has ended. A mount of `Session` that is stuck is no deadlock for
TLC, since a thread that sleeps may wake spuriously (and sleep again); that it
need not is what `MountDeleted` is about.

Type invariants are not run on their own: those of StateMain (in `Inv`),
StatePool, Operations, OptRange, Session and Userdata are theorems or part of
the inductive invariant of one.

## 5. Fairness

- `StateMain`, `StatePool`: weak fairness of the steps of each thread in
  `open()` and `close()` and of the end of its callback (`Step`): threads are
  scheduled, a callback comes to its end, and a mutex that is free again and
  again is obtained because critical sections end and requests are finite.
  There is no fairness for `SpuriousWakeup`: POSIX permits it and never
  promises it; and behaviours in which spurious wakeups never stop are left
  out, because under them a thread could hold the mutex at just the wrong times
  for ever. `StatePool` adds that the kernel unmounts a file system no handler
  is using (`Unmount`).
- `Operations`: weak fairness of each handler; fills, keeps and assignments of
  a callback are bounded, so that a callback ends.
- `Session`: weak fairness of the handler of each thread, of the steps of
  `impl_main` after the constructor, and of the unmount of an idle file system.
  A thread in `open()` takes a free state or goes to sleep; one that sleeps has
  no step of its own, and so no fairness: `close()` of the main manager has to
  wake it, and nothing does in a pool. There is no fairness for
  `SpuriousWakeup`, as above. Nothing promises that requests arrive or that
  the script calls `fuse.main`.
- `Userdata`: weak fairness of `Collect` and of `Finalize`: Lua's collector
  runs as the program allocates, so a program that goes on allocating keeps it
  going. The script itself is under no fairness.
- `Bind`: weak fairness of the steps of one search for a message, which is one
  function on one thread, and of nothing else.
- The refutation of `RequestsProcessed` uses the fair specification of
  `StatePool`: the waiting thread is not merely unscheduled, nothing ever
  enables it.

## 6. What is proved, and how

All theorems hold for any finite set of threads, requests, objects and states
and any values of the numeric constants; the assumptions are the named
`ASSUME`s of the modules (the null state is not a state, the script's thread is
a thread, every object is of one kind, a wide type is wider than a narrow one,
and so on), and nothing else.

**StateMainProofs.** `InvAlways`: `Inv`, that is types, the mutex and the
custody of the coroutine, is inductive as it stands. `NoLostWakeupAlways`: it is
inductive together with `Inv`. The argument is the one a reviewer would
make: a thread starts to wait only while `state_` is null, hence while somebody
holds the coroutine; its holder passes through `CloseNotify`, which wakes one
waiter; the woken thread tests `state_` again and either takes it, and will
signal in its turn, or finds that another thread took it. `MainImplementsLease`:
every step is a `Grant`, a `Return` or a stutter.

**StatePoolProofs.** The invariant grows in layers. `Base` is
`TypeOK /\ Control /\ ActiveCount`, and none of the three is inductive alone:
`active_states_` stays a natural number only because `close()` is called by
a thread that `ActiveCount` counted, and `ActiveCount` changes by one only
because `Control` says where threads can be. The lemmas `Enter`, `Leave` and
`Stay` do the counting with the theorems on finite sets. On `Base` stand
`ExclusiveAlways` (no universe in two hands, idle while used, or used after
`lua_close`), `NoLeakAlways`, `NobodyWaitsAlways`, `PoolBoundAlways` (first
what is counted plus what is idle, then, with `Exclusive` and `NoLeak`, the
number of universes that exist), and `PoolImplementsLease`, the refinement of
Lease with capacity `max(start_states, max_states)`.

**OperationsProofs.** The invariant says, for every label a request can be at,
what lies between the `top` its `luaX_top_saver` saved and the present top of
the state it borrowed (`Stacks`), what its callback was given (`Frames`), which
fill handles point to a live buffer (`Fills`), how much was copied (`Copies`),
and which structures already hold their table (`WrittenBack`); `Borrowed` says
that no two requests are in the same state, so that a step of one leaves the
stack of another alone. `StackRestored` by itself is not inductive: it speaks
of states nobody borrows, and a state arrives there through every label.
`StackRestoredAlways`, `FrameRightAlways`, `FillInScopeAlways`,
`WrittenBackAlways` and `CopyFitsAlways` follow for all 37 operations and any
scripts. `ImplementsApiAlways` is the refinement of FuseApi: each step of a
handler is a step of the service or a stutter. Most of the work is one fact of
data, `AllFit`: for each of the 37 operations, what the handler pushes is what
the prototype of `fuse.h` says, whatever the request. The concatenation of
parameters is unrolled, since no prototype has more than six. The
invariant is needed for what a step means: that the call takes the
frame the handler built and not something below it, and that the tables
written back are those of the request.

**SessionProofs.** The invariant ties the phase of `impl_main` to who has the
object: `scoped` before `fuse_main`, `private` from `init` to `destroy`, nobody
after (`Holding`); it says which objects older calls left (`Leftovers`), that
handlers run only while libfuse serves (`Serving`), and where the requests of
callbacks are (`Asking`); a process that was aborted has no handlers left.
`UseLiveAlways` and `OwnershipAlways` follow, for any number of threads, calls
and requests, the main manager and pools of any number of slots.

**ConvertProofs.** `NothingWrapsAlways` and `NothingStaleAlways` for any widths
of the types, any set of doubles and anything the kernel supplies: a number that
passes the check of a field lies in the range of the field's type, so that the
cast does nothing (`AssignedIn`), and what is pushed can be read back
(`RoundTrip`). That there is a nearest double at all (`NearestIn`) is the
least-number principle, which the theorem on well-founded relations gives
without an operator parameter. The invariant `IInv` adds only which fields were
filled, and what the two forms of a time have in common.

`UntouchedAlways` and `TimeReturnedAlways`: a table that was left alone is
accepted and gives back what it was made of, `lock_owner` always and the
integers of the narrow types always, since those are doubles; an `l_start` or a
`tv_sec` when this Lua holds it (`Held`), and only then is that claimed.
`HandleKeptAlways` needs a second invariant, `Kept`: while a callback has the
table the structure is one libfuse may supply, and the handle libfuse keeps is
one that was read back once already, so it reads again as it is. The last is
where a double beyond `intmax_t` matters. It is read back as an integer that
may not be a double itself, and must not change when it makes the round again.

`TimeSplitAlways`: rounding is monotonic, so the rounded product of a fraction
lies between the two integers around the exact one (small integers are
doubles), on the side of the fraction's sign. Conversion then truncates it to
the exact unit or to the next. That the next is never the full second needs the
format of doubles.

The assumptions are of that format. `DoubleAssumption`: doubles are symmetric,
the integers up to `Exact` (2^53) are doubles, beyond it all doubles are
integers, and the fraction of a double is a double. `SecondAssumption`: a double
below 1, times `Second`, is nearer to some double below `Second` than to
`Second`; with 10^9 the greatest such product is 1.1e-7 below it, and the
greatest double 1.2e-7. `BeyondAssumption`: what C makes of a double beyond
`intmax_t` stays what it is in another round. It holds on x86, whose conversion
always gives the least `intmax_t`, a power of two, and on ARM, which gives the
nearer limit: the largest `intmax_t` goes back as 2^63 and saturates again.

**OptRangeProofs.** `SumFromEnd` shows that the one addition done in `size_t`
never wraps when its result is brought back to `lua_Integer`; `FirstOffset` and
`LastOffset` restate the two functions without a modulus; what is left is
linear arithmetic, and `TakesSubstringAlways` follows for every width.

**UserdataProofs.** `ResetLiveAlways` needs that a handle somebody points to is
a parameter, and that what is a parameter is a root. `HeldAlways`,
`RunSafeAlways` and `SlotsOwnedAlways` follow from one invariant, `Custody`:
every callback that is not destructed has three entries of its own, every other
entry is free or was given up, and whatever a variable, a function, the
registry or a running callback refers to is alive. That the callbacks a script
can call are alive needs no induction over paths: `LedTo` is the *least* closed
set, and the live callbacks are one.

**BindProofs.** `FrameOutlivesThreadsAlways`, for any number of threads and
whichever cannot be created: the frame ends only after the join of all or with
the process. `DescribedAlways`, for any length of message, any form of
`strerror_r` and any call that runs out of memory: a `what()` that returns has
a message and no buffer left, and one that returns or throws leaves `errno`
what it was.

`NothingLostAlways`, for any number of threads and of increments. `Counts`
keeps the finite set of the pairs of a thread and an increment it has stored;
the count is the number of its elements, because only the owner of the mutex is
between a load and a store and what it loaded is still the count. At the end of
the main thread every thread has stored all of them (`Finishes`), and the set
is a product.

`LetThroughAlways`, for any width of `lua_Integer`, any bounds of the types and
any arguments of the script that are not tables (Closure makes its own): the
invariant `Checking` follows the machine through the three statements of a
check, from the arguments (`Ready`) to the integer in the local variable
(`Read`), to the value on top of the stack (`Answered`), to what the caller
receives (`Delivered`). The stack has one cell or two on the way, the field is
pushed and popped again, and the type of a value decides what the check may
make of it. `TypesAssumption` is that every type lies strictly inside
`lua_Integer`: with a type as wide as that, the cast of a double that is
too large would pass the check.

`CallerSeesAlways`, for any width of `lua_Integer`, both kinds of Lua, both
policies and any argument a script may pass: `CallerSees` for every function
that builds no table. The invariant `Serving` says at each statement what lies
above the argument (`Laid`) and, before the return, that it is what the function
is to hand back (`Wanted`); a Lua error is pending only in a function that may
refuse its argument, and then because it does (`Refuses`). closure() counts the
results from the top at its entry, so the proof has to show that no statement
touches the number of cells below: the conversion of a number to a string
changes the argument's own cell (`Under`), the failed search for a metatable
pops the name it pushed (`ToUdata`), `luaX_top_saver` cuts off what was pushed
inside it. `is_integer` is right about every double that Lua can hold except
2^63 (`IntegerTold`). `InputsAssumption` says what a value of Lua is: there are
two Booleans, an object has an address, and the largest `lua_Integer` is no
double. `AbsentAssumption` is that the sign for a failure without a code is no
code.

Liveness, enabledness and definitions by recursion over data are out of the
prover's reach and stay with TLC.

## 7. Where the code and its documents disagree

1. **The pool never notifies** (`StatePoolStarve`). `open()` waits on
   `condition_` when all slots are taken (`state_manager_pool.cpp:106`), and
   `close()` (`:118`) frees a slot without `notify_one`. A thread that waits
   stays there unless its wait ends spuriously. The main manager does notify
   (`state_manager_main.cpp:47`). `NobodyWaits` and `MountEnds` state the
   condition under which this does not matter: as many slots as threads.
2. **`flock` runs `lock`** (`OperationsFlock`). The handler `flock` looks up
   the field `lock` (`operations.cpp:760`), although `flock` is what the
   constructor registers it for (`:830`).
3. **`read` can answer with too much** (`OperationsRead`). At most `size`
   bytes are copied, but the length of the whole string is returned
   (`operations.cpp:322`).

## 8. Behaviour worth knowing that no run flags

The repository does not say what should happen in these cases, so the models
contain them and no property rejects them.

Managers and `fuse.main`:

- A pool lends `max(start_states, max_states)` states, not `max_states`.
- If `construct()` throws in the pool's constructor, the universes already
  made are never closed (`state_manager_pool.cpp:89`); if it throws in
  `open()`, the slot is lost.
- A callback that uses its own mount deadlocks under the main manager, and
  under a pool when as many callbacks do so as there are slots.
- A pool with fewer slots than libfuse has threads can hang a mount without
  any such callback: a thread that sleeps in `open()` is not woken, and
  unmounting joins it. Slots lost to an `open()` that threw in the setup of a
  mount bring later mounts nearer to it. `MountDeleted` names both ways of
  getting stuck, and that either takes more threads than slots.
- When `fuse_main` fails before there is a file system, and in a Lua built
  as C also when `convert` refuses a flag, the operations object is lost.
- With a pool, callbacks of one open file may run in different universes. An
  operation that the universe of the first state defined and another does not
  is answered with `-ENOSYS` there, even `open` and `release`.

Operations and conversions:

- `convert.cpp` writes `proto_major` and `proto_minor` back, which
  `fuse_common.h` calls read-only.
- The position that a fill function is given is nil unless the build is for
  OS X. `test/simple.lua` takes the fourth argument of `setxattr` for it.
- A bit-field takes every `unsigned int` and keeps its lowest bit. A
  fraction in an integer field is truncated, or read as 0, depending on Lua.
- `is_integer` accepts 2^63, a double, whose conversion to an integer is then
  up to the machine.
- A negative time that is a number with a fraction gives a negative `tv_nsec`,
  which as a field would be refused.
- The fraction of a time is multiplied by 10^9 in a double, which rounds, before
  it is truncated: 0.3, whose double lies below it, gives 300000000 and not
  299999999. It never gives a full second.
- In a Lua of doubles an `l_start`, an `l_len` or a `tv_sec` that is no double
  comes back from an untouched table as the nearest one, and one that is
  rounded beyond `intmax_t` as whatever C makes of that.
- A time that was set to `UTIME_NOW` and returned unchanged by `getattr` is
  refused, outside `lua_pcall`.
- A fill handle whose scope ended answers `nil, "out of scope"` and does not
  raise.
- A `readdir` callback that assigns to its fill parameter can have the handle
  collected under the feet of `scoped_handle` (the exception in `ResetLive`).

luaX and the bind library:

- A last bound of `opt_range` further before the string than one position
  wraps to a huge `size_t`.
- A callback whose function leads back to it is never collected, since the
  registry keeps the function, until the state is closed.
- When `luaL_ref` runs out of memory in the constructor of a callback of a Lua
  built as C, the entries it already has stay in the registry.
- A `bad_alloc` of `what()`, after the message was found, leaks its buffer.
- `count` (`bind/module.cpp:48`) and `destructed_` (`bind/handle.cpp:26`) are
  globals of the process, and so shared by all universes.

## 9. What is only model-checked, and what is not modelled

Only model-checked: the liveness properties (`OpenReturns`, `MountEnds`,
`EveryRequestAnswered`, `MountDeleted`, `Released`, `MessageFound`);
`CallerSees` for the functions that build tables (`set_field`, `set_metafield`,
`get_context` and the two that open a library), of which only `set_field` looks
at what is on its stack, with a loop that is a recursion over the integer in a
local variable, and the run has every argument of each; and the three
disagreements.

Hazards without a property: the universes a pool's constructor leaves when it
throws (`state_manager_pool.cpp:89`) and the bounds of a bit-field
(`convert.cpp:190`). Both are modelled; nothing in the repository says what
should happen.

Not modelled:

- infinities and NaN as numbers of a script, and negative zero;
- in Session, a pool that starts with more states than `max_states`: it lends
  those too, so it has that many slots until one of them is closed for good
  (StatePool has it);
- a `lock_owner` that a script stores as a number so large that Lua writes it
  with an exponent, of which the stream then reads the digits before it;
- errors of the pthread calls other than `pthread_create`: they need an
  invalid argument or a relock, which the mutex invariants exclude;
- `impl_main` of the main manager (it makes the coroutine) and the release of
  its registry reference, before and after every `open()`;
- the argument list that `fuse.main` copies, which has no state that outlives
  the call;
- the wording of messages (`quote`, `what` of failures) and the log
  (`unexpected.cpp`);
- `notify_all`, `detach`, swap of references, threads and pointers, and
  `check_enum`, which the library does not use;
- `bind/mutex.cpp`, `bind/scoped_ptr.cpp` and `bind/driver.c`: a call each,
  without a second actor;
- the example scripts: what a script can do to the binding is the callback
  of `Operations`; their file systems are their own;
- signals, the FUSE kernel protocol, and the build.

## 10. Plan

Done, in the order of importance:

1. Lease, StateMain, StatePool, their refinement and its proofs
2. Operations on Lease, with OperationsProofs
3. Convert, with ConvertProofs
4. Session, with SessionProofs
5. FuseApi, and Operations as its implementation
6. Userdata, with UserdataProofs
7. OptRange, Closure on LuaStack and Programs, Workers, Strerror, and their
   composition Bind, with OptRangeProofs and BindProofs

What could follow:

- `CallerSees` for the functions that build tables
- the composition of Session with StatePool in place of its count of slots,
  to have idle universes and nested requests in one behaviour

## 11. How to run it

In this directory, with the tools of TLA+ and the community modules on the
path: `tlc -config StatePool.cfg MCStatePool.tla` model-checks a run (the
configuration has the name of the run, the module that of its component), and
`tlapm StatePoolProofs.tla` checks the proofs of a module. `PROJECT.json` lists
components, runs, hazards, theorems, and for every definition the lines of the
source it models.
