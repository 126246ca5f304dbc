----------------------------- MODULE Operations -----------------------------
(***************************************************************************)
(* operations.cpp with fill_dir.cpp and handle.cpp: what a fuse handler    *)
(* does with the Lua state it borrows.  Every handler has the same shape:  *)
(*                                                                         *)
(*   Arrive      borrow a state, remember its top, convert the structures  *)
(*               libfuse passed into Lua tables on the stack               *)
(*   Invoke      push the script's function, its operations table and the  *)
(*               arguments, and lua_pcall; or answer -ENOSYS (NotDefined)  *)
(*   callback    the script runs: it calls fill, keeps the fill handle,    *)
(*               changes the tables it was given, and returns or raises    *)
(*   Answer      turn the result into the reply                            *)
(*   unwinding   the destructors, in reverse order: scoped_handle, flock   *)
(*               and file_info write-back, top_saver, managed_state        *)
(*                                                                         *)
(* The state manager is the abstract Lease.  A Lua value is a pair: what   *)
(* it is, and which function, argument or request it belongs to.           *)
(***************************************************************************)
EXTENDS Integers, Sequences, FiniteSets

CONSTANTS
  Requests,      \* requests of the kernel, each on a thread of its own
  States,        \* lua_State* values
  Managers,      \* the state managers: each a set of states it can lend
  NoState,       \* no state borrowed
  Capacity,      \* how many states the manager lends at a time
  Definitions,   \* the tables a script may provide: sets of field names
  Sizes,         \* sizes of the buffers libfuse passes
  Results,       \* what callbacks return: see Value
  MaxFill        \* bound: entries a request's directory buffer receives

Value == [type: {"integer", "nil", "string", "number", "boolean"}, n: Int]
         \union [type: {"table"}, ok: BOOLEAN]

ASSUME OperationsAssumption ==
  /\ IsFiniteSet(Requests)
  /\ NoState \notin States
  /\ Managers \subseteq SUBSET States
  /\ Capacity \in Nat
  /\ Sizes \subseteq Nat
  /\ Results \subseteq Value
  /\ MaxFill \in Nat

ENOSYS == 38
ERANGE == 34
-----------------------------------------------------------------------------
\* Faulty variant of Op: the count leaves out the operations table.
OpMiscounted(fn, args, nargs, reply) ==
  [fn |-> fn, info |-> FALSE, flock |-> FALSE,
   args |-> args, nargs |-> nargs - 1, reply |-> reply]

(***************************************************************************)
(* The operations.  fn: the field prepare() looks up; info, flock: the     *)
(* structures converted on entry and back on exit; args: what is pushed    *)
(* after the operations table, in order; nargs: the literal given to       *)
(* lua_pcall; reply: how the result is read.                               *)
(***************************************************************************)
Op(fn, args, nargs, reply) ==
  [fn |-> fn, info |-> FALSE, flock |-> FALSE,
   args |-> args, nargs |-> nargs, reply |-> reply]

\* Faulty variant of FileOp: the last two arguments change places.
FileOpSwapped(fn, args, nargs, reply) ==
  LET n == Len(args)
      swapped == IF n < 2 THEN args
                 ELSE [args EXCEPT ![n - 1] = args[n], ![n] = args[n - 1]]
  IN [Op(fn, swapped, nargs, reply) EXCEPT !.info = TRUE]

FileOp(fn, args, nargs, reply) ==
  [Op(fn, args, nargs, reply) EXCEPT !.info = TRUE]

LinkOps ==
  [getattr  |-> Op("getattr", <<"path">>, 2, "attr"),
   readlink |-> Op("readlink", <<"path", "size">>, 3, "link"),
   mknod    |-> Op("mknod", <<"path", "mode", "dev">>, 4, "status"),
   mkdir    |-> Op("mkdir", <<"path", "mode">>, 3, "status"),
   unlink   |-> Op("unlink", <<"path">>, 2, "status"),
   rmdir    |-> Op("rmdir", <<"path">>, 2, "status"),
   symlink  |-> Op("symlink", <<"target", "path">>, 3, "status"),
   rename   |-> Op("rename", <<"oldpath", "newpath">>, 3, "status"),
   link     |-> Op("link", <<"oldpath", "newpath">>, 3, "status")]

FileOps ==
  [chmod    |-> Op("chmod", <<"path", "mode">>, 3, "status"),
   chown    |-> Op("chown", <<"path", "uid", "gid">>, 4, "status"),
   truncate |-> Op("truncate", <<"path", "size">>, 3, "status"),
   open     |-> FileOp("open", <<"path", "info">>, 3, "status"),
   read     |-> FileOp("read", <<"path", "size", "offset", "info">>, 5, "data"),
   write    |-> FileOp("write", <<"path", "data", "offset", "info">>, 5,
                       "written"),
   statfs   |-> Op("statfs", <<"path">>, 2, "attr"),
   flush    |-> FileOp("flush", <<"path", "info">>, 3, "status")]

XattrOps ==
  [release  |-> FileOp("release", <<"path", "info">>, 3, "status"),
   fsync    |-> FileOp("fsync", <<"path", "datasync", "info">>, 4, "status"),
   setxattr |-> Op("setxattr", <<"path", "name", "data", "flags", "position">>,
                   6, "status"),
   getxattr |-> Op("getxattr", <<"path", "name", "size", "position">>, 5,
                   "xattr"),
   listxattr   |-> Op("listxattr", <<"path", "size">>, 3, "xattr"),
   removexattr |-> Op("removexattr", <<"path", "name">>, 3, "status")]

DirOps ==
  [opendir    |-> FileOp("opendir", <<"path", "info">>, 3, "status"),
   readdir    |-> FileOp("readdir", <<"path", "fill", "offset", "info">>, 5,
                         "status"),
   releasedir |-> FileOp("releasedir", <<"path", "info">>, 3, "status"),
   fsyncdir   |-> FileOp("fsyncdir", <<"path", "datasync", "info">>, 4,
                         "status"),
   init       |-> FileOp("init", <<"info">>, 2, "none"),
   destroy    |-> Op("destroy", <<>>, 1, "none"),
   access     |-> Op("access", <<"path", "mode">>, 3, "status"),
   create     |-> FileOp("create", <<"path", "mode", "info">>, 4, "status")]

LockOps ==
  [ftruncate |-> FileOp("ftruncate", <<"path", "size", "info">>, 4, "status"),
   fgetattr  |-> FileOp("fgetattr", <<"path", "info">>, 3, "attr"),
   lock      |-> [FileOp("lock", <<"path", "info", "command", "flock">>, 5,
                         "status") EXCEPT !.flock = TRUE],
   utimens   |-> Op("utimens", <<"path", "atime", "mtime">>, 4, "status"),
   flock     |-> FileOp("lock", <<"path", "info", "operation">>, 4, "status"),
   fallocate |-> FileOp("fallocate",
                        <<"path", "mode", "offset", "size", "info">>, 6,
                        "status")]

Table(o) ==
  IF o \in DOMAIN LinkOps THEN LinkOps[o]
  ELSE IF o \in DOMAIN FileOps THEN FileOps[o]
  ELSE IF o \in DOMAIN XattrOps THEN XattrOps[o]
  ELSE IF o \in DOMAIN DirOps THEN DirOps[o]
  ELSE LockOps[o]

OpNames == DOMAIN LinkOps \union DOMAIN FileOps \union DOMAIN XattrOps
           \union DOMAIN DirOps \union DOMAIN LockOps

(***************************************************************************)
(* The operations constructor: it borrows one state and registers what the *)
(* script's table has there; init and destroy are always registered.       *)
(***************************************************************************)
Registered(fields) == {"init", "destroy"} \union (OpNames \intersect fields)
-----------------------------------------------------------------------------
VARIABLES
  universes,   \* the states the manager has: one for main, more for a pool
  ops,         \* ops[s]: the fields of the operations table in state s
  registered,  \* the operations libfuse was given
  lease,       \* lease[r]: the state the handler of r borrowed
  stack,       \* stack[s]: the Lua stack of state s
  saved,       \* saved[s]: fill handles the script keeps in universe s
  pc,          \* pc[r]: where the handler of r is
  op,          \* op[r]: the operation r asks for
  size,        \* size[r]: the size of the buffer passed with r
  top,         \* top[r]: the top the top_saver remembers
  frame,       \* frame[r]: function and arguments the callback of r received
  scope,       \* scope[r]: the fill_dir of r: none, open or reset
  filled,      \* filled[r]: entries in the directory buffer of r
  table,       \* table[r]: contents of the tables made for r
  struct,      \* struct[r]: contents of the structures of libfuse
  reply,       \* reply[r]: the value the handler returns
  copied,      \* copied[r]: bytes stored in the buffer of r
  process      \* up, or aborted by a Lua error outside any lua_pcall

vars == <<universes, ops, registered, lease, stack, saved, pc, op, size, top, frame,
          scope, filled, table, struct, reply, copied, process>>

L == INSTANCE Lease WITH Threads <- Requests

Structures == {"info", "flock"}
Contents == {"kernel", "script", "bad"}
Labels == {"new", "prepare", "callback", "scope", "write_back", "restore",
           "close", "done"}

Ops == <<"ops", "">>
Nil == <<"nil", "">>
Function(f) == <<"function", f>>
Owned(kind, r) == <<kind, r>>
IsOwned == {"info", "flock", "fill"}
Item(kind, r) == IF kind \in IsOwned THEN Owned(kind, r) ELSE <<"arg", kind>>

Converted(o) == (IF o.info THEN <<"info">> ELSE <<>>)
                \o (IF o.flock THEN <<"flock">> ELSE <<>>)

Has(o, kind) == kind \in {Converted(o)[i] : i \in 1 .. Len(Converted(o))}

Init ==
  /\ universes \in Managers
  /\ ops \in [States -> Definitions]
  /\ \E s \in universes : registered = Registered(ops[s])
  /\ lease = [r \in Requests |-> NoState]
  /\ stack = [s \in States |-> <<Ops>>]
  /\ saved = [s \in States |-> {}]
  /\ pc = [r \in Requests |-> "new"]
  /\ op = [r \in Requests |-> "init"]
  /\ size = [r \in Requests |-> 0]
  /\ top = [r \in Requests |-> 0]
  /\ frame = [r \in Requests |-> <<>>]
  /\ scope = [r \in Requests |-> "none"]
  /\ filled = [r \in Requests |-> 0]
  /\ table = [r \in Requests |-> [k \in Structures |-> "kernel"]]
  /\ struct = [r \in Requests |-> [k \in Structures |-> "kernel"]]
  /\ reply = [r \in Requests |-> 0]
  /\ copied = [r \in Requests |-> 0]
  /\ process = "up"

Goto(r, from, to) ==
  /\ process = "up"
  /\ pc[r] = from
  /\ pc' = [pc EXCEPT ![r] = to]

Abort(r, from) ==
  /\ process = "up"
  /\ pc[r] = from
  /\ process' = "aborted"
  /\ UNCHANGED <<universes, ops, registered, lease, stack, saved, pc, op, size, top, frame,
                 scope, filled, table, struct, reply, copied>>
-----------------------------------------------------------------------------
\* getxattr and listxattr can be asked for a length only, and get no buffer;
\* that of readlink always has room for the final zero.
BufferSizes(o) == IF o = "readlink" THEN Sizes \ {0} ELSE Sizes

(***************************************************************************)
(* managed_state, top_saver and the scoped_converters of the handler.      *)
(***************************************************************************)
Arrive(r) ==
  /\ Goto(r, "new", "prepare")
  /\ L!Grant(r) /\ lease'[r] \in universes
  /\ \E o \in registered : \E n \in BufferSizes(o) :
       LET s == lease'[r]
           made == Converted(Table(o))
       IN /\ op' = [op EXCEPT ![r] = o]
          /\ size' = [size EXCEPT ![r] = n]
          /\ top' = [top EXCEPT ![r] = Len(stack[s])]
          /\ stack' = [stack EXCEPT ![s] =
               @ \o [i \in 1 .. Len(made) |-> Owned(made[i], r)]]
  /\ UNCHANGED <<universes, ops, registered, saved, frame, scope, filled, table, struct,
                 reply, copied, process>>

(***************************************************************************)
(* prepare() finds the function: it pushes the table the function was      *)
(* found in, the handler pushes the arguments, and lua_pcall takes nargs   *)
(* values and the function below them from the stack.                      *)
(* FrameRight says that the value below the handler's own is always the    *)
(* operations table, so prepare() never indexes anything else.             *)
(***************************************************************************)
Invoke(r) ==
  LET s == lease[r]
      o == Table(op[r])
      pushed == stack[s] \o <<Function(o.fn), stack[s][top[r]]>>
                \o [i \in 1 .. Len(o.args) |-> Item(o.args[i], r)]
      below == Len(pushed) - o.nargs - 1
  IN /\ Goto(r, "prepare", "callback")
     /\ o.fn \in ops[s]
     /\ frame' = [frame EXCEPT ![r] = SubSeq(pushed, below + 1, Len(pushed))]
     /\ stack' = [stack EXCEPT ![s] = SubSeq(pushed, 1, below)]
     /\ scope' = IF op[r] = "readdir" THEN [scope EXCEPT ![r] = "open"] ELSE scope
     /\ UNCHANGED <<universes, ops, registered, lease, saved, op, size, top, filled, table,
                    struct, reply, copied, process>>

NotDefined(r) ==
  LET s == lease[r]
      o == Table(op[r])
  IN /\ Goto(r, "prepare", "write_back")
     /\ o.fn \notin ops[s]
     /\ stack' = [stack EXCEPT ![s] = Append(@, Nil)]
     /\ reply' = [reply EXCEPT ![r] = IF o.reply = "none" THEN 0 ELSE -ENOSYS]
     /\ UNCHANGED <<universes, ops, registered, lease, saved, op, size, top, frame, scope,
                    filled, table, struct, copied, process>>
-----------------------------------------------------------------------------
(***************************************************************************)
(* The callback.  It can use the handles in its frame and those the script *)
(* kept in the same universe.                                              *)
(***************************************************************************)
InFrame(r, item) == \E i \in 1 .. Len(frame[r]) : frame[r][i] = item

Handles(r) == saved[lease[r]]
              \union (IF InFrame(r, Owned("fill", r)) THEN {r} ELSE {})

\* fill_dir::operator() with function_ and buffer_ set calls libfuse.
Fill(r) ==
  /\ Goto(r, "callback", "callback")
  /\ \E h \in Handles(r) :
       /\ scope[h] = "open"
       /\ filled[h] < MaxFill
       /\ filled' = [filled EXCEPT ![h] = @ + 1]
  /\ UNCHANGED <<universes, ops, registered, lease, stack, saved, op, size, top, frame,
                 scope, table, struct, reply, copied, process>>

\* The script stores the handle it was given in a variable of its universe.
Keep(r) ==
  /\ Goto(r, "callback", "callback")
  /\ InFrame(r, Owned("fill", r))
  /\ r \notin saved[lease[r]]
  /\ saved' = [saved EXCEPT ![lease[r]] = @ \union {r}]
  /\ UNCHANGED <<universes, ops, registered, lease, stack, op, size, top, frame, scope,
                 filled, table, struct, reply, copied, process>>

\* The script assigns to a field of a table it was given.
Assign(r) ==
  /\ Goto(r, "callback", "callback")
  /\ \E k \in Structures, c \in {"script", "bad"} :
       /\ InFrame(r, Owned(k, r))
       /\ table[r][k] = "kernel"
       /\ table' = [table EXCEPT ![r][k] = c]
  /\ UNCHANGED <<universes, ops, registered, lease, stack, saved, op, size, top, frame,
                 scope, filled, struct, reply, copied, process>>
-----------------------------------------------------------------------------
(***************************************************************************)
(* What the handler makes of the result v of the callback.                 *)
(***************************************************************************)
IsString(v) == v.type \in {"string", "number"}   \* luaX_to_string

ReplyTo(o, v, n) ==
  IF o.reply = "none" THEN 0
  ELSE CASE v.type = "integer" -> v.n
         [] v.type = "nil" /\ o.reply = "status" -> 0
         [] v.type = "nil" /\ o.reply = "written" -> n
         [] v.type = "table" /\ o.reply = "attr" -> 0
         [] IsString(v) /\ o.reply = "link" -> 0
         [] IsString(v) /\ o.reply = "data" -> v.n
         [] IsString(v) /\ o.reply = "xattr" ->
              IF v.n > n THEN -ERANGE ELSE v.n
         [] OTHER -> -ENOSYS

Smaller(m, n) == IF m <= n THEN m ELSE n

\* Faulty variant of CopiedFrom: the whole string is copied.
CopiedWhole(o, v, n) == IF IsString(v) THEN v.n ELSE 0

CopiedFrom(o, v, n) ==
  IF ~IsString(v) THEN 0
  ELSE CASE o.reply = "link" -> Smaller(n - 1, v.n)
         [] o.reply = "data" -> Smaller(n, v.n)
         [] o.reply = "xattr" /\ v.n <= n -> v.n
         [] OTHER -> 0

\* A table with a field out of bounds makes convert() raise an error.
BadTable(o, v) == o.reply = "attr" /\ v.type = "table" /\ ~v.ok

AfterCall(r) == IF scope[r] = "open" THEN "scope" ELSE "write_back"

\* init and destroy ask lua_pcall for no result.
PushResult(o) == IF o.reply = "none" THEN <<>> ELSE <<<<"result", "">>>>

Answer(r) ==
  LET o == Table(op[r]) IN
  /\ Goto(r, "callback", AfterCall(r))
  /\ \E v \in Results :
       /\ ~BadTable(o, v)
       /\ reply' = [reply EXCEPT ![r] = ReplyTo(o, v, size[r])]
       /\ copied' = [copied EXCEPT ![r] = CopiedFrom(o, v, size[r])]
  /\ stack' = [stack EXCEPT ![lease[r]] = @ \o PushResult(o)]
  /\ frame' = [frame EXCEPT ![r] = <<>>]
  /\ UNCHANGED <<universes, ops, registered, lease, saved, op, size, top, scope, filled,
                 table, struct, process>>

AnswerAborts(r) ==
  /\ \E v \in Results : BadTable(Table(op[r]), v)
  /\ Abort(r, "callback")

(***************************************************************************)
(* The callback raises: an integer is the reply, anything else, such as a  *)
(* message, is -ENOSYS.  A fill handle that was reset does not raise: its  *)
(* failure reaches the script as nil and "out of scope".                   *)
(***************************************************************************)
Raise(r) ==
  LET o == Table(op[r]) IN
  /\ Goto(r, "callback", AfterCall(r))
  /\ \E n \in {v.n : v \in {w \in Results : w.type = "integer"}} \union {-ENOSYS} :
       reply' = [reply EXCEPT ![r] = IF o.reply = "none" THEN 0 ELSE n]
  /\ stack' = [stack EXCEPT ![lease[r]] = Append(@, <<"error", "">>)]
  /\ frame' = [frame EXCEPT ![r] = <<>>]
  /\ UNCHANGED <<universes, ops, registered, lease, saved, op, size, top, scope, filled,
                 table, struct, copied, process>>
-----------------------------------------------------------------------------
\* Faulty variant of ResetScope: the handle keeps function and buffer.
ResetScopeSkipped(r) ==
  /\ Goto(r, "scope", "write_back")
  /\ UNCHANGED <<universes, ops, registered, lease, stack, saved, op, size, top, frame,
                 scope, filled, table, struct, reply, copied, process>>

(***************************************************************************)
(* The destructors.                                                        *)
(***************************************************************************)
ResetScope(r) ==
  /\ Goto(r, "scope", "write_back")
  /\ scope' = [scope EXCEPT ![r] = "reset"]
  /\ UNCHANGED <<universes, ops, registered, lease, stack, saved, op, size, top, frame,
                 filled, table, struct, reply, copied, process>>

\* Faulty variant of AtIndex: the index counts from the top of the stack.
AtIndexRelative(r, i) ==
  LET s == lease[r] IN stack[s][Len(stack[s])]

\* ~scoped_converter converts what is at the index its table was made at.
AtIndex(r, i) ==
  LET s == lease[r] IN
  IF i <= Len(stack[s]) THEN stack[s][i] ELSE Nil

Found(r) == {k \in Structures :
               \E i \in 1 .. Len(Converted(Table(op[r]))) :
                 /\ Converted(Table(op[r]))[i] = k
                 /\ AtIndex(r, top[r] + i) = Owned(k, r)}

WriteBack(r) ==
  /\ Goto(r, "write_back", "restore")
  /\ \A k \in Found(r) : table[r][k] # "bad"
  /\ struct' = [struct EXCEPT ![r] =
       [k \in Structures |-> IF k \in Found(r) THEN table[r][k] ELSE @[k]]]
  /\ UNCHANGED <<universes, ops, registered, lease, stack, saved, op, size, top, frame,
                 scope, filled, table, reply, copied, process>>

WriteBackAborts(r) ==
  /\ pc[r] = "write_back"
  /\ \E k \in Found(r) : table[r][k] = "bad"
  /\ Abort(r, "write_back")

\* Faulty variant of RestoreTop: the stack is left as it is.
RestoreTopSkipped(r) ==
  /\ Goto(r, "restore", "close")
  /\ UNCHANGED <<universes, ops, registered, lease, stack, saved, op, size, top, frame,
                 scope, filled, table, struct, reply, copied, process>>

RestoreTop(r) ==
  /\ Goto(r, "restore", "close")
  /\ stack' = [stack EXCEPT ![lease[r]] = SubSeq(@, 1, top[r])]
  /\ UNCHANGED <<universes, ops, registered, lease, saved, op, size, top, frame, scope,
                 filled, table, struct, reply, copied, process>>

\* Faulty variant of CloseState: the state is never given back.
CloseStateSkipped(r) ==
  /\ Goto(r, "close", "done")
  /\ UNCHANGED <<universes, ops, registered, lease, stack, saved, op, size, top, frame,
                 scope, filled, table, struct, reply, copied, process>>

CloseState(r) ==
  /\ Goto(r, "close", "done")
  /\ L!Return(r)
  /\ UNCHANGED <<universes, ops, registered, stack, saved, op, size, top, frame, scope,
                 filled, table, struct, reply, copied, process>>

Done ==
  /\ process = "aborted" \/ \A r \in Requests : pc[r] = "done"
  /\ UNCHANGED vars

Step(r) ==
  \/ Arrive(r) \/ Invoke(r) \/ NotDefined(r)
  \/ Fill(r) \/ Keep(r) \/ Assign(r)
  \/ Answer(r) \/ AnswerAborts(r) \/ Raise(r)
  \/ ResetScope(r) \/ WriteBack(r) \/ WriteBackAborts(r)
  \/ RestoreTop(r) \/ CloseState(r)

Next == (\E r \in Requests : Step(r)) \/ Done

Spec == Init /\ [][Next]_vars
(***************************************************************************)
(* Threads keep running and callbacks come to an end (their fills, keeps   *)
(* and assignments are bounded); the manager lends a state that is free.   *)
(***************************************************************************)
FairSpec == Spec /\ \A r \in Requests : WF_vars(Step(r))
-----------------------------------------------------------------------------
Passed(r) == {k \in Structures : Has(Table(op[r]), k)}

(***************************************************************************)
(* A state goes back to the manager with the stack it came with: the       *)
(* operations table alone.  The next request finds its operations at the   *)
(* top it saves, whatever path the handler before it took.                 *)
(***************************************************************************)
StackRestored ==
  process = "up" => \A s \in States \ L!Lent : stack[s] = <<Ops>>

(***************************************************************************)
(* The callback receives the function that was looked up, the operations   *)
(* table, and this request's own tables and fill handle: nargs, the        *)
(* conversions and the pushes of every handler agree.                      *)
(***************************************************************************)
FrameRight ==
  \A r \in Requests : pc[r] = "callback" =>
    /\ frame[r][1] = Function(Table(op[r]).fn)
    /\ frame[r][2] = Ops
    /\ Len(frame[r]) = Len(Table(op[r]).args) + 2
    /\ \A k \in Passed(r) : InFrame(r, Owned(k, r))
    /\ \A q \in Requests \ {r} : \A k \in IsOwned : ~InFrame(r, Owned(k, q))

(***************************************************************************)
(* A directory buffer of libfuse is written only while the callback of the *)
(* readdir it belongs to runs, although scripts can keep the handle and    *)
(* call it from a later request in the same universe.                      *)
(***************************************************************************)
FillInScope ==
  [][\A h \in Requests :
       filled'[h] # filled[h] => pc[h] = "callback" /\ pc'[h] = "callback"]_vars

(***************************************************************************)
(* When the handler restores the stack, libfuse's structures hold what the *)
(* callback left in their tables, also when the operation was answered     *)
(* with an error; a table the script spoiled never gets this far.          *)
(***************************************************************************)
WrittenBack ==
  \A r \in Requests : pc[r] \in {"restore", "close", "done"} =>
    \A k \in Passed(r) : struct[r][k] = table[r][k] /\ struct[r][k] # "bad"

(***************************************************************************)
(* What a handler stores never exceeds the buffer it was given, whatever   *)
(* string the callback returns; readlink leaves room for the final zero.   *)
(***************************************************************************)
CopyFits ==
  \A r \in Requests : pc[r] = "done" =>
    /\ copied[r] <= size[r]
    /\ op[r] = "readlink" => copied[r] < size[r]

(***************************************************************************)
(* Every request is answered, although one state may have to serve them    *)
(* all, unless a Lua error outside lua_pcall has ended the process.        *)
(***************************************************************************)
EveryRequestAnswered ==
  \A r \in Requests : <>(pc[r] = "done" \/ process = "aborted")

(***************************************************************************)
(* A handler passes the script exactly what the prototype in fuse.h        *)
(* receives, in its order and once, and gives back the structures of every *)
(* request as the script left them, whatever stacks and states it used.    *)
(* That the script's function is the one of the same name is a property    *)
(* of its own, below: it does not hold.                                    *)
(***************************************************************************)
Phase(r) ==
  CASE pc[r] = "new" -> "idle"
    [] pc[r] = "prepare" -> "asked"
    [] pc[r] = "callback" -> "running"
    [] pc[r] \in {"scope", "write_back"} -> "answered"
    [] OTHER -> "returned"

Api == INSTANCE FuseApi WITH
         phase <- [r \in Requests |-> Phase(r)],
         got <- [r \in Requests |-> SubSeq(frame[r], 3, Len(frame[r]))]

ImplementsApi == Api!Spec

(***************************************************************************)
(* fuse.h documents one function per operation, flock among them: the      *)
(* callback that runs for an operation is the script's function of that    *)
(* name.                                                                   *)
(***************************************************************************)
CalleeIsOperation ==
  \A r \in Requests : pc[r] = "callback" => frame[r][1] = Function(op[r])

(***************************************************************************)
(* fuse.h on read: "return exactly the number of bytes requested except on *)
(* EOF or error", so never more.                                           *)
(***************************************************************************)
ReadWithinRequest ==
  \A r \in Requests : pc[r] = "done" /\ op[r] = "read" => reply[r] <= size[r]
=============================================================================
