------------------------------- MODULE FuseApi -------------------------------
(***************************************************************************)
(* What libfuse may rely on, and what a script may: struct fuse_operations *)
(* of fuse.h as a service.  An operation libfuse was given and asks for is *)
(* passed, once and with exactly the parameters of its prototype, to the   *)
(* script of some universe, or to none if that script has no such          *)
(* function; the structures passed by pointer come back as the script left *)
(* them when the operation returns.  How states are borrowed and values    *)
(* moved over Lua stacks is not visible here: Operations implements this.  *)
(***************************************************************************)
EXTENDS Naturals, Sequences, SequencesExt

CONSTANT Requests

(***************************************************************************)
(* The parameters of each member of struct fuse_operations.  A parameter   *)
(* that libfuse only wants filled in (result, buffer), the length of a     *)
(* piece of data (bytes) and private_data are no values for a script.      *)
(***************************************************************************)
LinkPrototypes ==
  [getattr  |-> <<"path", "result">>,
   readlink |-> <<"path", "buffer", "size">>,
   mknod    |-> <<"path", "mode", "dev">>,
   mkdir    |-> <<"path", "mode">>,
   unlink   |-> <<"path">>,
   rmdir    |-> <<"path">>,
   symlink  |-> <<"target", "path">>,
   rename   |-> <<"oldpath", "newpath">>,
   link     |-> <<"oldpath", "newpath">>]

FilePrototypes ==
  [chmod    |-> <<"path", "mode">>,
   chown    |-> <<"path", "uid", "gid">>,
   truncate |-> <<"path", "size">>,
   open     |-> <<"path", "info">>,
   read     |-> <<"path", "buffer", "size", "offset", "info">>,
   write    |-> <<"path", "data", "bytes", "offset", "info">>,
   statfs   |-> <<"path", "result">>,
   flush    |-> <<"path", "info">>]

XattrPrototypes ==
  [release     |-> <<"path", "info">>,
   fsync       |-> <<"path", "datasync", "info">>,
   setxattr    |-> <<"path", "name", "data", "bytes", "flags">>,
   getxattr    |-> <<"path", "name", "buffer", "size">>,
   listxattr   |-> <<"path", "buffer", "size">>,
   removexattr |-> <<"path", "name">>]

DirPrototypes ==
  [opendir    |-> <<"path", "info">>,
   readdir    |-> <<"path", "buffer", "fill", "offset", "info">>,
   releasedir |-> <<"path", "info">>,
   fsyncdir   |-> <<"path", "datasync", "info">>,
   init       |-> <<"info">>,
   destroy    |-> <<"private">>,
   access     |-> <<"path", "mode">>,
   create     |-> <<"path", "mode", "info">>]

LockPrototypes ==
  [ftruncate |-> <<"path", "size", "info">>,
   fgetattr  |-> <<"path", "result", "info">>,
   lock      |-> <<"path", "info", "command", "flock">>,
   utimens   |-> <<"path", "times">>,
   flock     |-> <<"path", "info", "operation">>,
   fallocate |-> <<"path", "mode", "offset", "size", "info">>]

Prototype(o) ==
  IF o \in DOMAIN LinkPrototypes THEN LinkPrototypes[o]
  ELSE IF o \in DOMAIN FilePrototypes THEN FilePrototypes[o]
  ELSE IF o \in DOMAIN XattrPrototypes THEN XattrPrototypes[o]
  ELSE IF o \in DOMAIN DirPrototypes THEN DirPrototypes[o]
  ELSE LockPrototypes[o]

Members == DOMAIN LinkPrototypes \union DOMAIN FilePrototypes
           \union DOMAIN XattrPrototypes \union DOMAIN DirPrototypes
           \union DOMAIN LockPrototypes

\* OS X adds the position within the attribute to these two; elsewhere nil.
Extra(o) == IF o \in {"setxattr", "getxattr"} THEN <<"position">> ELSE <<>>

Hidden == {"result", "buffer", "bytes", "private"}

\* The values the script is given for a parameter p of the request r.
Given(p, r) ==
  IF p \in Hidden THEN <<>>
  ELSE IF p = "times" THEN <<<<"arg", "atime">>, <<"arg", "mtime">>>>
  ELSE IF p \in {"info", "flock", "fill"} THEN <<<<p, r>>>>
  ELSE <<<<"arg", p>>>>

Values(ps, r) == FlattenSeq([i \in 1 .. Len(ps) |-> Given(ps[i], r)])

Arguments(o, r) == Values(Prototype(o) \o Extra(o), r)

Structures == {"info", "flock"}
Passed(o) == Structures \intersect ToSet(Prototype(o))
-----------------------------------------------------------------------------
VARIABLES
  registered,  \* the members of fuse_operations that are not null
  phase,       \* phase[r]: idle, asked, running, answered or returned
  op,          \* op[r]: the operation of r
  got,         \* got[r]: the arguments the script is working on
  table,       \* table[r]: the structures of r as the script sees them
  struct,      \* struct[r]: the structures of r as libfuse sees them
  process      \* up, or aborted

vars == <<registered, phase, op, got, table, struct, process>>

Fresh == [r \in Requests |-> [k \in Structures |-> "kernel"]]

Init ==
  /\ registered \subseteq Members
  /\ phase = [r \in Requests |-> "idle"]
  /\ op \in [Requests -> Members]
  /\ got = [r \in Requests |-> <<>>]
  /\ table = Fresh
  /\ struct = Fresh
  /\ process = "up"

Move(r, from, to) ==
  /\ process = "up"
  /\ phase[r] = from
  /\ phase' = [phase EXCEPT ![r] = to]

\* libfuse asks only for what it was given.
Ask(r) ==
  /\ Move(r, "idle", "asked")
  /\ \E o \in registered : op' = [op EXCEPT ![r] = o]
  /\ UNCHANGED <<registered, got, table, struct, process>>

Call(r) ==
  /\ Move(r, "asked", "running")
  /\ got' = [got EXCEPT ![r] = Arguments(op[r], r)]
  /\ UNCHANGED <<registered, op, table, struct, process>>

Skip(r) ==
  /\ Move(r, "asked", "answered")
  /\ UNCHANGED <<registered, op, got, table, struct, process>>

\* The script changes a structure it was passed, well or badly.
Change(r) ==
  /\ Move(r, "running", "running")
  /\ \E k \in Passed(op[r]), c \in {"script", "bad"} :
       table' = [table EXCEPT ![r][k] = c]
  /\ UNCHANGED <<registered, op, got, struct, process>>

Answer(r) ==
  /\ Move(r, "running", "answered")
  /\ got' = [got EXCEPT ![r] = <<>>]
  /\ UNCHANGED <<registered, op, table, struct, process>>

\* Every structure that was passed comes back, none that was spoiled does.
Return(r) ==
  /\ Move(r, "answered", "returned")
  /\ \A k \in Passed(op[r]) : table[r][k] # "bad"
  /\ struct' = [struct EXCEPT ![r] =
       [k \in Structures |-> IF k \in Passed(op[r]) THEN table[r][k] ELSE @[k]]]
  /\ UNCHANGED <<registered, op, got, table, process>>

\* A value out of bounds ends the process, never a request alone.
Abort ==
  /\ process = "up"
  /\ \E r \in Requests : phase[r] \in {"running", "answered"}
  /\ process' = "aborted"
  /\ UNCHANGED <<registered, phase, op, got, table, struct>>

Next ==
  \/ \E r \in Requests :
       Ask(r) \/ Call(r) \/ Skip(r) \/ Change(r) \/ Answer(r) \/ Return(r)
  \/ Abort

Spec == Init /\ [][Next]_vars
=============================================================================
