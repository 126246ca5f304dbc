-------------------------- MODULE OperationsProofs --------------------------
(***************************************************************************)
(* Proofs about Operations, for any set of requests, any manager that      *)
(* implements Lease, any script and any results.                           *)
(*                                                                         *)
(* The inductive invariant IInv follows a request through its labels: who  *)
(* holds a state, what the stack of that state looks like between the top  *)
(* the handler saved and the top now, what the callback received, and      *)
(* which fill handles can still be used.                                   *)
(***************************************************************************)
EXTENDS Operations, SequenceTheorems, TLAPS

(***************************************************************************)
(* The table of operations.  What the proofs need of it: the literal given *)
(* to lua_pcall counts the arguments and the operations table, and a       *)
(* structure that is converted is also passed.                             *)
(***************************************************************************)
ArgNames ==
  {"path", "target", "oldpath", "newpath", "name", "data", "size", "offset",
   "position", "flags", "mode", "dev", "uid", "gid", "atime", "mtime",
   "datasync", "command", "operation", "info", "flock", "fill"}

\* n counts args and the operations table.
Counts(args, n) == args \in Seq(ArgNames) /\ n = Len(args) + 1
Names(args, kind) == \E i \in 1 .. Len(args) : args[i] = kind
Entry(t) ==
  /\ Counts(t.args, t.nargs)
  /\ t.info \in BOOLEAN /\ t.flock \in BOOLEAN
  /\ (t.info => Names(t.args, "info"))
  /\ (t.flock => Names(t.args, "flock"))

LEMMA PlainEntry ==
  ASSUME NEW fn, NEW args, NEW kind, NEW nargs, Counts(args, nargs)
  PROVE  Entry(Op(fn, args, nargs, kind))
BY DEF Op, Entry

LEMMA FileEntry ==
  ASSUME NEW fn, NEW args, NEW kind, NEW nargs, Counts(args, nargs),
         Names(args, "info")
  PROVE  Entry(FileOp(fn, args, nargs, kind))
BY DEF Op, FileOp, Entry

LEMMA PlainArguments ==
  /\ Counts(<<>>, 1)
  /\ Counts(<<"path">>, 2)
  /\ Counts(<<"oldpath", "newpath">>, 3)
  /\ Counts(<<"path", "mode">>, 3)
  /\ Counts(<<"path", "name">>, 3)
  /\ Counts(<<"path", "size">>, 3)
  /\ Counts(<<"target", "path">>, 3)
  /\ Counts(<<"path", "atime", "mtime">>, 4)
  /\ Counts(<<"path", "mode", "dev">>, 4)
  /\ Counts(<<"path", "uid", "gid">>, 4)
  /\ Counts(<<"path", "name", "size", "position">>, 5)
  /\ Counts(<<"path", "name", "data", "flags", "position">>, 6)
BY DEF Counts, ArgNames

LEMMA FileArguments ==
  /\ Counts(<<"info">>, 2)
  /\ Counts(<<"path", "info">>, 3)
  /\ Counts(<<"path", "datasync", "info">>, 4)
  /\ Counts(<<"path", "info", "operation">>, 4)
  /\ Counts(<<"path", "mode", "info">>, 4)
  /\ Counts(<<"path", "size", "info">>, 4)
  /\ Counts(<<"path", "data", "offset", "info">>, 5)
  /\ Counts(<<"path", "fill", "offset", "info">>, 5)
  /\ Counts(<<"path", "info", "command", "flock">>, 5)
  /\ Counts(<<"path", "size", "offset", "info">>, 5)
  /\ Counts(<<"path", "mode", "offset", "size", "info">>, 6)
BY DEF Counts, ArgNames

LEMMA FileNames ==
  /\ Names(<<"info">>, "info")
  /\ Names(<<"path", "info">>, "info")
  /\ Names(<<"path", "datasync", "info">>, "info")
  /\ Names(<<"path", "info", "operation">>, "info")
  /\ Names(<<"path", "mode", "info">>, "info")
  /\ Names(<<"path", "size", "info">>, "info")
  /\ Names(<<"path", "data", "offset", "info">>, "info")
  /\ Names(<<"path", "fill", "offset", "info">>, "info")
  /\ Names(<<"path", "info", "command", "flock">>, "info")
  /\ Names(<<"path", "size", "offset", "info">>, "info")
  /\ Names(<<"path", "mode", "offset", "size", "info">>, "info")
BY DEF Names

LEMMA LinkEntries == \A o \in DOMAIN LinkOps : Entry(LinkOps[o])
<1>1. /\ Entry(LinkOps["getattr"])
      /\ Entry(LinkOps["readlink"])
      /\ Entry(LinkOps["mknod"])
      /\ Entry(LinkOps["mkdir"])
      /\ Entry(LinkOps["unlink"])
      /\ Entry(LinkOps["rmdir"])
      /\ Entry(LinkOps["symlink"])
      /\ Entry(LinkOps["rename"])
      /\ Entry(LinkOps["link"])
  BY PlainArguments, FileArguments, FileNames, PlainEntry, FileEntry, Zenon DEF LinkOps
<1>2. DOMAIN LinkOps = {"getattr", "readlink", "mknod", "mkdir", "unlink", "rmdir", "symlink", "rename", "link"}
  BY DEF LinkOps
<1>3. QED
  BY <1>1, <1>2

LEMMA FileEntries == \A o \in DOMAIN FileOps : Entry(FileOps[o])
<1>1. /\ Entry(FileOps["chmod"])
      /\ Entry(FileOps["chown"])
      /\ Entry(FileOps["truncate"])
      /\ Entry(FileOps["open"])
      /\ Entry(FileOps["read"])
      /\ Entry(FileOps["write"])
      /\ Entry(FileOps["statfs"])
      /\ Entry(FileOps["flush"])
  BY PlainArguments, FileArguments, FileNames, PlainEntry, FileEntry, Zenon DEF FileOps
<1>2. DOMAIN FileOps = {"chmod", "chown", "truncate", "open", "read", "write", "statfs", "flush"}
  BY DEF FileOps
<1>3. QED
  BY <1>1, <1>2

LEMMA XattrEntries == \A o \in DOMAIN XattrOps : Entry(XattrOps[o])
<1>1. /\ Entry(XattrOps["release"])
      /\ Entry(XattrOps["fsync"])
      /\ Entry(XattrOps["setxattr"])
      /\ Entry(XattrOps["getxattr"])
      /\ Entry(XattrOps["listxattr"])
      /\ Entry(XattrOps["removexattr"])
  BY PlainArguments, FileArguments, FileNames, PlainEntry, FileEntry, Zenon DEF XattrOps
<1>2. DOMAIN XattrOps = {"release", "fsync", "setxattr", "getxattr", "listxattr", "removexattr"}
  BY DEF XattrOps
<1>3. QED
  BY <1>1, <1>2

LEMMA DirEntries == \A o \in DOMAIN DirOps : Entry(DirOps[o])
<1>1. /\ Entry(DirOps["opendir"])
      /\ Entry(DirOps["readdir"])
      /\ Entry(DirOps["releasedir"])
      /\ Entry(DirOps["fsyncdir"])
      /\ Entry(DirOps["init"])
      /\ Entry(DirOps["destroy"])
      /\ Entry(DirOps["access"])
      /\ Entry(DirOps["create"])
  BY PlainArguments, FileArguments, FileNames, PlainEntry, FileEntry, Zenon DEF DirOps
<1>2. DOMAIN DirOps = {"opendir", "readdir", "releasedir", "fsyncdir", "init", "destroy", "access", "create"}
  BY DEF DirOps
<1>3. QED
  BY <1>1, <1>2

LEMMA LockEntries == \A o \in DOMAIN LockOps : Entry(LockOps[o])
<1>1. /\ Entry(LockOps["ftruncate"])
      /\ Entry(LockOps["fgetattr"])
      /\ Entry(LockOps["utimens"])
      /\ Entry(LockOps["flock"])
      /\ Entry(LockOps["fallocate"])
  BY PlainArguments, FileArguments, FileNames, PlainEntry, FileEntry, Zenon DEF LockOps
<1>2. Entry(LockOps["lock"])
  <2> DEFINE args == <<"path", "info", "command", "flock">>
             op1 == FileOp("lock", args, 5, "status")
  <2>1. Counts(args, 5) /\ Names(args, "info") /\ Names(args, "flock")
    BY DEF Counts, Names, ArgNames
  <2>2. LockOps["lock"] = [op1 EXCEPT !.flock = TRUE]
    BY DEF LockOps
  <2>3. /\ [op1 EXCEPT !.flock = TRUE].args = args
        /\ [op1 EXCEPT !.flock = TRUE].nargs = 5
        /\ [op1 EXCEPT !.flock = TRUE].info = TRUE
        /\ [op1 EXCEPT !.flock = TRUE].flock = TRUE
    BY DEF FileOp, Op
  <2> HIDE DEF args, op1
  <2>4. QED
    BY <2>1, <2>2, <2>3, Zenon DEF Entry
<1>3. DOMAIN LockOps = {"ftruncate", "fgetattr", "lock", "utimens", "flock", "fallocate"}
  BY DEF LockOps
<1>4. QED
  BY <1>1, <1>2, <1>3

LEMMA Entries == \A o \in OpNames : Entry(Table(o))
BY LinkEntries, FileEntries, XattrEntries, DirEntries, LockEntries, Zenon
   DEF OpNames, Table

LEMMA Fixed == {"init", "destroy", "readlink"} \subseteq OpNames
BY DEF OpNames, LinkOps, DirOps

LEMMA ReadlinkReply == Table("readlink").reply = "link"
BY DEF Table, LinkOps, Op
-----------------------------------------------------------------------------
(***************************************************************************)
(* The invariant.                                                          *)
(***************************************************************************)
Working == {"prepare", "callback", "scope", "write_back", "restore", "close"}

\* What can be on a stack or in a frame.
Callees == {Function(Table(o).fn) : o \in OpNames}
Items(r) == {Item(k, r) : k \in ArgNames}

Cell ==
  {Ops, Nil, <<"result", "">>, <<"error", "">>}
  \union Callees \union UNION {Items(r) : r \in Requests}

Types ==
  /\ lease \in [Requests -> States \union {NoState}]
  /\ stack \in [States -> Seq(Cell)]
  /\ saved \in [States -> SUBSET Requests]
  /\ pc \in [Requests -> Labels]
  /\ op \in [Requests -> OpNames]
  /\ registered \subseteq OpNames
  /\ size \in [Requests -> Nat]
  /\ top \in [Requests -> Nat]
  /\ frame \in [Requests -> Seq(Cell)]
  /\ scope \in [Requests -> {"none", "open", "reset"}]
  /\ filled \in [Requests -> Nat]
  /\ table \in [Requests -> [Structures -> Contents]]
  /\ struct \in [Requests -> [Structures -> Contents]]
  /\ copied \in [Requests -> Int]

\* A handler holds a state of its own from its constructor to its destructor.
Borrowed ==
  /\ \A r \in Requests : lease[r] # NoState <=> pc[r] \in Working
  /\ \A q, r \in Requests :
       lease[r] # NoState /\ q # r => lease[q] # lease[r]

\* The stack of the state r holds: the operations table, the tables r made,
\* and from the end of the callback on what lua_pcall left.
Layout(r) ==
  LET made == Converted(Table(op[r]))
      cells == stack[lease[r]]
  IN /\ top[r] = 1
     /\ Len(cells) >= 1 /\ cells[1] = Ops
     /\ pc[r] \in {"prepare", "callback", "scope", "write_back"} =>
          /\ Len(cells) >= 1 + Len(made)
          /\ \A i \in 1 .. Len(made) : cells[1 + i] = Owned(made[i], r)
     /\ pc[r] \in {"prepare", "callback"} => Len(cells) = 1 + Len(made)
     /\ pc[r] = "close" => Len(cells) = 1

Stacks ==
  /\ \A r \in Requests : pc[r] \in Working => Layout(r)
  /\ \A s \in States : (\A r \in Requests : lease[r] # s) => stack[s] = <<Ops>>

\* The function, the operations table, and the arguments in order.
Passes(r) ==
  LET t == Table(op[r])
  IN <<Function(t.fn), Ops>> \o [i \in 1 .. Len(t.args) |-> Item(t.args[i], r)]

Frames == \A r \in Requests : pc[r] = "callback" => frame[r] = Passes(r)

\* A handle is kept where its request runs, and is reset before that ends.
Fills ==
  /\ \A r \in Requests : scope[r] = "open" => pc[r] \in {"callback", "scope"}
  /\ \A s \in States : \A h \in saved[s] :
       \/ pc[h] = "done"
       \/ pc[h] \in Working \ {"prepare"} /\ lease[h] = s

Copies ==
  \A r \in Requests :
    IF pc[r] = "new" THEN copied[r] = 0
    ELSE /\ copied[r] <= size[r]
         /\ op[r] = "readlink" => copied[r] < size[r] /\ size[r] > 0

IInv ==
  Types /\ Borrowed /\ Stacks /\ Frames /\ Fills /\ Copies /\ WrittenBack
-----------------------------------------------------------------------------
(***************************************************************************)
(* Lemmas.                                                                 *)
(***************************************************************************)
LEMMA CellOps == Ops \in Cell /\ Nil \in Cell /\ <<"result", "">> \in Cell
                 /\ <<"error", "">> \in Cell
BY DEF Cell

LEMMA CellFunction == \A o \in OpNames : Function(Table(o).fn) \in Cell
<1>1. \A o \in OpNames : Function(Table(o).fn) \in Callees
  BY Zenon DEF Callees
<1>2. QED
  BY <1>1, Zenon DEF Cell

LEMMA CellItem == \A k \in ArgNames, r \in Requests : Item(k, r) \in Cell
<1>1. \A k \in ArgNames, r \in Requests : Item(k, r) \in Items(r)
  BY Zenon DEF Items
<1>2. QED
  BY <1>1, Zenon DEF Cell

\* What a handler converts: info, flock, both or nothing.
LEMMA ConvertedIs ==
  ASSUME NEW t, t.info \in BOOLEAN, t.flock \in BOOLEAN
  PROVE  /\ Converted(t) \in Seq(Structures)
         /\ \A k \in Structures : Has(t, k) <=>
              \E i \in 1 .. Len(Converted(t)) : Converted(t)[i] = k
         /\ (Has(t, "info") <=> t.info)
         /\ (Has(t, "flock") <=> t.flock)
<1>1. CASE t.info /\ t.flock
  <2>1. Converted(t) = <<"info">> \o <<"flock">>
    BY <1>1, Zenon DEF Converted
  <2> DEFINE c == <<"info">> \o <<"flock">>
  <2>2. Len(c) = 2 /\ c[1] = "info" /\ c[2] = "flock"
    OBVIOUS
  <2>3. c \in Seq(Structures)
    BY DEF Structures
  <2> HIDE DEF c
  <2>4. QED
    BY <1>1, <2>1, <2>2, <2>3 DEF Has, Structures, c
<1>2. CASE t.info /\ ~t.flock
  <2>1. Converted(t) = <<"info">>
    BY <1>2 DEF Converted
  <2>2. QED
    BY <1>2, <2>1 DEF Has, Structures
<1>3. CASE ~t.info /\ t.flock
  <2>1. Converted(t) = <<"flock">>
    BY <1>3 DEF Converted
  <2>2. QED
    BY <1>3, <2>1 DEF Has, Structures
<1>4. CASE ~t.info /\ ~t.flock
  <2>1. Converted(t) = <<>>
    BY <1>4 DEF Converted
  <2>2. QED
    BY <1>4, <2>1 DEF Has, Structures
<1>5. QED
  BY <1>1, <1>2, <1>3, <1>4

\* A handler passes what it converts.
LEMMA PassesConverted ==
  ASSUME NEW o \in OpNames
  PROVE  /\ Converted(Table(o)) \in Seq(Structures)
         /\ \A k \in Structures : Has(Table(o), k) <=>
              \E i \in 1 .. Len(Converted(Table(o))) :
                Converted(Table(o))[i] = k
         /\ \A k \in Structures : Has(Table(o), k) => Names(Table(o).args, k)
<1> DEFINE t == Table(o)
<1>1. Entry(t)
  BY Entries
<1> HIDE DEF t
<1>2. /\ t.info \in BOOLEAN /\ t.flock \in BOOLEAN
      /\ (t.info => Names(t.args, "info"))
      /\ (t.flock => Names(t.args, "flock"))
  BY <1>1, Zenon DEF Entry
<1>3. /\ Converted(t) \in Seq(Structures)
      /\ \A k \in Structures : Has(t, k) <=>
           \E i \in 1 .. Len(Converted(t)) : Converted(t)[i] = k
      /\ (Has(t, "info") <=> t.info)
      /\ (Has(t, "flock") <=> t.flock)
  BY <1>2, ConvertedIs
<1>4. \A k \in Structures : Has(t, k) => Names(t.args, k)
  BY <1>2, <1>3 DEF Structures
<1>5. QED
  BY <1>3, <1>4, Zenon DEF t

LEMMA Cut ==
  ASSUME NEW S, NEW a \in Seq(S), NEW b \in Seq(S)
  PROVE  /\ SubSeq(a \o b, 1, Len(a)) = a
         /\ SubSeq(a \o b, Len(a) + 1, Len(a) + Len(b)) = b
BY SMTT(30)
-----------------------------------------------------------------------------
(***************************************************************************)
(* The invariant holds initially and every step preserves it.              *)
(***************************************************************************)
LEMMA AboveOps ==
  ASSUME NEW b \in Seq(Cell)
  PROVE  /\ <<Ops>> \o b \in Seq(Cell)
         /\ Len(<<Ops>> \o b) = 1 + Len(b)
         /\ (<<Ops>> \o b)[1] = Ops
         /\ \A i \in 1 .. Len(b) : (<<Ops>> \o b)[1 + i] = b[i]
<1>1. Ops \in Cell
  BY CellOps
<1>2. QED
  BY <1>1

LEMMA Single ==
  ASSUME NEW S, NEW x \in S
  PROVE  <<x>> \in Seq(S) /\ Len(<<x>>) \in 0 .. 1
OBVIOUS

LEMMA SamePasses ==
  ASSUME NEW q \in Requests, op'[q] = op[q]
  PROVE  Passes(q)' = Passes(q)
BY Zenon DEF Passes

LEMMA InitIInv == Init => IInv
<1> SUFFICES ASSUME Init PROVE IInv
  OBVIOUS
<1> USE OperationsAssumption DEF Init
<1>1. Types
  <2>1. registered \subseteq OpNames
    BY Fixed DEF Registered
  <2>2. [s \in States |-> <<Ops>>] \in [States -> Seq(Cell)]
    <3>1. <<Ops>> \in Seq(Cell)
      BY Single, CellOps, Zenon
    <3>2. QED
      BY <3>1, Zenon
  <2>3. op \in [Requests -> OpNames]
    <3>1. "init" \in OpNames
      BY Fixed
    <3>2. QED
      BY <3>1
  <2>4. [k \in Structures |-> "kernel"] \in [Structures -> Contents]
    BY DEF Contents
  <2>5. QED
    BY <2>1, <2>2, <2>3, <2>4 DEF Types, Labels
<1>2. Borrowed
  BY DEF Borrowed, Working
<1>3. Stacks
  BY DEF Stacks, Working
<1>4. Frames /\ Fills /\ Copies /\ WrittenBack
  BY DEF Frames, Fills, Copies, WrittenBack
<1>5. QED
  BY <1>1, <1>2, <1>3, <1>4 DEF IInv

LEMMA OwnedCell ==
  ASSUME NEW made \in Seq(Structures), NEW r \in Requests
  PROVE  [i \in 1 .. Len(made) |-> Owned(made[i], r)] \in Seq(Cell)
<1>1. ASSUME NEW i \in 1 .. Len(made)
      PROVE  Owned(made[i], r) \in Cell
  <2>1. made[i] \in Structures
    OBVIOUS
  <2>2. made[i] \in ArgNames /\ made[i] \in IsOwned
    BY <2>1 DEF Structures, ArgNames, IsOwned
  <2>3. Item(made[i], r) = Owned(made[i], r)
    BY <2>2 DEF Item
  <2>4. QED
    BY <2>2, <2>3, CellItem, Zenon
<1>2. QED
  BY <1>1

LEMMA ArriveStep ==
  ASSUME IInv, NEW r \in Requests, Arrive(r)
  PROVE  IInv'
<1> USE OperationsAssumption DEF IInv
<1>1. PICK s \in States : /\ s \notin L!Lent /\ lease[r] = NoState
                         /\ lease' = [lease EXCEPT ![r] = s]
  BY DEF Arrive, L!Grant
<1> DEFINE Arrives(o, n) ==
        /\ op' = [op EXCEPT ![r] = o]
        /\ size' = [size EXCEPT ![r] = n]
        /\ top' = [top EXCEPT ![r] = Len(stack[lease'[r]])]
        /\ stack' = [stack EXCEPT ![lease'[r]] =
             @ \o [i \in 1 .. Len(Converted(Table(o))) |->
                    Owned(Converted(Table(o))[i], r)]]
<1>a. PICK o \in registered : \E n \in BufferSizes(o) : Arrives(o, n)
  BY Zenon DEF Arrive
<1>2. PICK n \in BufferSizes(o) : Arrives(o, n)
  BY <1>a
<1> DEFINE made == Converted(Table(o))
           tables == [i \in 1 .. Len(made) |-> Owned(made[i], r)]
<1>3. /\ pc[r] = "new" /\ pc' = [pc EXCEPT ![r] = "prepare"]
      /\ UNCHANGED <<registered, saved, frame, scope, filled, table, struct,
                     copied>>
  BY DEF Arrive, Goto
<1>4. /\ lease'[r] = s /\ \A q \in Requests : lease[q] # s
  BY <1>1 DEF Types, L!Lent, L!Holders
<1>5. stack[s] = <<Ops>>
  BY <1>4 DEF Stacks
<1>6. o \in OpNames /\ made \in Seq(Structures)
  BY PassesConverted DEF Types
<1>7. tables \in Seq(Cell) /\ Len(tables) = Len(made)
      /\ \A i \in 1 .. Len(made) : tables[i] = Owned(made[i], r)
  BY <1>6, OwnedCell
<1>8. /\ op' = [op EXCEPT ![r] = o] /\ top' = [top EXCEPT ![r] = 1]
      /\ stack' = [stack EXCEPT ![s] = <<Ops>> \o tables]
      /\ size' = [size EXCEPT ![r] = n] /\ n \in Nat /\ (o = "readlink" => n > 0)
  <2>1. n \in Nat /\ (o = "readlink" => n > 0)
    BY <1>2 DEF BufferSizes
  <2>2. QED
    BY <1>2, <1>4, <1>5, <2>1
<1> HIDE DEF made, tables
<1>9. /\ <<Ops>> \o tables \in Seq(Cell)
      /\ Len(<<Ops>> \o tables) = 1 + Len(made)
      /\ (<<Ops>> \o tables)[1] = Ops
      /\ \A i \in 1 .. Len(made) :
           (<<Ops>> \o tables)[1 + i] = Owned(made[i], r)
  <2>1. /\ <<Ops>> \o tables \in Seq(Cell)
        /\ Len(<<Ops>> \o tables) = 1 + Len(tables)
        /\ (<<Ops>> \o tables)[1] = Ops
        /\ \A i \in 1 .. Len(tables) : (<<Ops>> \o tables)[1 + i] = tables[i]
    BY <1>7, AboveOps
  <2>2. QED
    BY <1>6, <1>7, <2>1
<1>10. Types'
  BY <1>1, <1>3, <1>6, <1>8, <1>9 DEF Types, Labels
<1>11. Borrowed'
  BY <1>1, <1>3, <1>4 DEF Types, Borrowed, Working
<1>12. Stacks'
  <2>1. Layout(r)'
    BY <1>3, <1>4, <1>8, <1>9 DEF Types, Layout, made
  <2>2. ASSUME NEW q \in Requests, q # r, pc'[q] \in Working
        PROVE  Layout(q)'
    BY <2>2, <1>1, <1>3, <1>4, <1>8 DEF Types, Layout, Stacks, Borrowed
  <2>3. ASSUME NEW t \in States, \A q \in Requests : lease'[q] # t
        PROVE  stack'[t] = <<Ops>>
    BY <2>3, <1>1, <1>4, <1>8 DEF Types, Stacks
  <2>4. QED
    BY <2>1, <2>2, <2>3 DEF Stacks
<1>13. Frames'
  <2>1. ASSUME NEW q \in Requests, pc'[q] = "callback"
        PROVE  pc[q] = "callback" /\ frame'[q] = frame[q] /\ op'[q] = op[q]
    BY <2>1, <1>3, <1>8 DEF Types
  <2>2. QED
    BY <2>1, SamePasses DEF Frames
<1>14. Fills'
  BY <1>1, <1>3 DEF Types, Fills, Working
<1>15. Copies' /\ WrittenBack'
  BY <1>3, <1>8 DEF Types, Copies, WrittenBack, Passed
<1>16. QED
  BY <1>10, <1>11, <1>12, <1>13, <1>14, <1>15
-----------------------------------------------------------------------------
(***************************************************************************)
(* What a step inside a handler cannot disturb: it moves one request from  *)
(* a label to another and changes the stack of its own state only.         *)
(***************************************************************************)
LEMMA BorrowedKept ==
  ASSUME IInv, NEW r \in Requests, pc[r] \in Working, NEW p \in Working,
         pc' = [pc EXCEPT ![r] = p], lease' = lease
  PROVE  Borrowed'
BY DEF IInv, Types, Borrowed

LEMMA StacksKept ==
  ASSUME IInv, NEW r \in Requests, pc[r] \in Working, NEW p \in Working,
         pc' = [pc EXCEPT ![r] = p], NEW c,
         stack' = [stack EXCEPT ![lease[r]] = c],
         UNCHANGED <<lease, op, top>>, Layout(r)'
  PROVE  Stacks'
<1> USE DEF IInv, Types, Borrowed, Stacks
<1>1. lease[r] \in States
  BY DEF Working
<1>2. ASSUME NEW q \in Requests, q # r, pc'[q] \in Working
      PROVE  Layout(q)'
  <2>1. pc'[q] = pc[q] /\ pc[q] \in Working
    BY <1>2
  <2>2. stack'[lease'[q]] = stack[lease[q]]
    BY <1>1, <1>2, <2>1
  <2>3. QED
    BY <2>1, <2>2 DEF Layout
<1>3. ASSUME NEW s \in States, \A q \in Requests : lease'[q] # s
      PROVE  stack'[s] = <<Ops>>
  BY <1>3
<1>4. QED
  BY <1>2, <1>3

LEMMA FramesKept ==
  ASSUME IInv, op' = op,
         \A q \in Requests : pc'[q] = "callback" =>
           pc[q] = "callback" /\ frame'[q] = frame[q]
  PROVE  Frames'
BY SamePasses DEF IInv, Frames

LEMMA FillsKept ==
  ASSUME IInv, NEW r \in Requests, pc[r] \in Working,
         NEW p \in Working \ {"prepare"}, pc' = [pc EXCEPT ![r] = p],
         \A q \in Requests : scope'[q] = "open" /\ q # r => scope[q] = "open",
         scope'[r] = "open" => p \in {"callback", "scope"},
         UNCHANGED <<lease, saved>>
  PROVE  Fills'
BY DEF IInv, Types, Fills, Working

LEMMA WrittenBackKept ==
  ASSUME IInv, NEW r \in Requests, NEW p \in Labels,
         pc' = [pc EXCEPT ![r] = p],
         p \in {"restore", "close", "done"} =>
           pc[r] \in {"restore", "close"},
         UNCHANGED <<op, table, struct>>
  PROVE  WrittenBack'
BY DEF IInv, Types, WrittenBack, Passed

LEMMA CopiesKept ==
  ASSUME IInv, NEW r \in Requests, pc[r] \in Working,
         NEW p \in Labels \ {"new"}, pc' = [pc EXCEPT ![r] = p],
         UNCHANGED <<op, size, copied>>
  PROVE  Copies'
BY DEF IInv, Types, Copies, Working
-----------------------------------------------------------------------------
(***************************************************************************)
(* The steps of a handler, one lemma each.                                 *)
(***************************************************************************)
LEMMA FrameCells ==
  ASSUME NEW o \in OpNames, NEW r \in Requests
  PROVE  LET items == [i \in 1 .. Len(Table(o).args) |->
                         Item(Table(o).args[i], r)]
         IN items \in Seq(Cell) /\ Table(o).nargs = Len(items) + 1
<1> DEFINE t == Table(o)
           items == [i \in 1 .. Len(t.args) |-> Item(t.args[i], r)]
<1>1. t.args \in Seq(ArgNames) /\ t.nargs = Len(t.args) + 1
  BY Entries, Zenon DEF Entry, Counts
<1> HIDE DEF t
<1>2. ASSUME NEW i \in 1 .. Len(t.args)
      PROVE  Item(t.args[i], r) \in Cell
  <2>1. t.args[i] \in ArgNames
    BY <1>1
  <2>2. QED
    BY <2>1, CellItem, Zenon
<1>3. items \in Seq(Cell) /\ Len(items) = Len(t.args)
  BY <1>1, <1>2
<1>4. QED
  BY <1>1, <1>3 DEF t

LEMMA CutCall ==
  ASSUME NEW S, NEW a \in Seq(S), NEW x \in S, NEW y \in S, NEW b \in Seq(S)
  PROVE  /\ Len((a \o <<x, y>>) \o b) = Len(a) + 2 + Len(b)
         /\ SubSeq((a \o <<x, y>>) \o b, 1, Len(a)) = a
         /\ SubSeq((a \o <<x, y>>) \o b, Len(a) + 1, Len(a) + 2 + Len(b))
              = <<x, y>> \o b
         /\ <<x, y>> \o b \in Seq(S)
<1>1. /\ <<x, y>> \in Seq(S) /\ Len(<<x, y>>) = 2
      /\ <<x, y>> \o b \in Seq(S) /\ Len(<<x, y>> \o b) = 2 + Len(b)
  OBVIOUS
<1>2. (a \o <<x, y>>) \o b = a \o (<<x, y>> \o b)
  OBVIOUS
<1>3. Len(a \o (<<x, y>> \o b)) = Len(a) + 2 + Len(b)
  BY <1>1
<1> DEFINE d == <<x, y>> \o b
<1> HIDE DEF d
<1>4. SubSeq(a \o d, 1, Len(a)) = a
      /\ SubSeq(a \o d, Len(a) + 1, Len(a) + Len(d)) = d
  BY <1>1, Cut DEF d
<1>5. QED
  BY <1>1, <1>2, <1>3, <1>4 DEF d

LEMMA InvokeStep ==
  ASSUME IInv, NEW r \in Requests, Invoke(r)
  PROVE  IInv'
<1> DEFINE s == lease[r]
           o == Table(op[r])
           c == stack[s]
           items == [i \in 1 .. Len(o.args) |-> Item(o.args[i], r)]
           pushed == c \o <<Function(o.fn), c[top[r]]>> \o items
           below == Len(pushed) - o.nargs - 1
<1>1. /\ pc[r] = "prepare" /\ pc' = [pc EXCEPT ![r] = "callback"]
      /\ frame' = [frame EXCEPT ![r] =
           SubSeq(pushed, below + 1, Len(pushed))]
      /\ stack' = [stack EXCEPT ![s] = SubSeq(pushed, 1, below)]
      /\ scope' = IF op[r] = "readdir" THEN [scope EXCEPT ![r] = "open"]
                  ELSE scope
      /\ UNCHANGED <<registered, lease, saved, op, size, top, filled, table,
                     struct, copied>>
  BY Zenon DEF Invoke, Goto
<1>2. s \in States /\ c \in Seq(Cell) /\ op[r] \in OpNames
  BY <1>1 DEF IInv, Types, Borrowed, Working
<1>3. Layout(r) /\ top[r] = 1 /\ c[1] = Ops
  BY <1>1 DEF IInv, Stacks, Layout, Working
<1>4. /\ o.nargs = Len(items) + 1 /\ items \in Seq(Cell)
      /\ Function(o.fn) \in Cell /\ Ops \in Cell
  BY <1>2, FrameCells, CellFunction, CellOps, Zenon
<1>5. pushed = c \o <<Function(o.fn), Ops>> \o items
      /\ Passes(r) = <<Function(o.fn), Ops>> \o items
  BY <1>3 DEF Passes
<1> HIDE DEF items, o, s, c
<1>6. /\ Len(pushed) = Len(c) + 2 + Len(items)
      /\ SubSeq(pushed, 1, Len(c)) = c
      /\ SubSeq(pushed, Len(c) + 1, Len(c) + 2 + Len(items)) = Passes(r)
      /\ Passes(r) \in Seq(Cell)
  <2> DEFINE f == Function(o.fn)
  <2>1. f \in Cell /\ pushed = (c \o <<f, Ops>>) \o items
        /\ Passes(r) = <<f, Ops>> \o items
    BY <1>4, <1>5
  <2> HIDE DEF f, pushed
  <2> DEFINE whole == (c \o <<f, Ops>>) \o items
             part == <<f, Ops>> \o items
  <2>2. /\ Len(whole) = Len(c) + 2 + Len(items)
        /\ SubSeq(whole, 1, Len(c)) = c
        /\ SubSeq(whole, Len(c) + 1, Len(c) + 2 + Len(items)) = part
        /\ part \in Seq(Cell)
    BY <1>2, <1>4, <2>1, CutCall, Zenon
  <2>3. QED
    BY <2>1, <2>2, Zenon
<1> HIDE DEF pushed
<1>7. below = Len(c) /\ below + 1 = Len(c) + 1
  BY <1>2, <1>4, <1>6
<1> HIDE DEF below
<1>8. /\ frame' = [frame EXCEPT ![r] = Passes(r)]
      /\ stack' = [stack EXCEPT ![s] = c]
  BY <1>1, <1>6, <1>7
<1>9. Types'
  <2>1. frame' \in [Requests -> Seq(Cell)] /\ stack' \in [States -> Seq(Cell)]
    BY <1>2, <1>6, <1>8 DEF IInv, Types
  <2>2. /\ pc' \in [Requests -> Labels]
        /\ scope' \in [Requests -> {"none", "open", "reset"}]
    BY <1>1 DEF IInv, Types, Labels
  <2>3. QED
    BY <1>1, <2>1, <2>2 DEF IInv, Types
<1>10. Borrowed'
  BY <1>1, BorrowedKept DEF Working
<1>11. Layout(r)'
  <2>1. stack'[lease'[r]] = stack[lease[r]] /\ pc'[r] = "callback"
    BY <1>1, <1>2, <1>8 DEF s, c, IInv, Types
  <2>2. QED
    BY <1>1, <1>3, <2>1 DEF Layout
<1>12. Stacks'
  BY <1>1, <1>8, <1>11, StacksKept DEF Working, s
<1>13. Frames'
  <2>1. ASSUME NEW q \in Requests, pc'[q] = "callback"
        PROVE  frame'[q] = Passes(q)
    BY <2>1, <1>1, <1>8 DEF IInv, Types, Frames
  <2>2. QED
    BY <1>1, <2>1, SamePasses DEF Frames
<1>14. Fills'
  BY <1>1, FillsKept DEF Working, IInv, Types
<1>15. Copies' /\ WrittenBack'
  BY <1>1, CopiesKept, WrittenBackKept DEF Working, Labels
<1>16. QED
  BY <1>9, <1>10, <1>12, <1>13, <1>14, <1>15 DEF IInv

\* What lua_pcall or NotDefined pushes stays above what the handler made.
LEMMA LayoutAppend ==
  ASSUME IInv, NEW r \in Requests, pc[r] \in {"prepare", "callback"},
         NEW x \in Seq(Cell), Len(x) \in 0 .. 1,
         NEW p \in {"scope", "write_back"}, pc' = [pc EXCEPT ![r] = p],
         NEW d, d = stack[lease[r]] \o x,
         stack' = [stack EXCEPT ![lease[r]] = d],
         UNCHANGED <<lease, op, top>>
  PROVE  /\ stack' \in [States -> Seq(Cell)]
         /\ Stacks'
<1> DEFINE c == stack[lease[r]]
<1>1. /\ lease[r] \in States /\ c \in Seq(Cell) /\ r \in DOMAIN pc
      /\ stack \in [States -> Seq(Cell)]
  BY DEF IInv, Types, Borrowed, Working
<1>2. Layout(r)
  BY DEF IInv, Stacks, Working
<1>3. stack'[lease[r]] = c \o x
  BY <1>1
<1> HIDE DEF c
<1>4. /\ c \o x \in Seq(Cell) /\ Len(c \o x) = Len(c) + Len(x)
      /\ \A i \in 1 .. Len(c) : (c \o x)[i] = c[i]
  BY <1>1
<1>5. pc'[r] = p
  BY <1>1
<1>6. Converted(Table(op[r])) \in Seq(Structures)
  BY PassesConverted DEF IInv, Types
<1>7. Layout(r)'
  BY <1>1, <1>2, <1>3, <1>4, <1>5, <1>6 DEF Layout, c
<1>8. Stacks'
  BY <1>7, StacksKept DEF Working
<1>9. QED
  BY <1>1, <1>4, <1>8 DEF c

\* A step that touches none of these, and one callback.
LEMMA Stays ==
  ASSUME IInv, UNCHANGED <<lease, stack, pc, op, top, frame, scope>>
  PROVE  Borrowed' /\ Stacks' /\ Frames'
<1>1. Borrowed'
  BY DEF IInv, Borrowed
<1>2. \A r \in Requests : Layout(r)' = Layout(r)
  BY Zenon DEF Layout
<1>3. Stacks'
  BY <1>2 DEF IInv, Stacks
<1>4. Frames'
  BY FramesKept
<1>5. QED
  BY <1>1, <1>3, <1>4

LEMMA NotDefinedStep ==
  ASSUME IInv, NEW r \in Requests, NotDefined(r)
  PROVE  IInv'
<1> DEFINE d == Append(stack[lease[r]], Nil)
           x == <<Nil>>
<1>1. /\ pc[r] = "prepare" /\ pc' = [pc EXCEPT ![r] = "write_back"]
      /\ stack' = [stack EXCEPT ![lease[r]] = d]
      /\ UNCHANGED <<registered, lease, saved, op, size, top, frame, scope,
                     filled, table, struct, copied>>
  BY DEF NotDefined, Goto
<1>2. d = stack[lease[r]] \o x
  <2>1. stack[lease[r]] \in Seq(Cell)
    BY <1>1 DEF IInv, Types, Borrowed, Working
  <2>2. QED
    BY <2>1, CellOps, AppendIsConcat, Zenon
<1>3. x \in Seq(Cell) /\ Len(x) \in 0 .. 1
  BY CellOps, Single, Zenon
<1> HIDE DEF d, x
<1>4. stack' \in [States -> Seq(Cell)] /\ Stacks'
  BY <1>1, <1>2, <1>3, LayoutAppend
<1>5. Types'
  BY <1>1, <1>4 DEF IInv, Types, Labels
<1>6. Borrowed'
  BY <1>1, BorrowedKept DEF Working
<1>7. Frames'
  BY <1>1, FramesKept DEF IInv, Types
<1>8. Fills'
  <2>1. scope[r] # "open"
    BY <1>1 DEF IInv, Fills
  <2>2. QED
    BY <1>1, <2>1, FillsKept DEF Working
<1>9. Copies' /\ WrittenBack'
  BY <1>1, CopiesKept, WrittenBackKept DEF Working, Labels
<1>10. QED
  BY <1>4, <1>5, <1>6, <1>7, <1>8, <1>9 DEF IInv

\* Everything the invariant speaks about stays, but one of its parts.
LEMMA FillStep ==
  ASSUME IInv, NEW r \in Requests, Fill(r)
  PROVE  IInv'
<1>1. /\ pc' = [pc EXCEPT ![r] = "callback"] /\ pc[r] = "callback"
      /\ \E h \in Handles(r) : filled' = [filled EXCEPT ![h] = @ + 1]
      /\ UNCHANGED <<registered, lease, stack, saved, op, size, top, frame,
                     scope, table, struct, copied>>
  BY DEF Fill, Goto
<1>2. pc' = pc
  BY <1>1 DEF IInv, Types
<1>3. \A h \in Handles(r) : h \in Requests
  BY <1>1 DEF Handles, IInv, Types, Borrowed, Working
<1>4. Types'
  BY <1>1, <1>2, <1>3 DEF IInv, Types
<1>5. Borrowed' /\ Stacks' /\ Frames'
  BY <1>1, <1>2, Stays
<1>6. Fills' /\ Copies' /\ WrittenBack'
  BY <1>1, <1>2 DEF IInv, Fills, Copies, WrittenBack, Passed
<1>7. QED
  BY <1>4, <1>5, <1>6 DEF IInv

LEMMA KeepStep ==
  ASSUME IInv, NEW r \in Requests, Keep(r)
  PROVE  IInv'
<1>1. /\ pc' = [pc EXCEPT ![r] = "callback"] /\ pc[r] = "callback"
      /\ saved' = [saved EXCEPT ![lease[r]] = @ \union {r}]
      /\ UNCHANGED <<registered, lease, stack, op, size, top, frame, scope,
                     filled, table, struct, copied>>
  BY DEF Keep, Goto
<1>2. pc' = pc /\ lease[r] \in States
  BY <1>1 DEF IInv, Types, Borrowed, Working
<1>3. Types'
  BY <1>1, <1>2 DEF IInv, Types
<1>4. Fills'
  BY <1>1, <1>2 DEF IInv, Types, Fills, Working
<1>5. Borrowed' /\ Stacks' /\ Frames'
  BY <1>1, <1>2, Stays
<1>6. Copies' /\ WrittenBack'
  BY <1>1, <1>2 DEF IInv, Copies, WrittenBack, Passed
<1>7. QED
  BY <1>3, <1>4, <1>5, <1>6 DEF IInv

LEMMA AssignStep ==
  ASSUME IInv, NEW r \in Requests, Assign(r)
  PROVE  IInv'
<1>1. /\ pc' = [pc EXCEPT ![r] = "callback"] /\ pc[r] = "callback"
      /\ \E k \in Structures, c \in {"script", "bad"} :
           table' = [table EXCEPT ![r][k] = c]
      /\ UNCHANGED <<registered, lease, stack, saved, op, size, top, frame,
                     scope, filled, struct, copied>>
  BY DEF Assign, Goto
<1>2. pc' = pc
  BY <1>1 DEF IInv, Types
<1>3. /\ table' \in [Requests -> [Structures -> Contents]]
      /\ \A q \in Requests \ {r} : table'[q] = table[q]
  BY <1>1 DEF IInv, Types, Contents
<1>4. Types'
  BY <1>1, <1>2, <1>3 DEF IInv, Types
<1>5. WrittenBack'
  BY <1>1, <1>2, <1>3 DEF IInv, WrittenBack, Passed
<1>6. Borrowed' /\ Stacks' /\ Frames'
  BY <1>1, <1>2, Stays
<1>7. Fills' /\ Copies'
  BY <1>1, <1>2 DEF IInv, Fills, Copies
<1>8. QED
  BY <1>4, <1>5, <1>6, <1>7 DEF IInv

\* At most the buffer is written, and readlink leaves room for the zero.
LEMMA CopyBound ==
  ASSUME NEW o \in OpNames, NEW v \in Value, NEW n \in Nat
  PROVE  /\ CopiedFrom(Table(o), v, n) \in Int
         /\ CopiedFrom(Table(o), v, n) <= n
         /\ o = "readlink" /\ n > 0 => CopiedFrom(Table(o), v, n) < n
<1>1. CASE ~IsString(v)
  BY <1>1 DEF CopiedFrom
<1>2. CASE IsString(v)
  <2>1. v.n \in Int /\ v.type # "integer"
    BY <1>2 DEF Value, IsString
  <2> DEFINE kind == Table(o).reply
  <2>2. o = "readlink" => kind = "link"
    BY ReadlinkReply
  <2> HIDE DEF kind
  <2>3. CopiedFrom(Table(o), v, n) =
          CASE kind = "link" -> Smaller(n - 1, v.n)
            [] kind = "data" -> Smaller(n, v.n)
            [] kind = "xattr" /\ v.n <= n -> v.n
            [] OTHER -> 0
    BY <1>2, <2>1 DEF CopiedFrom, kind
  <2>4. QED
    BY <2>1, <2>2, <2>3 DEF Smaller
<1>3. QED
  BY <1>1, <1>2

LEMMA PushedResult ==
  ASSUME NEW o \in OpNames
  PROVE  PushResult(Table(o)) \in Seq(Cell) /\ Len(PushResult(Table(o))) \in 0 .. 1
<1>1. /\ <<<<"result", "">>>> \in Seq(Cell)
      /\ Len(<<<<"result", "">>>>) \in 0 .. 1
  BY CellOps, Single, Zenon
<1>2. <<>> \in Seq(Cell) /\ Len(<<>>) \in 0 .. 1
  OBVIOUS
<1>3. CASE Table(o).reply = "none"
  <2>1. PushResult(Table(o)) = <<>>
    BY <1>3 DEF PushResult
  <2>2. QED
    BY <1>2, <2>1, Zenon
<1>4. CASE Table(o).reply # "none"
  <2>1. PushResult(Table(o)) = <<<<"result", "">>>>
    BY <1>4 DEF PushResult
  <2>2. QED
    BY <1>1, <2>1, Zenon
<1>5. QED
  BY <1>3, <1>4

LEMMA AnswerStep ==
  ASSUME IInv, NEW r \in Requests, Answer(r)
  PROVE  IInv'
<1> DEFINE p == AfterCall(r)
<1>1. /\ pc[r] = "callback" /\ pc' = [pc EXCEPT ![r] = p]
      /\ stack' = [stack EXCEPT ![lease[r]] = @ \o PushResult(Table(op[r]))]
      /\ frame' = [frame EXCEPT ![r] = <<>>]
      /\ UNCHANGED <<registered, lease, saved, op, size, top, scope, filled,
                     table, struct>>
  BY DEF Answer, Goto
<1>2. PICK v \in Results :
        copied' = [copied EXCEPT ![r] = CopiedFrom(Table(op[r]), v, size[r])]
  BY DEF Answer
<1>3. p \in {"scope", "write_back"} /\ (p = "write_back" => scope[r] # "open")
  BY DEF AfterCall
<1> HIDE DEF p
<1>4. op[r] \in OpNames /\ size[r] \in Nat /\ v \in Value
  <2>1. v \in Value
    BY Zenon, OperationsAssumption
  <2>2. op[r] \in OpNames /\ size[r] \in Nat
    BY DEF IInv, Types
  <2>3. QED
    BY <2>1, <2>2
<1> DEFINE x == PushResult(Table(op[r]))
           d == stack[lease[r]] \o x
<1>13. x \in Seq(Cell) /\ Len(x) \in 0 .. 1 /\ d = stack[lease[r]] \o x
       /\ stack' = [stack EXCEPT ![lease[r]] = d]
  BY <1>1, <1>4, PushedResult, Zenon
<1> HIDE DEF x, d
<1>5. stack' \in [States -> Seq(Cell)] /\ Stacks'
  BY <1>1, <1>3, <1>13, LayoutAppend
<1>6. Types'
  <2>1. copied' \in [Requests -> Int]
    BY <1>2, <1>4, CopyBound DEF IInv, Types
  <2>2. frame' \in [Requests -> Seq(Cell)]
    BY <1>1 DEF IInv, Types
  <2>3. QED
    BY <1>1, <1>3, <1>5, <2>1, <2>2 DEF IInv, Types, Labels
<1>7. Borrowed'
  BY <1>1, <1>3, BorrowedKept DEF Working
<1>8. Frames'
  BY <1>1, <1>3, FramesKept DEF IInv, Types
<1>9. Fills'
  BY <1>1, <1>3, FillsKept DEF Working
<1>10. Copies'
  BY <1>1, <1>2, <1>3, <1>4, CopyBound DEF IInv, Types, Copies
<1>11. WrittenBack'
  BY <1>1, <1>3, WrittenBackKept DEF Labels
<1>12. QED
  BY <1>5, <1>6, <1>7, <1>8, <1>9, <1>10, <1>11 DEF IInv

LEMMA RaiseStep ==
  ASSUME IInv, NEW r \in Requests, Raise(r)
  PROVE  IInv'
<1> DEFINE p == AfterCall(r)
           cell == <<"error", "">>
           x == <<cell>>
           d == Append(stack[lease[r]], cell)
<1>1. /\ pc[r] = "callback" /\ pc' = [pc EXCEPT ![r] = p]
      /\ stack' = [stack EXCEPT ![lease[r]] = d]
      /\ frame' = [frame EXCEPT ![r] = <<>>]
      /\ UNCHANGED <<registered, lease, saved, op, size, top, scope, filled,
                     table, struct, copied>>
  BY DEF Raise, Goto
<1>2. p \in {"scope", "write_back"} /\ (p = "write_back" => scope[r] # "open")
  BY DEF AfterCall
<1>3. x \in Seq(Cell) /\ Len(x) \in 0 .. 1
  BY CellOps, Single, Zenon
<1>4. d = stack[lease[r]] \o x
  <2>1. stack[lease[r]] \in Seq(Cell)
    BY <1>1 DEF IInv, Types, Borrowed, Working
  <2>2. QED
    BY <2>1, CellOps, AppendIsConcat, Zenon
<1> HIDE DEF p, cell, d, x
<1>5. stack' \in [States -> Seq(Cell)] /\ Stacks'
  BY <1>1, <1>2, <1>3, <1>4, LayoutAppend
<1>6. Types'
  <2>1. frame' \in [Requests -> Seq(Cell)]
    BY <1>1 DEF IInv, Types
  <2>2. QED
    BY <1>1, <1>2, <1>5, <2>1 DEF IInv, Types, Labels
<1>7. Borrowed'
  BY <1>1, <1>2, BorrowedKept DEF Working
<1>8. Frames'
  BY <1>1, <1>2, FramesKept DEF IInv, Types
<1>9. Fills'
  BY <1>1, <1>2, FillsKept DEF Working
<1>10. Copies' /\ WrittenBack'
  BY <1>1, <1>2, CopiesKept, WrittenBackKept DEF Working, Labels
<1>11. QED
  BY <1>5, <1>6, <1>7, <1>8, <1>9, <1>10 DEF IInv

LEMMA AbortStep ==
  ASSUME IInv, NEW r \in Requests, NEW from, Abort(r, from)
  PROVE  IInv'
<1>1. UNCHANGED <<registered, lease, stack, saved, pc, op, size, top, frame,
                  scope, filled, table, struct, copied>>
  BY DEF Abort
<1>2. Types'
  BY <1>1 DEF IInv, Types
<1>3. Borrowed' /\ Stacks' /\ Frames'
  BY <1>1, Stays
<1>4. Fills' /\ Copies' /\ WrittenBack'
  BY <1>1 DEF IInv, Fills, Copies, WrittenBack, Passed
<1>5. QED
  BY <1>2, <1>3, <1>4 DEF IInv

LEMMA ResetScopeStep ==
  ASSUME IInv, NEW r \in Requests, ResetScope(r)
  PROVE  IInv'
<1>1. /\ pc[r] = "scope" /\ pc' = [pc EXCEPT ![r] = "write_back"]
      /\ scope' = [scope EXCEPT ![r] = "reset"]
      /\ UNCHANGED <<registered, lease, stack, saved, op, size, top, frame,
                     filled, table, struct, copied>>
  BY DEF ResetScope, Goto
<1>2. Types'
  BY <1>1 DEF IInv, Types, Labels
<1>3. Borrowed'
  BY <1>1, BorrowedKept DEF Working
<1>4. Stacks'
  <2>1. Layout(r) /\ pc'[r] = "write_back"
    BY <1>1 DEF IInv, Types, Stacks, Working
  <2>2. ASSUME NEW q \in Requests, q # r, pc'[q] \in Working
        PROVE  Layout(q)'
    <3>1. pc'[q] = pc[q] /\ Layout(q)
      BY <1>1, <2>2 DEF IInv, Types, Stacks
    <3>2. QED
      BY <1>1, <3>1, Zenon DEF Layout
  <2>3. Layout(r)'
    BY <1>1, <2>1 DEF Layout
  <2>4. QED
    BY <1>1, <2>2, <2>3 DEF IInv, Stacks
<1>5. Frames'
  BY <1>1, FramesKept DEF IInv, Types
<1>6. Fills'
  BY <1>1, FillsKept DEF Working, IInv, Types
<1>7. Copies' /\ WrittenBack'
  BY <1>1, CopiesKept, WrittenBackKept DEF Working, Labels
<1>8. QED
  BY <1>2, <1>3, <1>4, <1>5, <1>6, <1>7 DEF IInv

\* The destructors find every table the handler made.
LEMMA FoundAll ==
  ASSUME IInv, NEW r \in Requests, pc[r] = "write_back"
  PROVE  Passed(r) \subseteq Found(r)
<1> DEFINE made == Converted(Table(op[r]))
<1>1. ASSUME NEW k \in Structures, Has(Table(op[r]), k)
      PROVE  k \in Found(r)
  <2>1. PICK i \in 1 .. Len(made) : made[i] = k
    BY <1>1, PassesConverted DEF IInv, Types
  <2>2. /\ top[r] = 1 /\ Len(stack[lease[r]]) >= 1 + Len(made)
        /\ stack[lease[r]][1 + i] = Owned(made[i], r)
    BY DEF IInv, Stacks, Layout, Working
  <2>3. made \in Seq(Structures)
    BY PassesConverted DEF IInv, Types
  <2>4. lease[r] \in States /\ stack[lease[r]] \in Seq(Cell)
    BY DEF IInv, Types, Borrowed, Working
  <2>5. 1 + i <= Len(stack[lease[r]])
    BY <2>2, <2>3, <2>4
  <2>6. AtIndex(r, top[r] + i) = Owned(k, r)
    BY <2>1, <2>2, <2>5 DEF AtIndex
  <2>7. QED
    BY <2>1, <2>6 DEF Found
<1>2. QED
  BY <1>1 DEF Passed

LEMMA WriteBackStep ==
  ASSUME IInv, NEW r \in Requests, WriteBack(r)
  PROVE  IInv'
<1>1. /\ pc[r] = "write_back" /\ pc' = [pc EXCEPT ![r] = "restore"]
      /\ \A k \in Found(r) : table[r][k] # "bad"
      /\ struct' = [struct EXCEPT ![r] =
           [k \in Structures |-> IF k \in Found(r) THEN table[r][k]
                                 ELSE struct[r][k]]]
      /\ UNCHANGED <<registered, lease, stack, saved, op, size, top, frame,
                     scope, filled, table, copied>>
  BY DEF WriteBack, Goto
<1>2. \A k \in Structures : table[r][k] \in Contents /\ struct[r][k] \in Contents
  BY DEF IInv, Types
<1>3. Types'
  BY <1>1, <1>2 DEF IInv, Types, Labels
<1>4. Borrowed'
  BY <1>1, BorrowedKept DEF Working
<1>5. Stacks'
  <2>1. Layout(r) /\ pc'[r] = "restore"
    BY <1>1 DEF IInv, Types, Stacks, Working
  <2>2. ASSUME NEW q \in Requests, q # r, pc'[q] \in Working
        PROVE  Layout(q)'
    <3>1. pc'[q] = pc[q] /\ Layout(q)
      BY <1>1, <2>2 DEF IInv, Types, Stacks
    <3>2. QED
      BY <1>1, <3>1, Zenon DEF Layout
  <2>3. Layout(r)'
    BY <1>1, <2>1 DEF Layout
  <2>4. QED
    BY <1>1, <2>2, <2>3 DEF IInv, Stacks
<1>6. Frames'
  BY <1>1, FramesKept DEF IInv, Types
<1>7. Fills'
  <2>1. scope[r] # "open"
    BY <1>1 DEF IInv, Fills
  <2>2. QED
    BY <1>1, <2>1, FillsKept DEF Working
<1>8. Copies'
  BY <1>1, CopiesKept DEF Working, Labels
<1>9. WrittenBack'
  <2>1. ASSUME NEW q \in Requests, pc'[q] \in {"restore", "close", "done"},
               NEW k \in Passed(q)'
        PROVE  struct'[q][k] = table'[q][k] /\ struct'[q][k] # "bad"
    <3>1. k \in Passed(q) /\ k \in Structures
      BY <1>1, <2>1 DEF Passed
    <3>2. CASE q = r
      <4>1. k \in Found(r)
        BY <1>1, <3>1, <3>2, FoundAll
      <4>2. QED
        BY <1>1, <3>1, <3>2, <4>1 DEF IInv, Types
    <3>3. CASE q # r
      BY <1>1, <2>1, <3>1, <3>3 DEF IInv, Types, WrittenBack
    <3>4. QED
      BY <3>2, <3>3
  <2>2. QED
    BY <2>1 DEF WrittenBack
<1>10. QED
  BY <1>3, <1>4, <1>5, <1>6, <1>7, <1>8, <1>9 DEF IInv

LEMMA RestoreTopStep ==
  ASSUME IInv, NEW r \in Requests, RestoreTop(r)
  PROVE  IInv'
<1> DEFINE c == stack[lease[r]]
           d == SubSeq(c, 1, top[r])
<1>1. /\ pc[r] = "restore" /\ pc' = [pc EXCEPT ![r] = "close"]
      /\ stack' = [stack EXCEPT ![lease[r]] = d]
      /\ UNCHANGED <<registered, lease, saved, op, size, top, frame, scope,
                     filled, table, struct, copied>>
  BY DEF RestoreTop, Goto
<1>2. /\ lease[r] \in States /\ c \in Seq(Cell)
      /\ top[r] = 1 /\ Len(c) >= 1 /\ c[1] = Ops
  BY <1>1 DEF IInv, Types, Borrowed, Working, Stacks, Layout
<1>3. d \in Seq(Cell) /\ Len(d) = 1 /\ d[1] = Ops
  BY <1>2
<1> HIDE DEF c, d
<1>4. Types'
  BY <1>1, <1>3 DEF IInv, Types, Labels
<1>5. Borrowed'
  BY <1>1, BorrowedKept DEF Working
<1>6. Stacks'
  <2>1. stack'[lease'[r]] = d /\ pc'[r] = "close" /\ top'[r] = 1
    BY <1>1, <1>2 DEF IInv, Types
  <2>2. Layout(r)'
    BY <1>3, <2>1 DEF Layout
  <2>3. QED
    BY <1>1, <2>2, StacksKept DEF Working
<1>7. Frames'
  BY <1>1, FramesKept DEF IInv, Types
<1>8. Fills'
  <2>1. scope[r] # "open"
    BY <1>1 DEF IInv, Fills
  <2>2. QED
    BY <1>1, <2>1, FillsKept DEF Working
<1>9. Copies' /\ WrittenBack'
  BY <1>1, CopiesKept, WrittenBackKept DEF Working, Labels
<1>10. QED
  BY <1>4, <1>5, <1>6, <1>7, <1>8, <1>9 DEF IInv

LEMMA OneCell ==
  ASSUME NEW S, NEW c \in Seq(S), Len(c) = 1
  PROVE  c = <<c[1]>>
OBVIOUS

LEMMA CloseStateStep ==
  ASSUME IInv, NEW r \in Requests, CloseState(r)
  PROVE  IInv'
<1> USE OperationsAssumption
<1>1. /\ pc[r] = "close" /\ pc' = [pc EXCEPT ![r] = "done"]
      /\ lease' = [lease EXCEPT ![r] = NoState]
      /\ UNCHANGED <<registered, stack, saved, op, size, top, frame, scope,
                     filled, table, struct, copied>>
  BY DEF CloseState, Goto, L!Return
<1>2. Types'
  BY <1>1 DEF IInv, Types, Labels
<1>3. Borrowed'
  BY <1>1 DEF IInv, Types, Borrowed, Working
<1>4. stack[lease[r]] = <<Ops>>
  <2>1. lease[r] \in States
    BY <1>1 DEF IInv, Types, Borrowed, Working
  <2>2. /\ stack[lease[r]] \in Seq(Cell) /\ Len(stack[lease[r]]) = 1
        /\ stack[lease[r]][1] = Ops
    BY <1>1, <2>1 DEF IInv, Types, Stacks, Layout, Working
  <2>3. QED
    BY <2>2, OneCell
<1>5. Stacks'
  <2>1. ASSUME NEW q \in Requests, pc'[q] \in Working
        PROVE  Layout(q)'
    <3>1. q # r /\ pc'[q] = pc[q] /\ lease'[q] = lease[q] /\ Layout(q)
      BY <1>1, <2>1 DEF IInv, Types, Stacks, Working
    <3>2. QED
      BY <1>1, <3>1, Zenon DEF Layout
  <2>2. ASSUME NEW s \in States, \A q \in Requests : lease'[q] # s
        PROVE  stack'[s] = <<Ops>>
    BY <1>1, <1>4, <2>2 DEF IInv, Types, Stacks
  <2>3. QED
    BY <2>1, <2>2 DEF Stacks
<1>6. Frames'
  BY <1>1, FramesKept DEF IInv, Types
<1>7. Fills'
  BY <1>1 DEF IInv, Types, Fills, Working
<1>8. Copies' /\ WrittenBack'
  BY <1>1, CopiesKept, WrittenBackKept DEF Working, Labels
<1>9. QED
  BY <1>2, <1>3, <1>5, <1>6, <1>7, <1>8 DEF IInv

LEMMA StutterStep ==
  ASSUME IInv, UNCHANGED vars
  PROVE  IInv'
<1>1. Types'
  BY DEF vars, IInv, Types
<1>2. Borrowed' /\ Stacks' /\ Frames'
  BY Stays DEF vars
<1>3. Fills' /\ Copies' /\ WrittenBack'
  BY DEF vars, IInv, Fills, Copies, WrittenBack, Passed
<1>4. QED
  BY <1>1, <1>2, <1>3 DEF IInv

LEMMA StepIInv == IInv /\ [Next]_vars => IInv'
<1> SUFFICES ASSUME IInv, [Next]_vars PROVE IInv'
  OBVIOUS
<1>1. ASSUME NEW r \in Requests, Step(r)
      PROVE  IInv'
  BY <1>1, ArriveStep, InvokeStep, NotDefinedStep, FillStep, KeepStep,
     AssignStep, AnswerStep, RaiseStep, AbortStep, ResetScopeStep,
     WriteBackStep, RestoreTopStep, CloseStateStep, Zenon
     DEF Step, AnswerAborts, WriteBackAborts
<1>2. CASE UNCHANGED vars
  BY <1>2, StutterStep
<1>3. QED
  BY <1>1, <1>2 DEF Next, Done

LEMMA IInvAlways == Spec => []IInv
BY InitIInv, StepIInv, PTL DEF Spec
-----------------------------------------------------------------------------
(***************************************************************************)
(* The arguments: what fuse.h says a script is given for an operation is   *)
(* what the handler pushes.  FlattenSeq is unrolled, there are never more  *)
(* than six parameters.                                                    *)
(***************************************************************************)
Cat(s, t) == s \o t

Chosen(n, a1, a2, a3, a4, a5, a6) ==
  IF n = 1 THEN a1 ELSE IF n = 2 THEN a2 ELSE IF n = 3 THEN a3
  ELSE IF n = 4 THEN a4 ELSE IF n = 5 THEN a5 ELSE a6

LEMMA FlattenCat ==
  ASSUME NEW s, NEW n \in 1 .. 6, Len(s) = n,
         NEW a1, NEW a2, NEW a3, NEW a4, NEW a5, NEW a6,
         a1 = s[1],
         n >= 2 => a2 = Cat(a1, s[2]), n >= 3 => a3 = Cat(a2, s[3]),
         n >= 4 => a4 = Cat(a3, s[4]), n >= 5 => a5 = Cat(a4, s[5]),
         n >= 6 => a6 = Cat(a5, s[6])
  PROVE  Api!FlattenSeq(s) = Chosen(n, a1, a2, a3, a4, a5, a6)
<1> DEFINE a(i) == Chosen(i, a1, a2, a3, a4, a5, a6)
           G == [i \in 1 .. n |-> a(i)]
           F == CHOOSE F : F = [i \in 1 .. n |->
                                  IF i = 1 THEN s[i] ELSE F[i - 1] \o s[i]]
<1>1. /\ a(1) = s[1]
      /\ n >= 2 => a(2) = Cat(a(1), s[2])
      /\ n >= 3 => a(3) = Cat(a(2), s[3])
      /\ n >= 4 => a(4) = Cat(a(3), s[4])
      /\ n >= 5 => a(5) = Cat(a(4), s[5])
      /\ n >= 6 => a(6) = Cat(a(5), s[6])
  BY DEF Chosen
<1>2. G = [i \in 1 .. n |-> IF i = 1 THEN s[i] ELSE Cat(G[i - 1], s[i])]
  <2> HIDE DEF a
  <2>1. ASSUME NEW i \in 1 .. n
        PROVE  G[i] = IF i = 1 THEN s[i] ELSE Cat(G[i - 1], s[i])
    <3>1. i = 1 \/ i = 2 \/ i = 3 \/ i = 4 \/ i = 5 \/ i = 6
      OBVIOUS
    <3>2. i # 1 => i - 1 \in 1 .. n
      OBVIOUS
    <3>3. CASE i = 1  BY <1>1, <3>3
    <3>4. CASE i = 2  BY <1>1, <3>2, <3>4
    <3>5. CASE i = 3  BY <1>1, <3>2, <3>5
    <3>6. CASE i = 4  BY <1>1, <3>2, <3>6
    <3>7. CASE i = 5  BY <1>1, <3>2, <3>7
    <3>8. CASE i = 6  BY <1>1, <3>2, <3>8
    <3>9. QED
      BY <3>1, <3>3, <3>4, <3>5, <3>6, <3>7, <3>8
  <2>2. QED
    BY <2>1
<1>3. F = [i \in 1 .. n |-> IF i = 1 THEN s[i] ELSE F[i - 1] \o s[i]]
  <2> HIDE DEF G
  <2>1. QED
    BY <1>2, Zenon DEF Cat
<1>4. F = [i \in 1 .. n |-> IF i = 1 THEN s[i] ELSE Cat(F[i - 1], s[i])]
  BY <1>3, Zenon DEF Cat
<1>5. F[n] = a(n)
  <2> HIDE DEF F, a, G
  <2>1. \A i \in 1 .. n : F[i] = IF i = 1 THEN s[i] ELSE Cat(F[i - 1], s[i])
    BY <1>4
  <2>2. F[1] = a(1)  BY <1>1, <2>1
  <2>3. n >= 2 => F[2] = a(2)  BY <1>1, <2>1, <2>2
  <2>4. n >= 3 => F[3] = a(3)  BY <1>1, <2>1, <2>3
  <2>5. n >= 4 => F[4] = a(4)  BY <1>1, <2>1, <2>4
  <2>6. n >= 5 => F[5] = a(5)  BY <1>1, <2>1, <2>5
  <2>7. n >= 6 => F[6] = a(6)  BY <1>1, <2>1, <2>6
  <2>8. QED
    BY <2>2, <2>3, <2>4, <2>5, <2>6, <2>7
<1>6. Api!FlattenSeq(s) = F[n]
  <2>1. Len(s) # 0
    OBVIOUS
  <2>2. QED
    BY <2>1, Zenon DEF Api!FlattenSeq
<1>7. QED
  BY <1>5, <1>6

\* JoinedN: what the first N parameters in ps are for the script.
Joined1(ps, r) == Api!Given(ps[1], r)
Joined2(ps, r) == Cat(Joined1(ps, r), Api!Given(ps[2], r))
Joined3(ps, r) == Cat(Joined2(ps, r), Api!Given(ps[3], r))
Joined4(ps, r) == Cat(Joined3(ps, r), Api!Given(ps[4], r))
Joined5(ps, r) == Cat(Joined4(ps, r), Api!Given(ps[5], r))
Joined6(ps, r) == Cat(Joined5(ps, r), Api!Given(ps[6], r))

LEMMA ValuesJoined ==
  ASSUME NEW ps, NEW n \in 1 .. 6, Len(ps) = n, NEW r
  PROVE  Api!Values(ps, r) =
           Chosen(n, Joined1(ps, r), Joined2(ps, r), Joined3(ps, r),
                     Joined4(ps, r), Joined5(ps, r), Joined6(ps, r))
<1> DEFINE s == [i \in 1 .. n |-> Api!Given(ps[i], r)]
<1>1. Api!Values(ps, r) = Api!FlattenSeq(s) /\ Len(s) = n
  BY DEF Api!Values
<1>2. /\ Joined1(ps, r) = s[1]
      /\ n >= 2 => Joined2(ps, r) = Cat(Joined1(ps, r), s[2])
      /\ n >= 3 => Joined3(ps, r) = Cat(Joined2(ps, r), s[3])
      /\ n >= 4 => Joined4(ps, r) = Cat(Joined3(ps, r), s[4])
      /\ n >= 5 => Joined5(ps, r) = Cat(Joined4(ps, r), s[5])
      /\ n >= 6 => Joined6(ps, r) = Cat(Joined5(ps, r), s[6])
  BY DEF Joined1, Joined2, Joined3, Joined4, Joined5, Joined6
<1> HIDE DEF s
<1>3. Api!FlattenSeq(s) =
           Chosen(n, Joined1(ps, r), Joined2(ps, r), Joined3(ps, r),
                     Joined4(ps, r), Joined5(ps, r), Joined6(ps, r))
  BY <1>1, <1>2, FlattenCat
<1>4. QED
  BY <1>1, <1>3

\* Tuples, and what they are joined to.
None == <<>>
One(a) == <<a>>
Two(a, b) == <<a, b>>
Three(a, b, c) == <<a, b, c>>
Four(a, b, c, d) == <<a, b, c, d>>
Five(a, b, c, d, e) == <<a, b, c, d, e>>
Six(a, b, c, d, e, f) == <<a, b, c, d, e, f>>

LEMMA CatNone ==
  ASSUME NEW S, NEW s \in Seq(S)
  PROVE  Cat(s, None) = s /\ Cat(None, s) = s
BY ConcatEmptySeq DEF Cat, None

LEMMA Cats ==
  /\ Cat(None, None) = None
  /\ \A a : Cat(None, One(a)) = One(a) /\ Cat(One(a), None) = One(a)
  /\ \A a, b : Cat(Two(a, b), None) = Two(a, b)
  /\ \A a, b, c : Cat(Three(a, b, c), None) = Three(a, b, c)
  /\ \A a, b, c, d : Cat(Four(a, b, c, d), None) = Four(a, b, c, d)
  /\ \A a, b, c, d, e : Cat(Five(a, b, c, d, e), None) = Five(a, b, c, d, e)
  /\ \A a, b : Cat(One(a), One(b)) = Two(a, b)
  /\ \A a, b, c : Cat(One(a), Two(b, c)) = Three(a, b, c)
  /\ \A a, b, c : Cat(Two(a, b), One(c)) = Three(a, b, c)
  /\ \A a, b, c, d : Cat(Three(a, b, c), One(d)) = Four(a, b, c, d)
  /\ \A a, b, c, d, e : Cat(Four(a, b, c, d), One(e)) = Five(a, b, c, d, e)
  /\ \A a, b, c, d, e, f :
       Cat(Five(a, b, c, d, e), One(f)) = Six(a, b, c, d, e, f)
<1>1. Cat(None, None) = None
  <2>1. None \in Seq({})
    BY DEF None
  <2>2. QED
    BY <2>1, CatNone
<1>2. ASSUME NEW a
      PROVE  Cat(None, One(a)) = One(a) /\ Cat(One(a), None) = One(a)
  <2>1. One(a) \in Seq({a})
    BY DEF One
  <2>2. QED
    BY <2>1, CatNone
<1>3. ASSUME NEW a, NEW b
      PROVE  Cat(Two(a, b), None) = Two(a, b)
  <2>1. Two(a, b) \in Seq({a, b})
    BY DEF Two
  <2>2. QED
    BY <2>1, CatNone
<1>4. ASSUME NEW a, NEW b, NEW c
      PROVE  Cat(Three(a, b, c), None) = Three(a, b, c)
  <2>1. Three(a, b, c) \in Seq({a, b, c})
    BY DEF Three
  <2>2. QED
    BY <2>1, CatNone
<1>5. ASSUME NEW a, NEW b, NEW c, NEW d
      PROVE  Cat(Four(a, b, c, d), None) = Four(a, b, c, d)
  <2>1. Four(a, b, c, d) \in Seq({a, b, c, d})
    BY DEF Four
  <2>2. QED
    BY <2>1, CatNone
<1>6. ASSUME NEW a, NEW b
      PROVE  Cat(One(a), One(b)) = Two(a, b)
  <2> DEFINE s == Cat(One(a), One(b))
  <2>1. /\ s \in Seq({a, b}) /\ Len(s) = 2
        /\ s[1] = a /\ s[2] = b
    BY DEF Cat, One
  <2>2. QED
    BY <2>1, SeqEqual DEF Two
<1>7. ASSUME NEW a, NEW b, NEW c
      PROVE  Cat(One(a), Two(b, c)) = Three(a, b, c)
  <2> DEFINE s == Cat(One(a), Two(b, c))
  <2>1. /\ s \in Seq({a, b, c}) /\ Len(s) = 3
        /\ s[1] = a /\ s[2] = b /\ s[3] = c
    BY DEF Cat, One, Two
  <2>2. QED
    BY <2>1, SeqEqual DEF Three
<1>8. ASSUME NEW a, NEW b, NEW c
      PROVE  Cat(Two(a, b), One(c)) = Three(a, b, c)
  <2> DEFINE s == Cat(Two(a, b), One(c))
  <2>1. /\ s \in Seq({a, b, c}) /\ Len(s) = 3
        /\ s[1] = a /\ s[2] = b /\ s[3] = c
    BY DEF Cat, Two, One
  <2>2. QED
    BY <2>1, SeqEqual DEF Three
<1>9. ASSUME NEW a, NEW b, NEW c, NEW d
      PROVE  Cat(Three(a, b, c), One(d)) = Four(a, b, c, d)
  <2> DEFINE s == Cat(Three(a, b, c), One(d))
  <2>1. /\ s \in Seq({a, b, c, d}) /\ Len(s) = 4
        /\ s[1] = a /\ s[2] = b /\ s[3] = c /\ s[4] = d
    BY DEF Cat, Three, One
  <2>2. QED
    BY <2>1, SeqEqual DEF Four
<1>10. ASSUME NEW a, NEW b, NEW c, NEW d, NEW e
      PROVE  Cat(Four(a, b, c, d), One(e)) = Five(a, b, c, d, e)
  <2> DEFINE s == Cat(Four(a, b, c, d), One(e))
  <2>1. /\ s \in Seq({a, b, c, d, e}) /\ Len(s) = 5
        /\ s[1] = a /\ s[2] = b /\ s[3] = c /\ s[4] = d /\ s[5] = e
    BY DEF Cat, Four, One
  <2>2. QED
    BY <2>1, SeqEqual DEF Five
<1>11. ASSUME NEW a, NEW b, NEW c, NEW d, NEW e
       PROVE  Cat(Five(a, b, c, d, e), None) = Five(a, b, c, d, e)
  <2>1. Five(a, b, c, d, e) \in Seq({a, b, c, d, e})
    BY DEF Five
  <2>2. QED
    BY <2>1, CatNone
<1>12. ASSUME NEW a, NEW b, NEW c, NEW d, NEW e, NEW f
       PROVE  Cat(Five(a, b, c, d, e), One(f)) = Six(a, b, c, d, e, f)
  <2> DEFINE s == Cat(Five(a, b, c, d, e), One(f))
  <2>1. /\ s \in Seq({a, b, c, d, e, f}) /\ Len(s) = 6
        /\ s[1] = a /\ s[2] = b /\ s[3] = c /\ s[4] = d /\ s[5] = e /\ s[6] = f
    BY DEF Cat, Five, One
  <2>2. QED
    BY <2>1, SeqEqual DEF Six
<1>13. QED
  BY <1>1, <1>2, <1>3, <1>4, <1>5, <1>6, <1>7, <1>8, <1>9, <1>10, <1>11, <1>12

Same(p) == \A r : Api!Given(p, r) = One(Item(p, r))
Absent(p) == \A r : Api!Given(p, r) = None

LEMMA Givens ==
  /\ Same("path") /\ Same("target") /\ Same("oldpath") /\ Same("newpath")
  /\ Same("name") /\ Same("data") /\ Same("size") /\ Same("offset")
  /\ Same("position") /\ Same("flags") /\ Same("mode") /\ Same("dev")
  /\ Same("uid") /\ Same("gid") /\ Same("datasync") /\ Same("command")
  /\ Same("operation") /\ Same("info") /\ Same("flock") /\ Same("fill")
  /\ Absent("result") /\ Absent("buffer") /\ Absent("bytes")
  /\ Absent("private")
  /\ \A r : Api!Given("times", r) = Two(Item("atime", r), Item("mtime", r))
BY DEF Same, Absent, Api!Given, Api!Hidden, Item, Owned, IsOwned, None, One,
       Two

\* What is pushed for the arguments args of a request r.
Pushing(args, r) == [i \in 1 .. Len(args) |-> Item(args[i], r)]

LEMMA PushingTuple ==
  /\ \A r : Pushing(None, r) = None
  /\ \A r, a : Pushing(One(a), r) = One(Item(a, r))
  /\ \A r, a, b : Pushing(Two(a, b), r) = Two(Item(a, r), Item(b, r))
  /\ \A r, a, b, c :
       Pushing(Three(a, b, c), r) = Three(Item(a, r), Item(b, r), Item(c, r))
  /\ \A r, a, b, c, d :
       Pushing(Four(a, b, c, d), r) =
         Four(Item(a, r), Item(b, r), Item(c, r), Item(d, r))
  /\ \A r, a, b, c, d, e :
       Pushing(Five(a, b, c, d, e), r) =
         Five(Item(a, r), Item(b, r), Item(c, r), Item(d, r), Item(e, r))
BY DEF Pushing, None, One, Two, Three, Four, Five

LEMMA ValuesTuple ==
  /\ \A r, a : Api!Values(One(a), r) = Api!Given(a, r)
  /\ \A r, a, b :
       Api!Values(Two(a, b), r) = Cat(Api!Given(a, r), Api!Given(b, r))
  /\ \A r, a, b, c :
       Api!Values(Three(a, b, c), r) =
         Cat(Cat(Api!Given(a, r), Api!Given(b, r)), Api!Given(c, r))
  /\ \A r, a, b, c, d :
       Api!Values(Four(a, b, c, d), r) =
         Cat(Cat(Cat(Api!Given(a, r), Api!Given(b, r)), Api!Given(c, r)),
             Api!Given(d, r))
  /\ \A r, a, b, c, d, e :
       Api!Values(Five(a, b, c, d, e), r) =
         Cat(Cat(Cat(Cat(Api!Given(a, r), Api!Given(b, r)), Api!Given(c, r)),
                 Api!Given(d, r)), Api!Given(e, r))
  /\ \A r, a, b, c, d, e, f :
       Api!Values(Six(a, b, c, d, e, f), r) =
         Cat(Cat(Cat(Cat(Cat(Api!Given(a, r), Api!Given(b, r)),
                         Api!Given(c, r)), Api!Given(d, r)),
                 Api!Given(e, r)), Api!Given(f, r))
<1> USE ValuesJoined DEF Chosen, Joined1, Joined2, Joined3, Joined4, Joined5,
                         Joined6, One, Two, Three, Four, Five, Six
<1>1. ASSUME NEW r, NEW a
      PROVE  Api!Values(One(a), r) = Api!Given(a, r)
  BY Len(<<a>>) = 1
<1>2. ASSUME NEW r, NEW a, NEW b
      PROVE  Api!Values(Two(a, b), r) = Cat(Api!Given(a, r), Api!Given(b, r))
  BY Len(<<a, b>>) = 2
<1>3. ASSUME NEW r, NEW a, NEW b, NEW c
      PROVE  Api!Values(Three(a, b, c), r) =
               Cat(Cat(Api!Given(a, r), Api!Given(b, r)), Api!Given(c, r))
  BY Len(<<a, b, c>>) = 3
<1>4. ASSUME NEW r, NEW a, NEW b, NEW c, NEW d
      PROVE  Api!Values(Four(a, b, c, d), r) =
               Cat(Cat(Cat(Api!Given(a, r), Api!Given(b, r)),
                       Api!Given(c, r)), Api!Given(d, r))
  BY Len(<<a, b, c, d>>) = 4
<1>5. ASSUME NEW r, NEW a, NEW b, NEW c, NEW d, NEW e
      PROVE  Api!Values(Five(a, b, c, d, e), r) =
               Cat(Cat(Cat(Cat(Api!Given(a, r), Api!Given(b, r)),
                           Api!Given(c, r)), Api!Given(d, r)),
                   Api!Given(e, r))
  BY Len(<<a, b, c, d, e>>) = 5
<1>6. ASSUME NEW r, NEW a, NEW b, NEW c, NEW d, NEW e, NEW f
      PROVE  Api!Values(Six(a, b, c, d, e, f), r) =
               Cat(Cat(Cat(Cat(Cat(Api!Given(a, r), Api!Given(b, r)),
                               Api!Given(c, r)), Api!Given(d, r)),
                       Api!Given(e, r)), Api!Given(f, r))
  BY Len(<<a, b, c, d, e, f>>) = 6
<1>7. QED
  BY <1>1, <1>2, <1>3, <1>4, <1>5, <1>6, Zenon

\* A member of fuse_operations with the parameters ps passes args.
Passing(ps, args) == \A r : Api!Values(ps, r) = Pushing(args, r)

LEMMA PassingFew ==
  /\ Passing(One("info"), One("info"))
  /\ Passing(One("path"), One("path"))
  /\ Passing(One("private"), None)
  /\ Passing(Two("oldpath", "newpath"), Two("oldpath", "newpath"))
  /\ Passing(Two("path", "info"), Two("path", "info"))
  /\ Passing(Two("path", "mode"), Two("path", "mode"))
  /\ Passing(Two("path", "name"), Two("path", "name"))
  /\ Passing(Two("path", "result"), One("path"))
  /\ Passing(Two("path", "size"), Two("path", "size"))
  /\ Passing(Two("path", "times"), Three("path", "atime", "mtime"))
  /\ Passing(Two("target", "path"), Two("target", "path"))
<1> USE ValuesTuple, Givens, Cats, PushingTuple
        DEF Passing, Same, Absent
<1>1. Passing(One("info"), One("info"))
  OBVIOUS
<1>2. Passing(One("path"), One("path"))
  OBVIOUS
<1>3. Passing(One("private"), None)
  OBVIOUS
<1>4. Passing(Two("oldpath", "newpath"), Two("oldpath", "newpath"))
  OBVIOUS
<1>5. Passing(Two("path", "info"), Two("path", "info"))
  OBVIOUS
<1>6. Passing(Two("path", "mode"), Two("path", "mode"))
  OBVIOUS
<1>7. Passing(Two("path", "name"), Two("path", "name"))
  OBVIOUS
<1>8. Passing(Two("path", "result"), One("path"))
  OBVIOUS
<1>9. Passing(Two("path", "size"), Two("path", "size"))
  OBVIOUS
<1>10. Passing(Two("path", "times"), Three("path", "atime", "mtime"))
  OBVIOUS
<1>11. Passing(Two("target", "path"), Two("target", "path"))
  OBVIOUS
<1>12. QED
  BY <1>1, <1>2, <1>3, <1>4, <1>5, <1>6, <1>7, <1>8, <1>9, <1>10, <1>11

LEMMA PassingMore ==
  /\ Passing(Three("path", "buffer", "size"), Two("path", "size"))
  /\ Passing(Three("path", "datasync", "info"),
             Three("path", "datasync", "info"))
  /\ Passing(Three("path", "info", "operation"),
             Three("path", "info", "operation"))
  /\ Passing(Three("path", "mode", "dev"), Three("path", "mode", "dev"))
  /\ Passing(Three("path", "mode", "info"), Three("path", "mode", "info"))
  /\ Passing(Three("path", "result", "info"), Two("path", "info"))
  /\ Passing(Three("path", "size", "info"), Three("path", "size", "info"))
  /\ Passing(Three("path", "uid", "gid"), Three("path", "uid", "gid"))
<1> USE ValuesTuple, Givens, Cats, PushingTuple
        DEF Passing, Same, Absent
<1>1. Passing(Three("path", "buffer", "size"), Two("path", "size"))
  OBVIOUS
<1>2. Passing(Three("path", "datasync", "info"),
              Three("path", "datasync", "info"))
  OBVIOUS
<1>3. Passing(Three("path", "info", "operation"),
              Three("path", "info", "operation"))
  OBVIOUS
<1>4. Passing(Three("path", "mode", "dev"), Three("path", "mode", "dev"))
  OBVIOUS
<1>5. Passing(Three("path", "mode", "info"), Three("path", "mode", "info"))
  OBVIOUS
<1>6. Passing(Three("path", "result", "info"), Two("path", "info"))
  OBVIOUS
<1>7. Passing(Three("path", "size", "info"), Three("path", "size", "info"))
  OBVIOUS
<1>8. Passing(Three("path", "uid", "gid"), Three("path", "uid", "gid"))
  OBVIOUS
<1>9. QED
  BY <1>1, <1>2, <1>3, <1>4, <1>5, <1>6, <1>7, <1>8

LEMMA PassingMany ==
  /\ Passing(Four("path", "info", "command", "flock"),
             Four("path", "info", "command", "flock"))
  /\ Passing(Five("path", "buffer", "fill", "offset", "info"),
             Four("path", "fill", "offset", "info"))
  /\ Passing(Five("path", "buffer", "size", "offset", "info"),
             Four("path", "size", "offset", "info"))
  /\ Passing(Five("path", "data", "bytes", "offset", "info"),
             Four("path", "data", "offset", "info"))
  /\ Passing(Five("path", "mode", "offset", "size", "info"),
             Five("path", "mode", "offset", "size", "info"))
  /\ Passing(Five("path", "name", "buffer", "size", "position"),
             Four("path", "name", "size", "position"))
  /\ Passing(Six("path", "name", "data", "bytes", "flags", "position"),
             Five("path", "name", "data", "flags", "position"))
<1> USE ValuesTuple, Givens, Cats, PushingTuple
        DEF Passing, Same, Absent
<1>1. Passing(Four("path", "info", "command", "flock"),
              Four("path", "info", "command", "flock"))
  OBVIOUS
<1>2. Passing(Five("path", "buffer", "fill", "offset", "info"),
              Four("path", "fill", "offset", "info"))
  OBVIOUS
<1>3. Passing(Five("path", "buffer", "size", "offset", "info"),
              Four("path", "size", "offset", "info"))
  OBVIOUS
<1>4. Passing(Five("path", "data", "bytes", "offset", "info"),
              Four("path", "data", "offset", "info"))
  OBVIOUS
<1>5. Passing(Five("path", "mode", "offset", "size", "info"),
              Five("path", "mode", "offset", "size", "info"))
  OBVIOUS
<1>6. Passing(Five("path", "name", "buffer", "size", "position"),
              Four("path", "name", "size", "position"))
  OBVIOUS
<1>7. Passing(Six("path", "name", "data", "bytes", "flags", "position"),
              Five("path", "name", "data", "flags", "position"))
  OBVIOUS
<1>8. QED
  BY <1>1, <1>2, <1>3, <1>4, <1>5, <1>6, <1>7

LEMMA NamesTuple ==
  /\ \A k : ~Names(None, k)
  /\ \A k, a : Names(One(a), k) <=> k \in {a}
  /\ \A k, a, b : Names(Two(a, b), k) <=> k \in {a, b}
  /\ \A k, a, b, c : Names(Three(a, b, c), k) <=> k \in {a, b, c}
  /\ \A k, a, b, c, d : Names(Four(a, b, c, d), k) <=> k \in {a, b, c, d}
  /\ \A k, a, b, c, d, e : Names(Five(a, b, c, d, e), k) <=>
       k \in {a, b, c, d, e}
BY DEF Names, None, One, Two, Three, Four, Five

\* The handler of o passes what libfuse's prototype of o asks for, and makes
\* tables of the structures among its parameters.
Fits(o) ==
  /\ Passing(Cat(Api!Prototype(o), Api!Extra(o)), Table(o).args)
  /\ Table(o).info <=> Names(Api!Prototype(o), "info")
  /\ Table(o).flock <=> Names(Api!Prototype(o), "flock")
  /\ Table(o).info <=> Names(Table(o).args, "info")
  /\ Table(o).flock <=> Names(Table(o).args, "flock")

LEMMA LinkFits == \A o \in DOMAIN LinkOps : Fits(o)
<1>1. /\ LinkOps["getattr"].args = One("path")
      /\ LinkOps["readlink"].args = Two("path", "size")
      /\ LinkOps["mknod"].args = Three("path", "mode", "dev")
      /\ LinkOps["mkdir"].args = Two("path", "mode")
      /\ LinkOps["unlink"].args = One("path")
      /\ LinkOps["rmdir"].args = One("path")
      /\ LinkOps["symlink"].args = Two("target", "path")
      /\ LinkOps["rename"].args = Two("oldpath", "newpath")
      /\ LinkOps["link"].args = Two("oldpath", "newpath")
  BY DEF LinkOps, Op, One, Two, Three
<1>2. /\ LinkOps["getattr"].info = FALSE /\ LinkOps["getattr"].flock = FALSE
      /\ LinkOps["readlink"].info = FALSE /\ LinkOps["readlink"].flock = FALSE
      /\ LinkOps["mknod"].info = FALSE /\ LinkOps["mknod"].flock = FALSE
      /\ LinkOps["mkdir"].info = FALSE /\ LinkOps["mkdir"].flock = FALSE
      /\ LinkOps["unlink"].info = FALSE /\ LinkOps["unlink"].flock = FALSE
      /\ LinkOps["rmdir"].info = FALSE /\ LinkOps["rmdir"].flock = FALSE
      /\ LinkOps["symlink"].info = FALSE /\ LinkOps["symlink"].flock = FALSE
      /\ LinkOps["rename"].info = FALSE /\ LinkOps["rename"].flock = FALSE
      /\ LinkOps["link"].info = FALSE /\ LinkOps["link"].flock = FALSE
  BY DEF LinkOps, Op
<1>3. /\ Api!LinkPrototypes["getattr"] = Two("path", "result")
      /\ Api!LinkPrototypes["readlink"] = Three("path", "buffer", "size")
      /\ Api!LinkPrototypes["mknod"] = Three("path", "mode", "dev")
      /\ Api!LinkPrototypes["mkdir"] = Two("path", "mode")
      /\ Api!LinkPrototypes["unlink"] = One("path")
      /\ Api!LinkPrototypes["rmdir"] = One("path")
      /\ Api!LinkPrototypes["symlink"] = Two("target", "path")
      /\ Api!LinkPrototypes["rename"] = Two("oldpath", "newpath")
      /\ Api!LinkPrototypes["link"] = Two("oldpath", "newpath")
  BY DEF Api!LinkPrototypes, One, Two, Three
<1>4. /\ DOMAIN LinkOps =
           {"getattr", "readlink", "mknod", "mkdir", "unlink",
            "rmdir", "symlink", "rename", "link"}
      /\ DOMAIN Api!LinkPrototypes = DOMAIN LinkOps
  BY DEF LinkOps, Api!LinkPrototypes
<1>5. ASSUME NEW o \in DOMAIN LinkOps
      PROVE  Table(o) = LinkOps[o] /\ Api!Prototype(o) = Api!LinkPrototypes[o]
  BY <1>4 DEF Table, Api!Prototype, Api!LinkPrototypes
<1>6. ASSUME NEW o \in DOMAIN LinkOps
      PROVE  Api!Extra(o) = None
  BY <1>4 DEF Api!Extra, None
<1>7. ASSUME NEW o \in DOMAIN LinkOps
      PROVE  Fits(o)
  BY <1>1, <1>2, <1>3, <1>4, <1>5, <1>6, Cats, NamesTuple, PassingFew,
     PassingMore, PassingMany DEF Fits
<1>8. QED
  BY <1>7

LEMMA FileFits == \A o \in DOMAIN FileOps : Fits(o)
<1>1. /\ FileOps["chmod"].args = Two("path", "mode")
      /\ FileOps["chown"].args = Three("path", "uid", "gid")
      /\ FileOps["truncate"].args = Two("path", "size")
      /\ FileOps["open"].args = Two("path", "info")
      /\ FileOps["read"].args = Four("path", "size", "offset", "info")
      /\ FileOps["write"].args = Four("path", "data", "offset", "info")
      /\ FileOps["statfs"].args = One("path")
      /\ FileOps["flush"].args = Two("path", "info")
  BY DEF FileOps, FileOp, Op, One, Two, Three, Four, Five
<1>2. /\ FileOps["chmod"].info = FALSE /\ FileOps["chmod"].flock = FALSE
      /\ FileOps["chown"].info = FALSE /\ FileOps["chown"].flock = FALSE
      /\ FileOps["truncate"].info = FALSE /\ FileOps["truncate"].flock = FALSE
      /\ FileOps["open"].info = TRUE /\ FileOps["open"].flock = FALSE
      /\ FileOps["read"].info = TRUE /\ FileOps["read"].flock = FALSE
      /\ FileOps["write"].info = TRUE /\ FileOps["write"].flock = FALSE
      /\ FileOps["statfs"].info = FALSE /\ FileOps["statfs"].flock = FALSE
      /\ FileOps["flush"].info = TRUE /\ FileOps["flush"].flock = FALSE
  BY DEF FileOps, FileOp, Op
<1>3. /\ Api!FilePrototypes["chmod"] = Two("path", "mode")
      /\ Api!FilePrototypes["chown"] = Three("path", "uid", "gid")
      /\ Api!FilePrototypes["truncate"] = Two("path", "size")
      /\ Api!FilePrototypes["open"] = Two("path", "info")
      /\ Api!FilePrototypes["read"] =
           Five("path", "buffer", "size", "offset", "info")
      /\ Api!FilePrototypes["write"] =
           Five("path", "data", "bytes", "offset", "info")
      /\ Api!FilePrototypes["statfs"] = Two("path", "result")
      /\ Api!FilePrototypes["flush"] = Two("path", "info")
  BY DEF Api!FilePrototypes, One, Two, Three, Four, Five
<1>4. /\ DOMAIN FileOps =
           {"chmod", "chown", "truncate", "open", "read", "write",
            "statfs", "flush"}
      /\ DOMAIN Api!FilePrototypes = DOMAIN FileOps
  BY DEF FileOps, Api!FilePrototypes
<1>5. ASSUME NEW o \in DOMAIN FileOps
      PROVE  Table(o) = FileOps[o] /\ Api!Prototype(o) = Api!FilePrototypes[o]
  BY <1>4 DEF Table, Api!Prototype, LinkOps, Api!LinkPrototypes
<1>6. ASSUME NEW o \in DOMAIN FileOps
      PROVE  Api!Extra(o) = None
  BY <1>4 DEF Api!Extra, None
<1>7. ASSUME NEW o \in DOMAIN FileOps
      PROVE  Fits(o)
  BY <1>1, <1>2, <1>3, <1>4, <1>5, <1>6, Cats, NamesTuple, PassingFew,
     PassingMore, PassingMany DEF Fits
<1>8. QED
  BY <1>7

LEMMA XattrFits == \A o \in DOMAIN XattrOps : Fits(o)
<1>1. /\ XattrOps["release"].args = Two("path", "info")
      /\ XattrOps["fsync"].args = Three("path", "datasync", "info")
      /\ XattrOps["setxattr"].args =
           Five("path", "name", "data", "flags", "position")
      /\ XattrOps["getxattr"].args = Four("path", "name", "size", "position")
      /\ XattrOps["listxattr"].args = Two("path", "size")
      /\ XattrOps["removexattr"].args = Two("path", "name")
  BY DEF XattrOps, FileOp, Op, Two, Three, Four, Five
<1>2. /\ XattrOps["release"].info = TRUE /\ XattrOps["release"].flock = FALSE
      /\ XattrOps["fsync"].info = TRUE /\ XattrOps["fsync"].flock = FALSE
      /\ XattrOps["setxattr"].info = FALSE
      /\ XattrOps["setxattr"].flock = FALSE
      /\ XattrOps["getxattr"].info = FALSE
      /\ XattrOps["getxattr"].flock = FALSE
      /\ XattrOps["listxattr"].info = FALSE
      /\ XattrOps["listxattr"].flock = FALSE
      /\ XattrOps["removexattr"].info = FALSE
      /\ XattrOps["removexattr"].flock = FALSE
  BY DEF XattrOps, FileOp, Op
<1>3. /\ Api!XattrPrototypes["release"] = Two("path", "info")
      /\ Api!XattrPrototypes["fsync"] = Three("path", "datasync", "info")
      /\ Api!XattrPrototypes["setxattr"] =
           Five("path", "name", "data", "bytes", "flags")
      /\ Api!XattrPrototypes["getxattr"] =
           Four("path", "name", "buffer", "size")
      /\ Api!XattrPrototypes["listxattr"] = Three("path", "buffer", "size")
      /\ Api!XattrPrototypes["removexattr"] = Two("path", "name")
  BY DEF Api!XattrPrototypes, Two, Three, Four, Five
<1>4. /\ DOMAIN XattrOps =
           {"release", "fsync", "setxattr", "getxattr", "listxattr",
            "removexattr"}
      /\ DOMAIN Api!XattrPrototypes = DOMAIN XattrOps
  BY DEF XattrOps, Api!XattrPrototypes
<1>5. ASSUME NEW o \in DOMAIN XattrOps
      PROVE  /\ Table(o) = XattrOps[o]
             /\ Api!Prototype(o) = Api!XattrPrototypes[o]
  BY <1>4 DEF Table, Api!Prototype, LinkOps, Api!LinkPrototypes, FileOps,
     Api!FilePrototypes
<1>6. ASSUME NEW o \in DOMAIN XattrOps
      PROVE  Api!Extra(o) = IF o \in {"setxattr", "getxattr"}
                            THEN One("position") ELSE None
  BY <1>4 DEF Api!Extra, None, One
<1>7. ASSUME NEW o \in DOMAIN XattrOps
      PROVE  Fits(o)
  BY <1>1, <1>2, <1>3, <1>4, <1>5, <1>6, Cats, NamesTuple, PassingFew,
     PassingMore, PassingMany DEF Fits
<1>8. QED
  BY <1>7

LEMMA DirFits == \A o \in DOMAIN DirOps : Fits(o)
<1>1. /\ DirOps["opendir"].args = Two("path", "info")
      /\ DirOps["readdir"].args = Four("path", "fill", "offset", "info")
      /\ DirOps["releasedir"].args = Two("path", "info")
      /\ DirOps["fsyncdir"].args = Three("path", "datasync", "info")
      /\ DirOps["init"].args = One("info")
      /\ DirOps["destroy"].args = None
      /\ DirOps["access"].args = Two("path", "mode")
      /\ DirOps["create"].args = Three("path", "mode", "info")
  BY DEF DirOps, FileOp, Op, None, One, Two, Three, Four, Five
<1>2. /\ DirOps["opendir"].info = TRUE /\ DirOps["opendir"].flock = FALSE
      /\ DirOps["readdir"].info = TRUE /\ DirOps["readdir"].flock = FALSE
      /\ DirOps["releasedir"].info = TRUE /\ DirOps["releasedir"].flock = FALSE
      /\ DirOps["fsyncdir"].info = TRUE /\ DirOps["fsyncdir"].flock = FALSE
      /\ DirOps["init"].info = TRUE /\ DirOps["init"].flock = FALSE
      /\ DirOps["destroy"].info = FALSE /\ DirOps["destroy"].flock = FALSE
      /\ DirOps["access"].info = FALSE /\ DirOps["access"].flock = FALSE
      /\ DirOps["create"].info = TRUE /\ DirOps["create"].flock = FALSE
  BY DEF DirOps, FileOp, Op
<1>3. /\ Api!DirPrototypes["opendir"] = Two("path", "info")
      /\ Api!DirPrototypes["readdir"] =
           Five("path", "buffer", "fill", "offset", "info")
      /\ Api!DirPrototypes["releasedir"] = Two("path", "info")
      /\ Api!DirPrototypes["fsyncdir"] = Three("path", "datasync", "info")
      /\ Api!DirPrototypes["init"] = One("info")
      /\ Api!DirPrototypes["destroy"] = One("private")
      /\ Api!DirPrototypes["access"] = Two("path", "mode")
      /\ Api!DirPrototypes["create"] = Three("path", "mode", "info")
  BY DEF Api!DirPrototypes, None, One, Two, Three, Four, Five
<1>4. /\ DOMAIN DirOps =
           {"opendir", "readdir", "releasedir", "fsyncdir", "init",
            "destroy", "access", "create"}
      /\ DOMAIN Api!DirPrototypes = DOMAIN DirOps
  BY DEF DirOps, Api!DirPrototypes
<1>5. ASSUME NEW o \in DOMAIN DirOps
      PROVE  Table(o) = DirOps[o] /\ Api!Prototype(o) = Api!DirPrototypes[o]
  BY <1>4 DEF Table, Api!Prototype, LinkOps, Api!LinkPrototypes, FileOps,
     Api!FilePrototypes, XattrOps, Api!XattrPrototypes
<1>6. ASSUME NEW o \in DOMAIN DirOps
      PROVE  Api!Extra(o) = None
  BY <1>4 DEF Api!Extra, None
<1>7. ASSUME NEW o \in DOMAIN DirOps
      PROVE  Fits(o)
  BY <1>1, <1>2, <1>3, <1>4, <1>5, <1>6, Cats, NamesTuple, PassingFew,
     PassingMore, PassingMany DEF Fits
<1>8. QED
  BY <1>7

LEMMA LockFits == \A o \in DOMAIN LockOps : Fits(o)
<1>1. /\ LockOps["ftruncate"].args = Three("path", "size", "info")
      /\ LockOps["fgetattr"].args = Two("path", "info")
      /\ LockOps["lock"].args = Four("path", "info", "command", "flock")
      /\ LockOps["utimens"].args = Three("path", "atime", "mtime")
      /\ LockOps["flock"].args = Three("path", "info", "operation")
      /\ LockOps["fallocate"].args =
           Five("path", "mode", "offset", "size", "info")
  BY DEF LockOps, FileOp, Op, Two, Three, Four, Five
<1>2. /\ LockOps["ftruncate"].info = TRUE /\ LockOps["ftruncate"].flock = FALSE
      /\ LockOps["fgetattr"].info = TRUE /\ LockOps["fgetattr"].flock = FALSE
      /\ LockOps["lock"].info = TRUE /\ LockOps["lock"].flock = TRUE
      /\ LockOps["utimens"].info = FALSE /\ LockOps["utimens"].flock = FALSE
      /\ LockOps["flock"].info = TRUE /\ LockOps["flock"].flock = FALSE
      /\ LockOps["fallocate"].info = TRUE /\ LockOps["fallocate"].flock = FALSE
  BY DEF LockOps, FileOp, Op
<1>3. /\ Api!LockPrototypes["ftruncate"] = Three("path", "size", "info")
      /\ Api!LockPrototypes["fgetattr"] = Three("path", "result", "info")
      /\ Api!LockPrototypes["lock"] = Four("path", "info", "command", "flock")
      /\ Api!LockPrototypes["utimens"] = Two("path", "times")
      /\ Api!LockPrototypes["flock"] = Three("path", "info", "operation")
      /\ Api!LockPrototypes["fallocate"] =
           Five("path", "mode", "offset", "size", "info")
  BY DEF Api!LockPrototypes, Two, Three, Four, Five
<1>4. /\ DOMAIN LockOps =
           {"ftruncate", "fgetattr", "lock", "utimens", "flock",
            "fallocate"}
      /\ DOMAIN Api!LockPrototypes = DOMAIN LockOps
  BY DEF LockOps, Api!LockPrototypes
<1>5. ASSUME NEW o \in DOMAIN LockOps
      PROVE  Table(o) = LockOps[o] /\ Api!Prototype(o) = Api!LockPrototypes[o]
  BY <1>4 DEF Table, Api!Prototype, LinkOps, Api!LinkPrototypes, FileOps,
     Api!FilePrototypes, XattrOps, Api!XattrPrototypes, DirOps,
     Api!DirPrototypes
<1>6. ASSUME NEW o \in DOMAIN LockOps
      PROVE  Api!Extra(o) = None
  BY <1>4 DEF Api!Extra, None
<1>7. ASSUME NEW o \in DOMAIN LockOps
      PROVE  Fits(o)
  BY <1>1, <1>2, <1>3, <1>4, <1>5, <1>6, Cats, NamesTuple, PassingFew,
     PassingMore, PassingMany DEF Fits
<1>8. QED
  BY <1>7

LEMMA AllFit == \A o \in OpNames : Fits(o)
BY LinkFits, FileFits, XattrFits, DirFits, LockFits, Zenon DEF OpNames

LEMMA SameMembers == Api!Members = OpNames
BY DEF Api!Members, OpNames, LinkOps, FileOps, XattrOps, DirOps, LockOps,
       Api!LinkPrototypes, Api!FilePrototypes, Api!XattrPrototypes,
       Api!DirPrototypes, Api!LockPrototypes
-----------------------------------------------------------------------------
(***************************************************************************)
(* The refinement: what a step of a handler is for the service.            *)
(***************************************************************************)
LEMMA ApiArguments ==
  ASSUME NEW o \in OpNames, NEW r
  PROVE  Api!Arguments(o, r) = Pushing(Table(o).args, r)
BY AllFit, Zenon DEF Fits, Passing, Cat, Api!Arguments

\* The structures among the parameters are those the handler converts.
LEMMA ApiPassed ==
  ASSUME NEW r \in Requests, op[r] \in OpNames
  PROVE  /\ Api!Passed(op[r]) = Passed(r)
         /\ \A k \in Structures :
              Names(Table(op[r]).args, k) <=> k \in Passed(r)
<1> DEFINE t == Table(op[r])
           ps == Api!Prototype(op[r])
<1>1. /\ t.info <=> Names(ps, "info")
      /\ t.flock <=> Names(ps, "flock")
      /\ t.info <=> Names(t.args, "info")
      /\ t.flock <=> Names(t.args, "flock")
  BY AllFit DEF Fits
<1>2. t.info \in BOOLEAN /\ t.flock \in BOOLEAN
  BY Entries, Zenon DEF Entry
<1> HIDE DEF t, ps
<1>3. (Has(t, "info") <=> t.info) /\ (Has(t, "flock") <=> t.flock)
  BY <1>2, ConvertedIs
<1>4. \A k : k \in Api!ToSet(ps) <=> Names(ps, k)
  BY DEF Api!ToSet, Names
<1>5. \A k : k \in Api!Passed(op[r]) <=> k \in Structures /\ Names(ps, k)
  BY <1>4, Zenon DEF Api!Passed, Api!Structures, Structures, ps
<1>6. \A k : k \in Passed(r) <=> k \in Structures /\ Has(t, k)
  BY Zenon DEF Passed, t
<1>7. \A k \in Structures : /\ Has(t, k) <=> Names(ps, k)
                            /\ Has(t, k) <=> Names(t.args, k)
  BY <1>1, <1>3 DEF Structures
<1>8. Api!Passed(op[r]) = Passed(r)
  BY <1>5, <1>6, <1>7
<1>9. QED
  BY <1>6, <1>7, <1>8 DEF t

\* The variables of the service.
PhaseOf(p) ==
  CASE p = "new" -> "idle"
    [] p = "prepare" -> "asked"
    [] p = "callback" -> "running"
    [] p \in {"scope", "write_back"} -> "answered"
    [] OTHER -> "returned"

Rest(c) == SubSeq(c, 3, Len(c))
Phases == [r \in Requests |-> PhaseOf(pc[r])]
Got == [r \in Requests |-> Rest(frame[r])]

LEMMA Moves ==
  ASSUME Types, NEW r \in Requests, NEW p, pc' = [pc EXCEPT ![r] = p]
  PROVE  Phases' = [Phases EXCEPT ![r] = PhaseOf(p)]
BY DEF Types, Phases

LEMMA Rests ==
  ASSUME Types, NEW r \in Requests, NEW c, frame' = [frame EXCEPT ![r] = c]
  PROVE  Got' = [Got EXCEPT ![r] = Rest(c)]
BY DEF Types, Got

LEMMA RestNothing == Rest(<<>>) = <<>>
BY DEF Rest

LEMMA RestArguments ==
  ASSUME NEW S, NEW a \in S, NEW b \in S, NEW s \in Seq(S)
  PROVE  Rest(<<a, b>> \o s) = s
<1>1. <<a, b>> \in Seq(S) /\ Len(<<a, b>>) = 2
  OBVIOUS
<1>2. SubSeq(<<a, b>> \o s, 3, 2 + Len(s)) = s
  BY <1>1, Cut
<1>3. Len(<<a, b>> \o s) = 2 + Len(s)
  BY <1>1
<1>4. QED
  BY <1>2, <1>3 DEF Rest

\* A step of the service is over its variables alone.
LEMMA ApiMove ==
  ASSUME NEW r \in Requests, NEW from, NEW to,
         process = "up", Phases[r] = from,
         Phases' = [Phases EXCEPT ![r] = to]
  PROVE  Api!Move(r, from, to)
BY Zenon DEF Api!Move, Phases, Phase, PhaseOf

LEMMA SamePhase ==
  ASSUME Types, NEW r \in Requests, NEW p, pc' = [pc EXCEPT ![r] = p],
         PhaseOf(p) = PhaseOf(pc[r])
  PROVE  Phases' = Phases
BY DEF Types, Phases

LEMMA ApiStutter ==
  ASSUME Phases' = Phases, Got' = Got,
         UNCHANGED <<registered, op, table, struct, process>>
  PROVE  UNCHANGED Api!vars
BY DEF Api!vars, Phases, Phase, PhaseOf, Got, Rest

LEMMA InitApi == Init => Api!Init
<1> SUFFICES ASSUME Init PROVE Api!Init
  OBVIOUS
<1>1. registered \subseteq Api!Members
  BY SameMembers, Fixed DEF Init, Registered
<1>2. op \in [Requests -> Api!Members]
  BY SameMembers, Fixed DEF Init
<1>3. [r \in Requests |-> Phase(r)] = [r \in Requests |-> "idle"]
  BY DEF Init, Phase
<1>4. [r \in Requests |-> SubSeq(frame[r], 3, Len(frame[r]))]
        = [r \in Requests |-> <<>>]
  BY RestNothing, Zenon DEF Init, Rest
<1>5. table = Api!Fresh /\ struct = Api!Fresh /\ process = "up"
  BY DEF Init, Api!Fresh, Api!Structures, Structures
<1>6. QED
  BY <1>1, <1>2, <1>3, <1>4, <1>5, Zenon DEF Api!Init

\* Arrive is Ask: the request is the kernel's, the state is not visible.
LEMMA ArriveApi ==
  ASSUME IInv, NEW r \in Requests, Arrive(r)
  PROVE  Api!Ask(r)
<1>1. /\ process = "up" /\ pc[r] = "new" /\ pc' = [pc EXCEPT ![r] = "prepare"]
      /\ \E o \in registered : op' = [op EXCEPT ![r] = o]
      /\ UNCHANGED <<registered, frame, table, struct, process>>
  BY Zenon DEF Arrive, Goto
<1>2. Phases[r] = "idle" /\ Phases' = [Phases EXCEPT ![r] = "asked"]
  BY <1>1, Moves DEF IInv, Phases, PhaseOf
<1>3. Got' = Got
  BY <1>1 DEF Got
<1>4. Api!Move(r, "idle", "asked")
  BY <1>1, <1>2, ApiMove
<1>5. QED
  BY <1>1, <1>3, <1>4, Zenon DEF Api!Ask, Got, Rest

\* Invoke is Call: what lies on the stack above the function and the
\* operations table are the arguments of the prototype.
LEMMA InvokeApi ==
  ASSUME IInv, IInv', NEW r \in Requests, Invoke(r)
  PROVE  Api!Call(r)
<1>1. /\ process = "up" /\ pc[r] = "prepare"
      /\ pc' = [pc EXCEPT ![r] = "callback"]
      /\ \E c : frame' = [frame EXCEPT ![r] = c]
      /\ UNCHANGED <<registered, op, table, struct, process>>
  BY Zenon DEF Invoke, Goto
<1>2. Phases[r] = "asked" /\ Phases' = [Phases EXCEPT ![r] = "running"]
  BY <1>1, Moves DEF IInv, Phases, PhaseOf
<1>3. op[r] \in OpNames /\ pc'[r] = "callback"
  BY <1>1 DEF IInv, Types
<1>4. frame'[r] = Passes(r)
  BY <1>1, <1>3, SamePasses DEF IInv, Frames
<1>5. Rest(frame'[r]) = Pushing(Table(op[r]).args, r)
  <2> DEFINE o == Table(op[r])
             s == [i \in 1 .. Len(o.args) |-> Item(o.args[i], r)]
  <2>1. Passes(r) = <<Function(o.fn), Ops>> \o s
    BY Zenon DEF Passes
  <2>2. Function(o.fn) \in Cell /\ Ops \in Cell /\ s \in Seq(Cell)
    BY <1>3, FrameCells, CellFunction, CellOps, Zenon
  <2>3. s = Pushing(o.args, r)
    BY Zenon DEF Pushing
  <2> HIDE DEF o, s
  <2>4. Rest(Passes(r)) = s
    BY <2>1, <2>2, RestArguments
  <2>5. QED
    BY <1>4, <2>3, <2>4 DEF o
<1>6. Got' = [Got EXCEPT ![r] = Api!Arguments(op[r], r)]
  <2>1. PICK c : frame' = [frame EXCEPT ![r] = c]
    BY <1>1
  <2>2. frame'[r] = c
    BY <2>1 DEF IInv, Types
  <2>3. Got' = [Got EXCEPT ![r] = Rest(c)]
    BY <2>1, Rests DEF IInv
  <2>4. QED
    BY <1>3, <1>5, <2>2, <2>3, ApiArguments
<1>7. Api!Move(r, "asked", "running")
  BY <1>1, <1>2, ApiMove
<1>8. QED
  BY <1>1, <1>6, <1>7, Zenon DEF Api!Call, Got, Rest

\* NotDefined is Skip.
LEMMA NotDefinedApi ==
  ASSUME IInv, NEW r \in Requests, NotDefined(r)
  PROVE  Api!Skip(r)
<1>1. /\ process = "up" /\ pc[r] = "prepare"
      /\ pc' = [pc EXCEPT ![r] = "write_back"]
      /\ UNCHANGED <<registered, op, frame, table, struct, process>>
  BY Zenon DEF NotDefined, Goto
<1>2. Phases[r] = "asked" /\ Phases' = [Phases EXCEPT ![r] = "answered"]
  BY <1>1, Moves DEF IInv, Phases, PhaseOf
<1>3. Got' = Got
  BY <1>1 DEF Got
<1>4. Api!Move(r, "asked", "answered")
  BY <1>1, <1>2, ApiMove
<1>5. QED
  BY <1>1, <1>3, <1>4, Zenon DEF Api!Skip, Got, Rest

\* A table a script finds in its frame belongs to a structure of the request.
LEMMA OwnPassed ==
  ASSUME IInv, NEW r \in Requests, pc[r] = "callback", NEW k \in Structures,
         InFrame(r, Owned(k, r))
  PROVE  k \in Passed(r)
<1> DEFINE t == Table(op[r])
           s == [i \in 1 .. Len(t.args) |-> Item(t.args[i], r)]
<1>1. op[r] \in OpNames
  BY DEF IInv, Types
<1>2. frame[r] = <<Function(t.fn), Ops>> \o s
  BY Zenon DEF IInv, Frames, Passes
<1>3. t.args \in Seq(ArgNames)
  BY <1>1, Entries, Zenon DEF Entry, Counts
<1>4. k # "function" /\ k # "ops" /\ k # "arg"
  BY DEF Structures
<1>5. PICK i \in 1 .. Len(frame[r]) : frame[r][i] = Owned(k, r)
  BY Zenon DEF InFrame
<1> DEFINE f == Function(t.fn)
<1>6. f # Owned(k, r) /\ Ops # Owned(k, r)
  BY <1>4 DEF Function, Ops, Owned
<1> HIDE DEF t, f
<1>7. PICK j \in 1 .. Len(t.args) : Item(t.args[j], r) = Owned(k, r)
  <2>1. /\ Len(frame[r]) = Len(t.args) + 2
        /\ frame[r][1] = f /\ frame[r][2] = Ops
        /\ \A j \in 1 .. Len(t.args) : frame[r][j + 2] = Item(t.args[j], r)
    BY <1>2, <1>3 DEF f
  <2>2. i > 2
    BY <1>5, <1>6, <2>1
  <2>3. i - 2 \in 1 .. Len(t.args) /\ i = (i - 2) + 2
    BY <1>3, <1>5, <2>1, <2>2
  <2>4. Item(t.args[i - 2], r) = Owned(k, r)
    BY <1>5, <2>1, <2>3
  <2>5. QED
    BY <2>3, <2>4
<1>8. t.args[j] = k
  BY <1>4, <1>7 DEF Item, Owned
<1>9. Names(t.args, k)
  BY <1>8 DEF Names
<1>10. QED
  BY <1>1, <1>9, ApiPassed DEF t

\* Assign is Change.
LEMMA AssignApi ==
  ASSUME IInv, NEW r \in Requests, Assign(r)
  PROVE  Api!Change(r)
<1>1. /\ process = "up" /\ pc[r] = "callback"
      /\ pc' = [pc EXCEPT ![r] = "callback"]
      /\ UNCHANGED <<registered, op, frame, struct, process>>
  BY Zenon DEF Assign, Goto
<1>2. PICK k \in Structures, c \in {"script", "bad"} :
        InFrame(r, Owned(k, r)) /\ table' = [table EXCEPT ![r][k] = c]
  BY Zenon DEF Assign
<1>3. k \in Api!Passed(op[r])
  BY <1>1, <1>2, OwnPassed, ApiPassed DEF IInv, Types
<1>4. Phases[r] = "running" /\ Phases' = [Phases EXCEPT ![r] = "running"]
  BY <1>1, Moves DEF IInv, Phases, PhaseOf
<1>5. Got' = Got
  BY <1>1 DEF Got
<1>6. Api!Move(r, "running", "running")
  BY <1>1, <1>4, ApiMove
<1>7. QED
  BY <1>1, <1>2, <1>3, <1>5, <1>6, Zenon DEF Api!Change, Got, Rest

\* A callback that returns or raises is Answer.
LEMMA CallbackApi ==
  ASSUME IInv, NEW r \in Requests, Goto(r, "callback", AfterCall(r)),
         frame' = [frame EXCEPT ![r] = <<>>],
         UNCHANGED <<registered, op, table, struct, process>>
  PROVE  Api!Answer(r)
<1>1. /\ process = "up" /\ pc[r] = "callback"
      /\ pc' = [pc EXCEPT ![r] = AfterCall(r)]
  BY Zenon DEF Goto
<1>2. PhaseOf(AfterCall(r)) = "answered"
  BY DEF AfterCall, PhaseOf
<1>3. Phases[r] = "running" /\ Phases' = [Phases EXCEPT ![r] = "answered"]
  BY <1>1, <1>2, Moves DEF IInv, Phases, PhaseOf
<1>4. Got' = [Got EXCEPT ![r] = <<>>]
  BY Rests, RestNothing DEF IInv
<1>5. Api!Move(r, "running", "answered")
  BY <1>1, <1>3, ApiMove
<1>6. QED
  BY <1>4, <1>5, Zenon DEF Api!Answer, Got, Rest

\* What ~scoped_converter finds at its index are the structures it passed.
LEMMA FoundPassed ==
  ASSUME IInv, NEW r \in Requests, pc[r] = "write_back"
  PROVE  Found(r) = Passed(r)
<1>1. Passed(r) \subseteq Found(r)
  BY FoundAll
<1>2. ASSUME NEW k \in Found(r)
      PROVE  k \in Passed(r)
  <2>1. k \in Structures /\ \E i \in 1 .. Len(Converted(Table(op[r]))) :
                              Converted(Table(op[r]))[i] = k
    BY Zenon DEF Found
  <2>2. op[r] \in OpNames
    BY DEF IInv, Types
  <2>3. Has(Table(op[r]), k)
    BY <2>1, <2>2, PassesConverted
  <2>4. QED
    BY <2>1, <2>3 DEF Passed
<1>3. QED
  BY <1>1, <1>2

\* WriteBack is Return.
LEMMA WriteBackApi ==
  ASSUME IInv, NEW r \in Requests, WriteBack(r)
  PROVE  Api!Return(r)
<1>1. /\ process = "up" /\ pc[r] = "write_back"
      /\ pc' = [pc EXCEPT ![r] = "restore"]
      /\ \A k \in Found(r) : table[r][k] # "bad"
      /\ struct' = [struct EXCEPT ![r] =
           [k \in Structures |-> IF k \in Found(r) THEN table[r][k] ELSE @[k]]]
      /\ UNCHANGED <<registered, op, frame, table, process>>
  BY Zenon DEF WriteBack, Goto
<1>2. Found(r) = Api!Passed(op[r])
  BY <1>1, FoundPassed, ApiPassed DEF IInv, Types
<1>3. Phases[r] = "answered" /\ Phases' = [Phases EXCEPT ![r] = "returned"]
  <2>1. pc[r] = "write_back" /\ pc' = [pc EXCEPT ![r] = "restore"]
    BY <1>1
  <2>2. Types
    BY DEF IInv
  <2>3. PhaseOf("write_back") = "answered" /\ PhaseOf("restore") = "returned"
    BY DEF PhaseOf
  <2>4. Phases' = [Phases EXCEPT ![r] = PhaseOf("restore")]
    BY <2>1, <2>2, Moves
  <2>5. Phases[r] = PhaseOf("write_back")
    BY <2>1 DEF Phases
  <2>6. QED
    BY <2>3, <2>4, <2>5
<1>4. Got' = Got
  BY <1>1 DEF Got
<1>5. Api!Move(r, "answered", "returned")
  BY <1>1, <1>3, ApiMove
<1>6. Structures = Api!Structures
  BY DEF Structures, Api!Structures
<1>7. QED
  BY <1>1, <1>2, <1>4, <1>5, <1>6, Zenon DEF Api!Return, Got, Rest

\* An error outside lua_pcall is Abort.
LEMMA AbortApi ==
  ASSUME IInv, NEW r \in Requests,
         Abort(r, "callback") \/ Abort(r, "write_back")
  PROVE  Api!Abort
<1>1. /\ process = "up" /\ pc[r] \in {"callback", "write_back"}
      /\ process' = "aborted"
      /\ UNCHANGED <<registered, pc, op, frame, table, struct>>
  BY DEF Abort
<1>2. Phases[r] \in {"running", "answered"}
  BY <1>1 DEF Phases, PhaseOf
<1>3. Phases' = Phases /\ Got' = Got
  BY <1>1 DEF Phases, Got
<1>4. QED
  BY <1>1, <1>2, <1>3, Zenon DEF Api!Abort, Phases, Phase, PhaseOf, Got, Rest

\* Nothing else is visible.
LEMMA HiddenApi ==
  ASSUME IInv, NEW r \in Requests,
         Fill(r) \/ Keep(r) \/ ResetScope(r) \/ RestoreTop(r) \/ CloseState(r)
  PROVE  UNCHANGED Api!vars
<1>1. /\ \/ pc[r] = "callback" /\ pc' = [pc EXCEPT ![r] = "callback"]
         \/ pc[r] = "scope" /\ pc' = [pc EXCEPT ![r] = "write_back"]
         \/ pc[r] = "restore" /\ pc' = [pc EXCEPT ![r] = "close"]
         \/ pc[r] = "close" /\ pc' = [pc EXCEPT ![r] = "done"]
      /\ UNCHANGED <<registered, op, frame, table, struct, process>>
  BY DEF Fill, Keep, ResetScope, RestoreTop, CloseState, Goto
<1>2. Phases' = Phases
  BY <1>1, SamePhase DEF IInv, PhaseOf
<1>3. Got' = Got
  BY <1>1 DEF Got
<1>4. QED
  BY <1>1, <1>2, <1>3, ApiStutter

LEMMA StepApi == IInv /\ IInv' /\ [Next]_vars => [Api!Next]_Api!vars
<1> SUFFICES ASSUME IInv, IInv', [Next]_vars
             PROVE  [Api!Next]_Api!vars
  OBVIOUS
<1>1. ASSUME NEW r \in Requests, Answer(r) \/ Raise(r)
      PROVE  Api!Answer(r)
  BY <1>1, CallbackApi, Zenon DEF Answer, Raise
<1>2. ASSUME NEW r \in Requests, Step(r)
      PROVE  Api!Next \/ UNCHANGED Api!vars
  BY <1>1, <1>2, ArriveApi, InvokeApi, NotDefinedApi, AssignApi, WriteBackApi,
     AbortApi, HiddenApi, Zenon
     DEF Step, Api!Next, AnswerAborts, WriteBackAborts
<1>3. CASE UNCHANGED vars
  <2>1. Phases' = Phases /\ Got' = Got
    BY <1>3 DEF vars, Phases, Got
  <2>2. QED
    BY <1>3, <2>1, ApiStutter DEF vars
<1>4. QED
  BY <1>2, <1>3 DEF Next, Done
-----------------------------------------------------------------------------
(***************************************************************************)
(* The theorems.                                                           *)
(***************************************************************************)

(***************************************************************************)
(* Whatever path a handler takes, and however many handlers run at once, a *)
(* state that nobody borrows has the operations table alone on its stack.  *)
(***************************************************************************)
THEOREM StackRestoredAlways == Spec => []StackRestored
<1>1. IInv => StackRestored
  <2> SUFFICES ASSUME IInv, NEW s \in States, s \notin L!Lent
               PROVE  stack[s] = <<Ops>>
    BY DEF StackRestored
  <2>1. \A r \in Requests : lease[r] # s
    BY OperationsAssumption DEF L!Lent, L!Holders
  <2>2. QED
    BY <2>1 DEF IInv, Stacks
<1>2. QED
  BY <1>1, IInvAlways, PTL

(***************************************************************************)
(* For every operation of the table the callback receives its function,    *)
(* the operations table, as many arguments as were pushed and its own      *)
(* tables: the literals given to lua_pcall are right.                      *)
(***************************************************************************)
THEOREM FrameRightAlways == Spec => []FrameRight
<1>1. IInv => FrameRight
  <2> SUFFICES ASSUME IInv, NEW r \in Requests, pc[r] = "callback"
               PROVE  /\ frame[r][1] = Function(Table(op[r]).fn)
                      /\ frame[r][2] = Ops
                      /\ Len(frame[r]) = Len(Table(op[r]).args) + 2
                      /\ \A k \in Passed(r) : InFrame(r, Owned(k, r))
                      /\ \A q \in Requests \ {r} : \A k \in IsOwned :
                           ~InFrame(r, Owned(k, q))
    BY DEF FrameRight
  <2> DEFINE args == Table(op[r]).args
             f == Function(Table(op[r]).fn)
             items == [i \in 1 .. Len(args) |-> Item(args[i], r)]
  <2>1. op[r] \in OpNames
    BY DEF IInv, Types
  <2>2. args \in Seq(ArgNames)
    BY <2>1, Entries, Zenon DEF Entry, Counts
  <2>3. frame[r] = <<f, Ops>> \o items
    BY Zenon DEF IInv, Frames, Passes
  <2>4. \A k \in Passed(r) : k \in Structures /\ Names(args, k)
    BY <2>1, PassesConverted, Zenon DEF Passed
  <2> HIDE DEF args, f
  <2>5. /\ Len(items) = Len(args) /\ Len(frame[r]) = Len(args) + 2
        /\ frame[r][1] = f /\ frame[r][2] = Ops
        /\ \A i \in 1 .. Len(args) : frame[r][i + 2] = Item(args[i], r)
    BY <2>2, <2>3
  <2>6. ASSUME NEW k \in Passed(r)
        PROVE  InFrame(r, Owned(k, r))
    <3>1. PICK i \in 1 .. Len(args) : args[i] = k
      BY <2>4, Zenon DEF Names
    <3>2. k \in IsOwned
      BY <2>4 DEF Structures, IsOwned
    <3>3. frame[r][i + 2] = Owned(k, r)
      BY <2>5, <3>1, <3>2 DEF Item
    <3>4. i + 2 \in 1 .. Len(frame[r])
      BY <2>2, <2>5, <3>1
    <3>5. QED
      BY <3>3, <3>4, Zenon DEF InFrame
  <2>7. ASSUME NEW q \in Requests \ {r}, NEW k \in IsOwned,
               NEW i \in 1 .. Len(frame[r])
        PROVE  frame[r][i] # Owned(k, q)
    <3>1. k # "function" /\ k # "ops" /\ k # "arg"
      BY DEF IsOwned
    <3>2. CASE i = 1
      BY <2>5, <3>1, <3>2 DEF Function, Owned, f
    <3>3. CASE i = 2
      <4>1. Ops[1] = "ops" /\ Owned(k, q)[1] = k
        BY DEF Ops, Owned
      <4>2. frame[r][i] = Ops
        BY <2>5, <3>3
      <4>3. QED
        BY <3>1, <4>1, <4>2, Zenon
    <3>4. CASE i > 2
      <4>1. i - 2 \in 1 .. Len(args) /\ i = (i - 2) + 2
        BY <2>2, <2>5, <3>4
      <4>2. frame[r][i] = Item(args[i - 2], r)
        BY <2>5, <4>1
      <4>3. QED
        BY <3>1, <4>2 DEF Item, Owned
    <3>5. QED
      BY <3>2, <3>3, <3>4
  <2>8. QED
    BY <2>5, <2>6, <2>7 DEF InFrame, args, f
<1>2. QED
  BY <1>1, IInvAlways, PTL

(***************************************************************************)
(* No script can make fill write to a directory buffer outside the readdir *)
(* it belongs to, whichever handles it keeps and whenever it calls them.   *)
(***************************************************************************)
THEOREM FillInScopeAlways == Spec => FillInScope
<1> DEFINE Enters(h) ==
      filled'[h] # filled[h] => pc[h] = "callback" /\ pc'[h] = "callback"
<1>1. ASSUME IInv, [Next]_vars
      PROVE  [\A h \in Requests : Enters(h)]_vars
  <2>1. ASSUME NEW r \in Requests, Fill(r), NEW h \in Requests,
               filled'[h] # filled[h]
        PROVE  pc[h] = "callback" /\ pc'[h] = "callback"
    <3>1. /\ pc[r] = "callback" /\ pc' = [pc EXCEPT ![r] = "callback"]
          /\ \E g \in Handles(r) : /\ scope[g] = "open"
                                   /\ filled' = [filled EXCEPT ![g] = @ + 1]
      BY <2>1 DEF Fill, Goto
    <3>2. h \in Handles(r) /\ scope[h] = "open"
      BY <1>1, <2>1, <3>1 DEF IInv, Types
    <3>3. h = r
      <4>1. SUFFICES ASSUME h # r
                     PROVE  FALSE
        OBVIOUS
      <4>2. h \in saved[lease[r]]
        BY <3>2, <4>1 DEF Handles
      <4>3. lease[r] \in States
        BY <1>1, <3>1 DEF IInv, Types, Borrowed, Working
      <4>4. pc[h] # "done"
        BY <1>1, <3>2 DEF IInv, Fills
      <4>5. lease[h] = lease[r]
        BY <1>1, <4>2, <4>3, <4>4 DEF IInv, Fills
      <4>6. QED
        BY <1>1, <4>1, <4>3, <4>5, OperationsAssumption DEF IInv, Borrowed
    <3>4. QED
      BY <1>1, <3>1, <3>3 DEF IInv, Types
  <2>2. ASSUME NEW r \in Requests, Step(r), ~Fill(r)
        PROVE  filled' = filled
    BY <2>2 DEF Step, Arrive, Invoke, NotDefined, Keep, Assign, Answer,
                AnswerAborts, Raise, ResetScope, WriteBack, WriteBackAborts,
                RestoreTop, CloseState, Abort
  <2>3. CASE UNCHANGED vars
    BY <2>3
  <2>4. QED
    BY <1>1, <2>1, <2>2, <2>3 DEF Next, Done
<1>2. QED
  BY <1>1, IInvAlways, PTL DEF Spec, FillInScope

(***************************************************************************)
(* When a handler restores the stack, the structures of libfuse hold what  *)
(* the callback left in the tables, for every operation and every answer.  *)
(***************************************************************************)
THEOREM WrittenBackAlways == Spec => []WrittenBack
<1>1. IInv => WrittenBack
  BY DEF IInv
<1>2. QED
  BY <1>1, IInvAlways, PTL

(***************************************************************************)
(* No result, however long, makes a handler write past the buffer it was   *)
(* given; readlink leaves room for the zero that ends the string.          *)
(***************************************************************************)
THEOREM CopyFitsAlways == Spec => []CopyFits
<1>1. IInv => CopyFits
  BY DEF IInv, Copies, CopyFits
<1>2. QED
  BY <1>1, IInvAlways, PTL

(***************************************************************************)
(* For every operation, every script and every interleaving of requests    *)
(* the handlers implement the service of fuse.h: the script is passed      *)
(* exactly the parameters of the prototype, and the structures come back   *)
(* as it left them.                                                        *)
(***************************************************************************)
THEOREM ImplementsApiAlways == Spec => ImplementsApi
<1>1. Init => Api!Init
  BY InitApi
<1>2. IInv /\ IInv' /\ [Next]_vars => [Api!Next]_Api!vars
  BY StepApi
<1>3. QED
  BY <1>1, <1>2, IInvAlways, PTL DEF Spec, ImplementsApi, Api!Spec
=============================================================================
