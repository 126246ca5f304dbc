------------------------------- MODULE Closure -------------------------------
(***************************************************************************)
(* A script calls the C++ functions of core.cpp, util.cpp and handle.cpp   *)
(* through the closures of luaX.hpp.  A function is a sequence of          *)
(* statements; closure() remembers the top, calls it, and makes of its end *)
(* what the caller receives:                                               *)
(*                                                                         *)
(*   Execute     one statement of the function                             *)
(*   ReturnInt, ReturnVoid      how many of the values on the stack are    *)
(*                              results                                    *)
(*   CatchFailure, CatchError   a C++ exception becomes nil and a message, *)
(*                              or a Lua error, as the policy says         *)
(*   LuaError    a Lua error passes through the closure                    *)
(***************************************************************************)
EXTENDS Programs, FiniteSets

CONSTANT
  Inputs     \* the values a script may pass to a function of util.cpp

VARIABLES
  lua,       \* how this Lua keeps numbers: "integer" (5.3) or "double"
  policy,    \* the global dromozoa_failure_policy_is_error
  fn,        \* the function called
  args,      \* what the script passed
  pc,        \* the next statement of fn, 0 between two calls
  m,         \* the machine fn works on
  outcome,   \* what the caller receives: "", "values" or "error"
  values     \* the results, or the message of the error

vars == <<lua, policy, fn, args, pc, m, outcome, values>>
-----------------------------------------------------------------------------
\* Every character of the string, one up or one down.
Shifted == <<Str("shifted")>>

Statement == Program(fn)[pc]

\* The machines a statement may leave.
Effect(st) ==
  CASE st.do = "push" -> {luaX_push(m, st.values)}
    [] st.do = "push_local" -> {luaX_push(m, <<Integer(m.local)>>)}
    [] st.do = "push_success" -> {luaX_push_success(m)}
    [] st.do = "push_value" -> {luaX_push(m, <<At(m, st.index)>>)}
    [] st.do = "pop" -> {Pop(m, 1)}
    [] st.do = "new_table" -> {NewTable(m)}
    [] st.do = "new_metatable" -> {NewMetatable(m, st.name)}
    [] st.do = "set_metatable" -> {luaX_set_metatable(m, st.name)}
    [] st.do = "set_each" ->
         {LET After[k \in Nat] ==
                IF k = 0 THEN m
                ELSE luaX_set_field(After[k - 1], -1, Integer(k), Integer(k))
          IN After[IF m.local < 0 THEN 0 ELSE m.local]}
    [] st.do = "set_field" -> {luaX_set_field(m, st.index, st.key, st.value)}
    [] st.do = "set_field_top" -> {SetFieldTop(m, st.index, st.key)}
    [] st.do = "set_metafield" ->
         {luaX_set_metafield(m, st.index, st.key, st.value)}
    [] st.do = "set_metafield_top" -> {SetMetafieldTop(m, st.index, st.key)}
    [] st.do = "field_error" -> {luaX_field_error(m, "not an integer")}
    [] st.do = "save_top" ->
         {LET after == luaX_top_saver(luaX_push(m, <<Integer(4)>>), Top(m))
          IN luaX_push(after, <<Integer(Top(after) - Top(m))>>)}
    [] st.do = "is_true" -> {luaX_push(m, <<Bool(luaX_is_true(At(m, 1)))>>)}
    [] st.do = "is_false" -> {luaX_push(m, <<Bool(luaX_is_false(At(m, 1)))>>)}
    [] st.do = "is_integer" ->
         {luaX_push(m, <<Bool(b)>>) : b \in luaX_is_integer(At(m, 1))}
    [] st.do = "to_string" ->
         {IF IsString(At(m, 1)) THEN luaX_push(luaX_to_string(m, 1), Shifted)
          ELSE m}
    [] st.do = "check_string" ->
         {IF IsString(At(m, 1)) THEN luaX_push(luaX_to_string(m, 1), Shifted)
          ELSE Raise(m, "string expected")}
    [] st.do = "check" -> luaX_check_integer(m, lua, 1, st.type)
    [] st.do = "opt" -> luaX_opt_integer(m, lua, 1, st.default, st.type)
    [] st.do = "check_udata" -> {luaX_check_udata(m, 1, st.names)}
    [] st.do = "check_field" ->
         luaX_check_integer_field(m, lua, 1, st.key, st.type)
    [] OTHER ->
         luaX_opt_integer_field(m, lua, 1, st.key, st.default, st.type)

Ends == {"return", "void", "throw", "failure"}
-----------------------------------------------------------------------------
(***************************************************************************)
(* The script.  A table it passes is the first of the heap and holds one   *)
(* of the inputs in the field the functions look at.                       *)
(***************************************************************************)
Scalars == {v \in Inputs : v.type # (IF lua = "integer" THEN "" ELSE "integer")}

WithTable(v) ==
  [Machine(<<Table(1)>>) EXCEPT
     !.heap = <<[key \in {Str("nice"), Str("tv_nsec")} |-> v]>>,
     !.meta = <<Nil>>]

Init ==
  /\ lua \in {"integer", "double"}
  /\ policy \in BOOLEAN
  /\ fn = "push_none" /\ args = <<>> /\ pc = 0
  /\ m = Machine(<<>>)
  /\ outcome = "" /\ values = <<>>

Call ==
  /\ pc = 0 /\ outcome = ""
  /\ fn' \in Functions
  /\ m' \in IF fn' \in DOMAIN Loaders THEN {Machine(<<Str("name")>>)}
            ELSE {Machine(<<>>)} \union {Machine(<<v>>) : v \in Scalars}
                 \union {WithTable(v) : v \in Scalars}
  /\ args' = m'.stack
  /\ pc' = 1
  /\ UNCHANGED <<lua, policy, outcome, values>>

\* The script drops what it received.
Forget ==
  /\ outcome # ""
  /\ outcome' = "" /\ values' = <<>> /\ args' = <<>> /\ fn' = "push_none"
  /\ m' = Machine(<<>>)
  /\ UNCHANGED <<lua, policy, pc>>

SetPolicy ==
  /\ pc = 0 /\ outcome = ""
  /\ policy' = ~policy
  /\ UNCHANGED <<lua, fn, args, pc, m, outcome, values>>
-----------------------------------------------------------------------------
Execute ==
  /\ pc # 0 /\ m.error = "" /\ Statement.do \notin Ends
  /\ m' \in Effect(Statement)
  /\ pc' = pc + 1
  /\ UNCHANGED <<lua, policy, fn, args, outcome, values>>

\* closure() hands back the last n values of the stack.
Deliver(machine, n) ==
  /\ outcome' = "values"
  /\ values' = SubSeq(machine.stack, Top(machine) - n + 1, Top(machine))
  /\ m' = machine
  /\ pc' = 0
  /\ UNCHANGED <<lua, policy, fn, args>>

Escape(message) ==
  /\ outcome' = "error"
  /\ values' = <<message>>
  /\ pc' = 0
  /\ UNCHANGED <<lua, policy, fn, args, m>>

ReturnInt ==
  /\ pc # 0 /\ m.error = "" /\ Statement.do = "return"
  /\ Deliver(m, Statement.count)

ReturnVoid ==
  /\ pc # 0 /\ m.error = "" /\ Statement.do = "void"
  /\ Deliver(m, Top(m) - Len(args))

\* luaX_failure<> and luaX_failure<int>: two or three results.
Report(st) ==
  LET code == IF st.code = Absent THEN <<>> ELSE <<Integer(st.code)>>
      report == luaX_push(SetTop(m, Len(args)), <<Nil, st.message>> \o code)
  IN Deliver(report, 2 + Len(code))

CatchFailure ==
  /\ pc # 0 /\ m.error = "" /\ Statement.do = "failure"
  /\ IF policy THEN Escape(Statement.message) ELSE Report(Statement)

CatchError ==
  /\ pc # 0 /\ m.error = "" /\ Statement.do = "throw"
  /\ Escape(Statement.message)

LuaError ==
  /\ pc # 0 /\ m.error # ""
  /\ Escape(Str(m.error))

Next ==
  \/ Call \/ Forget \/ SetPolicy \/ Execute
  \/ ReturnInt \/ ReturnVoid \/ CatchFailure \/ CatchError \/ LuaError

Spec == Init /\ [][Next]_vars
-----------------------------------------------------------------------------
(***************************************************************************)
(* What a caller of a function may count on, whatever it passed: the       *)
(* values the function is written to produce and no other, a table with    *)
(* every field that was assigned, a handle only for a userdata of its own  *)
(* two metatables, a failure as nil, its message and its code, or as an    *)
(* error if the policy says so.                                            *)
(***************************************************************************)
Refused == Str("number expected")

Fails(message, code) ==
  IF policy THEN outcome = "error" /\ values = <<Str(message)>>
  ELSE outcome = "values" /\ values = <<Nil, Str(message)>> \o code

\* The field of a table of the machine.
Of(t, name) == IF t.type = "table" THEN Get(m.heap[t.n], Str(name)) ELSE Nil

\* The one result is a table of modules, and each holds its functions.
Opens(modules) ==
  /\ Len(values) = 1
  /\ \A name \in DOMAIN modules : \A k \in 1 .. Len(modules[name]) :
       Of(Of(values[1], name), modules[name][k]) = Function(modules[name][k])

\* Objects of a class find its methods and are finalized.
Classes(names) ==
  \A name \in names :
    /\ Of(Get(m.registry, name), "__index") = Of(values[1], name)
    /\ Of(Get(m.registry, name), "__gc") = Function("__gc")

\* is_integer says whether a number is a lua_Integer, although it converts
\* numbers that do not fit, except for the double just above the largest
\* lua_Integer: where the conversion saturates it passes for an integer.
IsIntegerRight ==
  args[1] # Double(2 * (Huge + 1)) =>
    values = <<Bool(\/ args[1].type = "integer"
                    \/ args[1].type = "double"
                       /\ \E n \in lua_Integer : args[1].n = 2 * n)>>

Promise ==
  CASE fn \in {"result_int", "result_void"} -> values = Five
    [] fn \in {"push_none", "unexpected"} -> values = <<>>
    [] fn = "push_nil" -> values = <<Nil>>
    [] fn = "push_enum" -> values = <<Integer(4)>>
    [] fn = "push_string" -> Len(values) = 14
    [] fn = "push_success" ->
         values = <<IF args # <<>> /\ ToBoolean(args[1]) THEN args[1]
                    ELSE Bool(TRUE)>>
    [] fn = "top_saver" -> values = <<Integer(0)>>
    [] fn = "field_error" -> outcome = "error"
    [] fn \in {"failure1", "failure3"} -> Fails(fn, <<>>)
    [] fn \in {"failure2", "failure4"} -> Fails(fn, <<Integer(6)>>)
    [] fn = "throw" -> outcome = "error" /\ values = <<Str("runtime_error")>>
    [] fn \in {"is_true", "is_false"} ->
         values = <<Bool(args = <<Bool(fn = "is_true")>>)>>
    [] fn = "is_integer" /\ args # <<>> -> IsIntegerRight
    [] fn = "to_string" ->
         values = IF args # <<>> /\ IsString(args[1]) THEN Shifted ELSE <<>>
    [] fn = "check_string" ->
         IF args # <<>> /\ IsString(args[1]) THEN values = Shifted
         ELSE outcome = "error"
    [] fn = "get" ->
         IF args # <<>> /\ args[1].type = "userdata"
            /\ args[1].s \in {"handle_ref", "handle"}
         THEN values = <<Integer(args[1].n)>> ELSE outcome = "error"
    [] fn = "set_field" ->
         outcome = "values" =>
           /\ Len(values) = 1
           /\ Of(values[1], "foo") = Str("a") /\ Of(values[1], "baz") = Str("b")
           /\ \A k \in 1 .. Huge :
                Get(m.heap[values[1].n], Integer(k)) =
                  IF k <= m.local THEN Integer(k) ELSE Nil
    [] fn = "set_metafield" ->
         /\ outcome = "values" /\ Len(values) = 1
         /\ LET meta == m.meta[values[1].n]
            IN Of(meta, "a") = Integer(4) /\ Of(meta, "b") = Str("foo")
    [] fn = "luaopen_bind" -> outcome = "values" /\ Opens(BindModules)
                              /\ Classes({"handle", "callback"})
    [] fn = "luaopen_fuse" -> outcome = "values" /\ Opens(FuseModules)
                              /\ Classes({"state_manager"})
                              /\ \A k \in DOMAIN Capabilities :
                                   Of(values[1], Capabilities[k][1])
                                     = Integer(Capabilities[k][2])
    [] fn = "get_context" ->
         /\ outcome = "values" /\ Len(values) = 1
         /\ \A k \in DOMAIN Context : Of(values[1], Context[k]) = Integer(k)
    [] OTHER -> TRUE

CallerSees == outcome # "" => Promise

(***************************************************************************)
(* What a check lets through lies between its bounds and is the number     *)
(* that was given, cut to an integer by a Lua without integers, or the     *)
(* default if nothing was given.  The exception is a field that is no      *)
(* integer in a Lua with integers: it is read as 0, not refused.           *)
(***************************************************************************)
Bounds(f) ==
  CASE f \in {"check_int16", "opt_int16"} -> Types.int16
    [] f \in {"check_uint16", "opt_uint16"} -> Types.uint16
    [] f \in {"check_int_range", "opt_int_range"} -> Types.byte
    [] f = "check_int_field" -> Types.nice
    [] OTHER -> Types.nanosecond

IsField(f) == f \in {"check_int_field", "opt_int32_field"}

Given ==
  IF args = <<>> THEN Nil
  ELSE IF IsField(fn)
  THEN Of(args[1], IF fn = "check_int_field" THEN "nice" ELSE "tv_nsec")
  ELSE args[1]

Same(n, v) ==
  \/ v = Nil /\ n = IF fn = "opt_int32_field" THEN 0 ELSE Default
  \/ v.type \in {"integer", "digits"} /\ n = v.n
  \/ v.type = "double" /\ 2 * n = v.n
  \/ v.type = "double" /\ lua = "double" /\ n = Whole(v.n)
  \/ v.type \in {"double", "infinity"} /\ lua = "integer" /\ IsField(fn) /\ n = 0

Checks == {"check_int16", "check_uint16", "check_int_range", "opt_int16",
           "opt_uint16", "opt_int_range", "check_int_field", "opt_int32_field"}

LetThrough ==
  fn \in Checks /\ outcome = "values" =>
    /\ Len(values) = 1
    /\ values[1].n \in Bounds(fn).low .. Bounds(fn).high
    /\ Same(values[1].n, Given)
=============================================================================
