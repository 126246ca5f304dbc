------------------------------ MODULE LuaStack ------------------------------
(***************************************************************************)
(* The helpers of luaX.hpp that work on a Lua stack, as operators on a     *)
(* machine m: its stack, the fields of its tables (heap), the metatable of *)
(* each table (meta), the integer a C function keeps in a local variable,  *)
(* and the Lua error that ended it, "" if none did.                        *)
(*                                                                         *)
(* The numbers of a Lua without integers are doubles.  Every double here   *)
(* is counted in halves, so that fractions exist.  lua_Integer has the     *)
(* values -Huge - 1 .. Huge; as in a 64 bit Lua, of the integers that a    *)
(* conversion of doubles can give only Huge is no double.                  *)
(***************************************************************************)
EXTENDS Integers, Sequences, SequencesExt

CONSTANT Huge      \* the largest lua_Integer

lua_Integer == -Huge - 1 .. Huge

\* Values: n is an integer, the halves of a double or a table; s is a text.
Value(type, n, s) == [type |-> type, n |-> n, s |-> s]
Nil == Value("nil", 0, "")
Bool(b) == Value("boolean", IF b THEN 1 ELSE 0, "")
Integer(n) == Value("integer", n, "")
Double(halves) == Value("double", halves, "")
Infinity(sign) == Value("infinity", sign, "")
Str(s) == Value("string", 0, s)
Digits(n) == Value("digits", n, "")            \* a string that is a number
Table(t) == Value("table", t, "")
Function(s) == Value("function", 0, s)
\* An object n whose metatable has the name s, "" if there is none.
Userdata(n, s) == Value("userdata", n, s)

\* The fields of a table.
Get(fields, key) == IF key \in DOMAIN fields THEN fields[key] ELSE Nil

With(fields, key, v) ==
  [k \in DOMAIN fields \union {key} |-> IF k = key THEN v ELSE fields[k]]

Machine(args) ==
  [stack |-> args, heap |-> <<>>, meta |-> <<>>, registry |-> <<>>,
   local |-> 0, error |-> ""]
-----------------------------------------------------------------------------
(***************************************************************************)
(* The Lua API, as this code uses it.                                      *)
(***************************************************************************)
Top(m) == Len(m.stack)
Slot(m, i) == IF i < 0 THEN Top(m) + i + 1 ELSE i
At(m, i) == IF Slot(m, i) \in 1 .. Top(m) THEN m.stack[Slot(m, i)] ELSE Nil

Raise(m, what) == [m EXCEPT !.error = what]
SetTop(m, n) == [m EXCEPT !.stack = SubSeq(@, 1, n)]
Pop(m, n) == SetTop(m, Top(m) - n)

NewTable(m) ==
  [m EXCEPT !.stack = Append(@, Table(Len(m.heap) + 1)),
            !.heap = Append(@, <<>>),
            !.meta = Append(@, Nil)]

\* lua_settable: the value at the top and the key below it leave the stack.
SetTable(m, i) ==
  LET t == At(m, i)
  IN IF t.type # "table" THEN Raise(m, "attempt to index")
     ELSE Pop([m EXCEPT !.heap[t.n] = With(@, At(m, -2), At(m, -1))], 2)

\* A string, and an object of a class, are indexed like the table of their
\* methods; none of these is asked for here.
HasMethods(v) ==
  v.type \in {"string", "digits"} \/ (v.type = "userdata" /\ v.s # "")

GetTable(m, i) ==
  LET t == At(m, i)
      field == IF t.type = "table" THEN Get(m.heap[t.n], At(m, -1)) ELSE Nil
  IN IF t.type = "table" \/ HasMethods(t)
     THEN [m EXCEPT !.stack[Top(m)] = field]
     ELSE Raise(m, "attempt to index")

\* luaL_newmetatable, for a name that is not registered yet.
NewMetatable(m, name) ==
  LET made == NewTable(m)
  IN [made EXCEPT !.registry = With(@, name, At(made, -1))]

SetMetatable(m, i) == Pop([m EXCEPT !.meta[At(m, i).n] = At(m, -1)], 1)

IsNumber(v) == v.type \in {"integer", "double", "infinity", "digits"}
IsString(v) == v.type = "string" \/ IsNumber(v)
ToBoolean(v) == v.type # "nil" /\ v # Bool(FALSE)

(***************************************************************************)
(* A double becomes a lua_Integer.  Where it does not fit the conversion   *)
(* is undefined: x86 gives the least integer, ARM the nearest.             *)
(***************************************************************************)
Whole(halves) == IF halves >= 0 THEN halves \div 2 ELSE -((-halves) \div 2)

Cast(v) ==
  IF v.type # "infinity" /\ Whole(v.n) \in lua_Integer THEN {Whole(v.n)}
  ELSE {-Huge - 1, IF v.n < 0 THEN -Huge - 1 ELSE Huge}

\* An integer as a double, in halves.
ToDouble(n) == IF n = Huge THEN 2 * (Huge + 1) ELSE 2 * n

\* The integers luaL_checkinteger may take v for; none means a Lua error.
\* A Lua with integers refuses a double that is not one.
CheckInteger(lua, v) ==
  CASE v.type \in {"integer", "digits"} -> {v.n}
    [] v.type = "double" /\ lua = "integer" ->
         {Whole(v.n)} \intersect {n \in lua_Integer : 2 * n = v.n}
    [] v.type \in {"double", "infinity"} /\ lua = "double" -> Cast(v)
    [] OTHER -> {}

\* lua_tointeger answers 0 where luaL_checkinteger raises.
ToInteger(lua, v) ==
  IF CheckInteger(lua, v) = {} THEN {0} ELSE CheckInteger(lua, v)
-----------------------------------------------------------------------------
(***************************************************************************)
(* luaX.hpp.                                                               *)
(***************************************************************************)
luaX_push(m, values) == [m EXCEPT !.stack = @ \o values]

luaX_push_success(m) ==
  luaX_push(m, <<IF ToBoolean(At(m, 1)) THEN At(m, 1) ELSE Bool(TRUE)>>)

\* Faulty variant of luaX_abs_index: a relative index stays relative.
RelativeIndex(m, i) == i

luaX_abs_index(m, i) == IF i < 0 /\ Top(m) >= -i THEN Top(m) + i + 1 ELSE i

\* The field is the value at the top, which is popped.
SetFieldTop(m, i, key) ==
  LET index == luaX_abs_index(m, i)
      pushed == luaX_push(m, <<key>>)
  IN Pop(SetTable(luaX_push(pushed, <<At(pushed, -2)>>), index), 1)

luaX_set_field(m, i, key, value) ==
  LET index == luaX_abs_index(m, i)
  IN SetTable(luaX_push(m, <<key, value>>), index)

luaX_set_metatable(m, name) ==
  SetMetatable(luaX_push(m, <<Get(m.registry, name)>>), -2)

\* lua_getmetatable, or a new table if there is none.
PushMetatable(m, index) ==
  LET meta == m.meta[At(m, index).n]
  IN IF meta = Nil THEN NewTable(m) ELSE luaX_push(m, <<meta>>)

SetMetafieldTop(m, i, key) ==
  LET index == luaX_abs_index(m, i)
      pushed == luaX_push(PushMetatable(m, index), <<key>>)
      stored == SetTable(luaX_push(pushed, <<At(pushed, -3)>>), -3)
  IN Pop(SetMetatable(stored, index), 1)

luaX_set_metafield(m, i, key, value) ==
  LET index == luaX_abs_index(m, i)
  IN SetMetatable(luaX_set_field(PushMetatable(m, index), -1, key, value), index)

luaX_field_error(m, what) == Raise(m, what)

luaX_is_true(v) == v.type = "boolean" /\ ToBoolean(v)
luaX_is_false(v) == v.type = "boolean" /\ ~ToBoolean(v)

\* The answers luaX_is_integer may give.
luaX_is_integer(v) ==
  CASE v.type = "integer" -> {TRUE}
    [] v.type = "double" -> {v.n = ToDouble(n) : n \in Cast(v)}
    [] OTHER -> {FALSE}

\* A C integer type, or the part of it between two bounds.
CType(low, high) == [low |-> low, high |-> high]

\* Faulty variant of luaX_integer_traits: the upper bound alone is tested.
TraitsUpper(n, t) == n <= t.high

\* luaX_integer_traits::convert: does the integer n fit?
luaX_integer_traits(n, t) == t.low <= n /\ n <= t.high

\* The machines after a check of the integers ns against t, which leaves the
\* result in the local variable.
Fit(m, ns, t) ==
  {IF luaX_integer_traits(n, t) THEN [m EXCEPT !.local = n]
   ELSE Raise(m, "out of bounds") : n \in ns}

luaX_check_integer(m, lua, arg, t) ==
  LET ns == CheckInteger(lua, At(m, arg))
  IN IF ns = {} THEN {Raise(m, "number expected")} ELSE Fit(m, ns, t)

luaX_opt_integer(m, lua, arg, default, t) ==
  IF At(m, arg) = Nil THEN Fit(m, {default}, t)
  ELSE luaX_check_integer(m, lua, arg, t)

\* The field is pushed in place of its key, read, and popped.
luaX_check_integer_field(m, lua, i, key, t) ==
  LET got == GetTable(luaX_push(m, <<key>>), luaX_abs_index(m, i))
      field == At(got, -1)
  IN IF got.error # "" THEN {got}
     ELSE IF IsNumber(field) THEN Fit(Pop(got, 1), ToInteger(lua, field), t)
     ELSE {luaX_field_error(Pop(got, 1), "not an integer")}

luaX_opt_integer_field(m, lua, i, key, default, t) ==
  LET got == GetTable(luaX_push(m, <<key>>), luaX_abs_index(m, i))
      field == At(got, -1)
  IN IF got.error = "" /\ field = Nil THEN Fit(Pop(got, 1), {default}, t)
     ELSE luaX_check_integer_field(m, lua, i, key, t)

\* lua_tolstring turns a number into a string where it is on the stack.
luaX_to_string(m, i) ==
  [m EXCEPT !.stack[Slot(m, i)] = IF IsNumber(@) THEN Str("number") ELSE @]

\* luaX_to_udata_impl: is the metatable at the top the one of this name?
IsNamed(m, name) ==
  LET pushed == luaX_push(m, <<Str(name)>>) IN At(pushed, -1) = At(pushed, -2)

\* Leaves the object in the local variable, 0 if it is none of these names.
luaX_to_udata(m, i, names) ==
  LET v == At(m, i)
      pushed == luaX_push(m, <<Str(v.s)>>)
      hit == \E k \in 1 .. Len(names) : IsNamed(pushed, names[k])
  IN IF v.type = "userdata" /\ v.s # ""
     THEN Pop([pushed EXCEPT !.local = IF hit THEN v.n ELSE 0], 1)
     ELSE m

\* luaL_checkudata for the last name if none of the others fits.
luaX_check_udata(m, i, names) ==
  LET tried == luaX_to_udata(m, i, Front(names))
      last == luaX_to_udata(tried, i, <<Last(names)>>)
  IN IF tried.local # 0 THEN tried
     ELSE IF last.local # 0 THEN last ELSE Raise(tried, "userdata expected")

\* luaX_top_saver around a block that ends with machine m.
luaX_top_saver(m, top) == SetTop(m, top)
=============================================================================
