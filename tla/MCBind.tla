------------------------------- MODULE MCBind -------------------------------
(***************************************************************************)
(* Instance of Bind: every integer of a four bit Lua and every double      *)
(* around and beyond it, three threads, and messages that fit at once,     *)
(* after one doubling, after two, or do not exist.                         *)
(***************************************************************************)
EXTENDS Bind

V == INSTANCE LuaStack   \* the values

MCTypes ==
  [int |-> V!CType(-4, 3), int16 |-> V!CType(-4, 3),
   uint16 |-> V!CType(0, Huge - 1), byte |-> V!CType(0, 5),
   nice |-> V!CType(-3, 2), nanosecond |-> V!CType(0, 6)]

MCInputs ==
  {V!Nil, V!Bool(TRUE), V!Bool(FALSE), V!Str("foo"),
   V!Infinity(1), V!Infinity(-1)}
  \union {V!Integer(n) : n \in V!lua_Integer}
  \union {V!Digits(n) : n \in {-1, 0, 3, 5}}
  \union {V!Double(h) : h \in (-20 .. 20) \ {2 * Huge}}
  \union {V!Userdata(1, "handle"), V!Userdata(2, "handle_ref"),
          V!Userdata(3, "callback"), V!Userdata(4, "")}
=============================================================================
