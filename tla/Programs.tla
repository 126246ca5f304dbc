------------------------------ MODULE Programs ------------------------------
(***************************************************************************)
(* The functions of core.cpp, util.cpp and handle.cpp that a script can    *)
(* call, and those that build the tables of the libraries, as sequences of *)
(* statements over a Lua stack.  Numbers are scaled down with the types    *)
(* that hold them.                                                         *)
(***************************************************************************)
EXTENDS LuaStack

CONSTANTS
  Absent,    \* no code
  Types,     \* the integer types of util.cpp: int, int16, uint16, byte,
             \* nice and nanosecond, each with its bounds
  Default    \* what the functions opt_* of util.cpp answer for nothing

(***************************************************************************)
(* Statements.                                                             *)
(***************************************************************************)
Push(vs) == [do |-> "push", values |-> vs]
PushLocal == [do |-> "push_local"]
Do(what) == [do |-> what]
Field(i, key, v) == [do |-> "set_field", index |-> i, key |-> key, value |-> v]
FieldTop(i, key) == [do |-> "set_field_top", index |-> i, key |-> key]
PushValue(i) == [do |-> "push_value", index |-> i]
NewMeta(s) == [do |-> "new_metatable", name |-> s]
SetMeta(s) == [do |-> "set_metatable", name |-> s]
Meta(i, key, v) ==
  [do |-> "set_metafield", index |-> i, key |-> key, value |-> v]
MetaTop(i, key) == [do |-> "set_metafield_top", index |-> i, key |-> key]
Check(t) == [do |-> "check", type |-> t]
Opt(d, t) == [do |-> "opt", default |-> d, type |-> t]
CheckField(key, t) == [do |-> "check_field", key |-> key, type |-> t]
OptField(key, d, t) ==
  [do |-> "opt_field", key |-> key, default |-> d, type |-> t]
Udata(names) == [do |-> "check_udata", names |-> names]
Return(n) == [do |-> "return", count |-> n]
Void == [do |-> "void"]
Throw(what) == [do |-> "throw", message |-> Str(what)]
Failure(what, code) ==
  [do |-> "failure", message |-> Str(what), code |-> code]

Five == <<Nil, Double(1), Integer(4), Bool(TRUE), Str("foo")>>

CorePrograms ==
  [result_int  |-> <<Push(Five), Return(5)>>,
   result_void |-> <<Push(Five), Void>>,
   push_none   |-> <<Void>>,
   push_nil    |-> <<Push(<<Nil>>), Void>>,
   push_enum   |-> <<Push(<<Integer(4)>>), Void>>,
   push_string |-> <<Push([k \in 1 .. 5 |-> Str("a")]), Push(<<Str("b")>>),
                     Push([k \in 1 .. 4 |-> Str("foo")]),
                     Push([k \in 1 .. 4 |-> Str("baz")]), Void>>,
   push_success |-> <<Do("push_success"), Void>>,
   unexpected   |-> <<Void>>,
   throw        |-> <<Throw("runtime_error")>>,
   field_error  |-> <<Do("field_error")>>,
   set_field    |-> <<Check(Types.int), Do("new_table"), Do("set_each"),
                      Field(-1, Str("foo"), Str("a")), Push(<<Str("b")>>),
                      FieldTop(-2, Str("baz")), Void>>,
   set_metafield |-> <<Do("new_table"), Meta(-1, Str("a"), Integer(4)),
                       Push(<<Str("foo")>>), MetaTop(-2, Str("b")), Void>>,
   top_saver |-> <<Do("save_top"), Void>>,
   failure1  |-> <<Push(<<Integer(4)>>), Failure("failure1", Absent)>>,
   failure2  |-> <<Push(<<Integer(4)>>), Failure("failure2", 6)>>,
   failure3  |-> <<Push(<<Integer(4)>>), Failure("failure3", Absent)>>,
   failure4  |-> <<Push(<<Integer(4)>>), Failure("failure4", 6)>>]

UtilPrograms ==
  [is_true         |-> <<Do("is_true"), Void>>,
   is_false        |-> <<Do("is_false"), Void>>,
   is_integer      |-> <<Do("is_integer"), Void>>,
   check_int16     |-> <<Check(Types.int16), PushLocal, Void>>,
   check_uint16    |-> <<Check(Types.uint16), PushLocal, Void>>,
   check_int_range |-> <<Check(Types.byte), PushLocal, Void>>,
   opt_int16       |-> <<Opt(Default, Types.int16), PushLocal, Void>>,
   opt_uint16      |-> <<Opt(Default, Types.uint16), PushLocal, Void>>,
   opt_int_range   |-> <<Opt(Default, Types.byte), PushLocal, Void>>,
   check_int_field |-> <<CheckField(Str("nice"), Types.nice), PushLocal,
                         Void>>,
   opt_int32_field |-> <<OptField(Str("tv_nsec"), 0, Types.nanosecond),
                         PushLocal, Void>>,
   to_string       |-> <<Do("to_string"), Void>>,
   check_string    |-> <<Do("check_string"), Void>>]

HandlePrograms ==
  [get |-> <<Udata(<<"handle_ref", "handle">>), PushLocal, Void>>]

\* The context of a request; uid, gid, pid and umask are its numbers.
Context == <<"uid", "gid", "pid", "umask">>

FusePrograms ==
  [get_context |->
     <<Do("new_table")>>
     \o [k \in 1 .. Len(Context) |-> Field(-1, Str(Context[k]), Integer(k))]
     \o <<Void>>]

(***************************************************************************)
(* The functions that build the tables of the libraries.  Every module is  *)
(* a table of functions that becomes a field of the library's table; a     *)
(* module with a class also registers a metatable for its objects.         *)
(***************************************************************************)
Fields(names) ==
  [k \in 1 .. Len(names) |-> Field(-1, Str(names[k]), Function(names[k]))]

Module(name, functions) ==
  <<Do("new_table")>> \o Fields(functions) \o <<FieldTop(-2, Str(name))>>

MethodsOf(name) ==
  <<NewMeta(name), PushValue(-2), FieldTop(-2, Str("__index"))>>

Finalized(name) ==
  MethodsOf(name) \o Fields(<<"__gc">>) \o <<Do("pop")>>

Callable == <<Meta(-1, Str("__call"), Function("__call"))>>

BindModules ==
  [atomic       |-> <<"test">>,
   callback     |-> <<"run">>,
   core         |-> <<"result_int", "result_void", "push_none", "push_nil",
                      "push_enum", "push_string", "push_success", "unexpected",
                      "throw", "field_error1", "field_error2", "field_error3",
                      "field_error4", "set_field", "set_metafield",
                      "top_saver", "failure1", "failure2", "failure3",
                      "failure4">>,
   handle       |-> <<"get", "clear_destructed", "is_destructed">>,
   mutex        |-> <<"test">>,
   scoped_ptr   |-> <<"test">>,
   system_error |-> <<"test_errno_saver", "test_compat_strerror",
                      "test_system_error">>,
   thread       |-> <<"test">>,
   util         |-> <<"is_true", "is_false", "is_integer", "check_int16",
                      "check_uint16", "check_int_range", "opt_int16",
                      "opt_uint16", "opt_int_range", "check_int_field",
                      "opt_int32_field", "to_string", "check_string",
                      "opt_range">>]

FuseModules == [state_manager |-> <<"main", "pool">>]

Plain(name) == Module(name, BindModules[name])

initialize_callback ==
  <<Do("new_table")>> \o Finalized("callback") \o Callable
  \o Fields(BindModules["callback"]) \o <<FieldTop(-2, Str("callback"))>>

initialize_handle ==
  <<Do("new_table")>>
  \o MethodsOf("handle_ref") \o <<Do("pop")>>
  \o Finalized("handle") \o Callable
  \o Fields(BindModules["handle"]) \o <<FieldTop(-2, Str("handle"))>>
  \o Fields(<<"handle_ref">>)

\* A lua_Integer of the four bits of this model takes one char.
initialize_util ==
  <<Do("new_table")>> \o Fields(BindModules["util"])
  \o <<Field(-1, Str("sizeof_integer"), Integer(1)), FieldTop(-2, Str("util"))>>

initialize_bind ==
  <<NewMeta("dromozoa.bind")>> \o Fields(<<"__gc">>)
  \o <<Do("pop"), SetMeta("dromozoa.bind"),
       Field(-1, Str("count"), Integer(1))>>
  \o Plain("atomic") \o initialize_callback \o Plain("core")
  \o initialize_handle \o Plain("mutex") \o Plain("scoped_ptr")
  \o Plain("system_error") \o Plain("thread") \o initialize_util

initialize_fill_dir ==
  <<NewMeta("fill_dir")>> \o Fields(<<"__call">>) \o <<Do("pop")>>

\* The capability flags, each with the number of its bit.
Capabilities ==
  <<<<"ASYNC_READ", 0>>, <<"POSIX_LOCKS", 1>>, <<"ATOMIC_O_TRUNC", 3>>,
    <<"EXPORT_SUPPORT", 4>>, <<"BIG_WRITES", 5>>, <<"DONT_MASK", 6>>,
    <<"SPLICE_WRITE", 7>>, <<"SPLICE_MOVE", 8>>, <<"SPLICE_READ", 9>>,
    <<"FLOCK_LOCKS", 10>>, <<"IOCTL_DIR", 11>>>>

initialize_main ==
  Fields(<<"main", "get_context">>)
  \o [k \in 1 .. Len(Capabilities) |->
        Field(-1, Str(Capabilities[k][1]), Integer(Capabilities[k][2]))]

initialize_state_manager ==
  <<Do("new_table")>> \o Finalized("state_manager")
  \o Fields(FuseModules["state_manager"])
  \o <<FieldTop(-2, Str("state_manager"))>>

Loaders ==
  [luaopen_bind |-> <<Do("new_table")>> \o initialize_bind \o <<Return(1)>>,
   luaopen_fuse |-> <<Do("new_table")>> \o initialize_fill_dir
                    \o initialize_main \o initialize_state_manager
                    \o <<Return(1)>>]

Functions ==
  UNION {DOMAIN Loaders, DOMAIN FusePrograms, DOMAIN HandlePrograms,
         DOMAIN UtilPrograms, DOMAIN CorePrograms}

Program(f) ==
  IF f \in DOMAIN UtilPrograms THEN UtilPrograms[f]
  ELSE IF f \in DOMAIN CorePrograms THEN CorePrograms[f]
  ELSE IF f \in DOMAIN HandlePrograms THEN HandlePrograms[f]
  ELSE IF f \in DOMAIN FusePrograms THEN FusePrograms[f]
  ELSE Loaders[f]
=============================================================================
