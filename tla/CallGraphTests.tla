--------------------------- MODULE CallGraphTests ---------------------------
(***************************************************************************)
(* Modules of assignment2/test, instruction by instruction from the        *)
(* *.ll.mark files (bitcode after mem2reg; arithmetic, comparisons of      *)
(* variables and debug intrinsics are left out), with the callees the      *)
(* trailing comment of the *.c file expects at each call.                  *)
(***************************************************************************)
EXTENDS IRModules

\* assignment2/test/test04.ll.mark, expectations of test04.c
Test04 ==
  TypedModule(<<
     Define("plus", <<"plus.a", "plus.b">>, <<
       Block("plus.entry", {}, <<
           Ret("plus.add")>>)>>),
     Define("minus", <<"minus.a", "minus.b">>, <<
       Block("minus.entry", {}, <<
           Ret("minus.sub")>>)>>),
     Define("foo", <<"foo.a", "foo.b", "foo.a_fptr">>, <<
       Block("foo.entry", {}, <<
           Call("foo.call", "foo.a_fptr", <<"foo.a", "foo.b">>),
           Ret("foo.call")>>)>>),
     Define("clever", <<"clever.x">>, <<
       Block("clever.entry", {"clever.if.then", "clever.if.end"}, <<>>),
       Block("clever.if.then", {"clever.if.end"}, <<>>),
       Block("clever.if.end", {"clever.if.then2", "clever.if.end3"}, <<
           Phi("clever.t_fptr.0", <<"minus", "null">>, <<"clever.if.then", "clever.entry">>),
           Call("clever.call", "foo", <<"const", "const", "clever.t_fptr.0">>)>>),
       Block("clever.if.then2", {"clever.if.end3"}, <<>>),
       Block("clever.if.end3", {"clever.if.then5", "clever.if.end7"}, <<
           Phi("clever.t_fptr.1", <<"plus", "clever.t_fptr.0">>, <<"clever.if.then2", "clever.if.end">>),
           Phi("clever.q_fptr.0", <<"plus", "null">>, <<"clever.if.then2", "clever.if.end">>)>>),
       Block("clever.if.then5", {"clever.if.end7"}, <<
           Call("clever.call6", "foo", <<"const", "const", "clever.q_fptr.0">>)>>),
       Block("clever.if.end7", {}, <<
           Ret("const")>>)>>)>>,
    {"clever.q_fptr.0", "clever.t_fptr.0", "clever.t_fptr.1", "foo.a_fptr"},
    {},
    <<>>,
    <<<<"foo.call", {"minus", "plus"}>>,
      <<"clever.call", {"foo"}>>,
      <<"clever.call6", {"foo"}>>>>)

\* assignment2/test/test09.ll.mark, expectations of test09.c
Test09 ==
  TypedModule(<<
     Define("plus", <<"plus.a", "plus.b">>, <<
       Block("plus.entry", {}, <<
           Ret("plus.add")>>)>>),
     Define("minus", <<"minus.a", "minus.b">>, <<
       Block("minus.entry", {}, <<
           Ret("minus.sub")>>)>>),
     Define("foo", <<"foo.a", "foo.b", "foo.a_fptr">>, <<
       Block("foo.entry", {}, <<
           Call("foo.call", "foo.a_fptr", <<"foo.a", "foo.b">>),
           Ret("foo.call")>>)>>),
     Define("clever", <<"clever.a", "clever.b", "clever.a_fptr">>, <<
       Block("clever.entry", {}, <<
           Call("clever.call", "foo", <<"clever.a", "clever.b", "clever.a_fptr">>),
           Ret("clever.call")>>)>>),
     Define("moo", <<"moo.x", "moo.op1", "moo.op2">>, <<
       Block("moo.entry", {"moo.if.then", "moo.if.else"}, <<>>),
       Block("moo.if.then", {"moo.if.end6"}, <<>>),
       Block("moo.if.else", {"moo.if.then5", "moo.if.end"}, <<>>),
       Block("moo.if.then5", {"moo.if.end"}, <<>>),
       Block("moo.if.end", {"moo.if.end6"}, <<
           Phi("moo.t_fptr.0", <<"minus", "null">>, <<"moo.if.then5", "moo.if.else">>)>>),
       Block("moo.if.end6", {}, <<
           Phi("moo.t_fptr.1", <<"plus", "moo.t_fptr.0">>, <<"moo.if.then", "moo.if.end">>),
           Call("moo.call", "clever", <<"moo.op1", "moo.op2", "moo.t_fptr.1">>),
           Ret("const")>>)>>)>>,
    {"clever.a_fptr", "foo.a_fptr", "moo.t_fptr.0", "moo.t_fptr.1"},
    {},
    <<>>,
    <<<<"foo.call", {"minus", "plus"}>>,
      <<"clever.call", {"foo"}>>,
      <<"moo.call", {"clever"}>>>>)

\* assignment2/test/test11.ll.mark, expectations of test11.c
Test11 ==
  TypedModule(<<
     Define("plus", <<"plus.a", "plus.b">>, <<
       Block("plus.entry", {}, <<
           Ret("plus.add")>>)>>),
     Define("minus", <<"minus.a", "minus.b">>, <<
       Block("minus.entry", {}, <<
           Ret("minus.sub")>>)>>),
     Define("foo", <<"foo.a", "foo.b", "foo.a_fptr", "foo.b_fptr">>, <<
       Block("foo.entry", {}, <<
           Ret("foo.a_fptr")>>)>>),
     Define("clever", <<"clever.a", "clever.b", "clever.a_fptr", "clever.b_fptr">>, <<
       Block("clever.entry", {}, <<
           Call("clever.call", "foo", <<"clever.a", "clever.b", "clever.a_fptr", "clever.b_fptr">>),
           Call("clever.call1", "clever.call", <<"clever.a", "clever.b">>),
           Ret("clever.call1")>>)>>),
     Define("moo", <<"moo.x", "moo.op1", "moo.op2">>, <<
       Block("moo.entry", {"moo.if.then", "moo.if.else"}, <<>>),
       Block("moo.if.then", {"moo.if.end6"}, <<>>),
       Block("moo.if.else", {"moo.if.then5", "moo.if.end"}, <<>>),
       Block("moo.if.then5", {"moo.if.end"}, <<>>),
       Block("moo.if.end", {"moo.if.end6"}, <<
           Phi("moo.t_fptr.0", <<"minus", "null">>, <<"moo.if.then5", "moo.if.else">>)>>),
       Block("moo.if.end6", {}, <<
           Phi("moo.t_fptr.1", <<"plus", "moo.t_fptr.0">>, <<"moo.if.then", "moo.if.end">>),
           Call("moo.call", "clever", <<"moo.op1", "moo.op2", "plus", "moo.t_fptr.1">>),
           Ret("const")>>)>>)>>,
    {"clever.a_fptr", "clever.b_fptr", "clever.call", "foo.a_fptr", "foo.b_fptr", "moo.t_fptr.0", "moo.t_fptr.1"},
    {},
    <<>>,
    <<<<"clever.call", {"foo"}>>,
      <<"clever.call1", {"plus"}>>,
      <<"moo.call", {"clever"}>>>>)

\* assignment2/test/test13.ll.mark, expectations of test13.c
Test13 ==
  TypedModule(<<
     Define("plus", <<"plus.a", "plus.b">>, <<
       Block("plus.entry", {}, <<
           Ret("plus.add")>>)>>),
     Define("minus", <<"minus.a", "minus.b">>, <<
       Block("minus.entry", {}, <<
           Ret("minus.sub")>>)>>),
     Define("foo", <<"foo.a", "foo.b", "foo.a_fptr", "foo.b_fptr">>, <<
       Block("foo.entry", {}, <<
           Ret("foo.a_fptr")>>)>>),
     Define("clever", <<"clever.a", "clever.b", "clever.a_fptr", "clever.b_fptr">>, <<
       Block("clever.entry", {}, <<
           Ret("clever.b_fptr")>>)>>),
     Define("moo", <<"moo.x", "moo.op1", "moo.op2">>, <<
       Block("moo.entry", {"moo.if.then", "moo.if.else"}, <<>>),
       Block("moo.if.then", {"moo.if.end6"}, <<>>),
       Block("moo.if.else", {"moo.if.then5", "moo.if.end"}, <<>>),
       Block("moo.if.then5", {"moo.if.end"}, <<>>),
       Block("moo.if.end", {"moo.if.end6"}, <<>>),
       Block("moo.if.end6", {}, <<
           Phi("moo.goo_ptr.1", <<"foo", "clever">>, <<"moo.if.then", "moo.if.end">>),
           Call("moo.call", "moo.goo_ptr.1", <<"moo.op1", "moo.op2", "plus", "minus">>),
           Call("moo.call7", "moo.call", <<"moo.op1", "moo.op2">>),
           Ret("const")>>)>>)>>,
    {"clever.a_fptr", "clever.b_fptr", "foo.a_fptr", "foo.b_fptr", "moo.call", "moo.goo_ptr.1"},
    {},
    <<>>,
    <<<<"moo.call", {"clever", "foo"}>>,
      <<"moo.call7", {"minus", "plus"}>>>>)

\* assignment2/test/test17.ll.mark, expectations of test17.c
Test17 ==
  TypedModule(<<
     Define("clever", <<>>, <<
       Block("clever.entry", {"clever.for.cond"}, <<>>),
       Block("clever.for.cond", {"clever.for.body", "clever.for.end"}, <<
           Phi("clever.i.0", <<"const", "clever.inc">>, <<"clever.entry", "clever.for.inc">>),
           Phi("clever.a.0", <<"const", "clever.a.1">>, <<"clever.entry", "clever.for.inc">>)>>),
       Block("clever.for.body", {"clever.if.then", "clever.if.else"}, <<>>),
       Block("clever.if.then", {"clever.if.end"}, <<
           Call("clever.call", "plus", <<"clever.a.0", "clever.i.0">>)>>),
       Block("clever.if.else", {"clever.if.end"}, <<
           Call("clever.call1", "minus", <<"clever.a.0", "clever.i.0">>)>>),
       Block("clever.if.end", {"clever.for.inc"}, <<
           Phi("clever.a.1", <<"clever.call", "clever.call1">>, <<"clever.if.then", "clever.if.else">>)>>),
       Block("clever.for.inc", {"clever.for.cond"}, <<>>),
       Block("clever.for.end", {}, <<
           Ret("clever.a.0")>>)>>),
     Define("plus", <<"plus.a", "plus.b">>, <<
       Block("plus.entry", {}, <<
           Ret("plus.add")>>)>>),
     Define("minus", <<"minus.a", "minus.b">>, <<
       Block("minus.entry", {}, <<
           Ret("minus.sub")>>)>>),
     Define("foo", <<"foo.pf_ptr">>, <<
       Block("foo.entry", {}, <<
           Call("foo.call", "foo.pf_ptr", <<>>),
           Ret("foo.call")>>)>>),
     Define("moo", <<"moo.uf_ptr", "moo.pf_ptr">>, <<
       Block("moo.entry", {}, <<
           Call("moo.call", "moo.uf_ptr", <<"moo.pf_ptr">>),
           Ret("moo.call")>>)>>),
     Define("use", <<>>, <<
       Block("use.entry", {}, <<
           Call("use.call", "moo", <<"foo", "clever">>),
           Ret("use.call")>>)>>)>>,
    {"foo.pf_ptr", "moo.pf_ptr", "moo.uf_ptr"},
    {},
    <<>>,
    <<<<"clever.call", {"plus"}>>,
      <<"clever.call1", {"minus"}>>,
      <<"foo.call", {"clever"}>>,
      <<"moo.call", {"foo"}>>,
      <<"use.call", {"moo"}>>>>)

\* assignment2/test/test19.ll.mark, expectations of test19.c
Test19 ==
  TypedModule(<<
     Define("plus", <<"plus.a", "plus.b">>, <<
       Block("plus.entry", {}, <<
           Ret("plus.add")>>)>>),
     Define("minus", <<"minus.a", "minus.b">>, <<
       Block("minus.entry", {}, <<
           Ret("minus.sub")>>)>>),
     Define("foo", <<"foo.a", "foo.b", "foo.fptr">>, <<
       Block("foo.entry", {}, <<
           Call("foo.call", "foo.fptr", <<"foo.a", "foo.b">>),
           Ret("foo.call")>>)>>),
     Define("clever", <<>>, <<
       Block("clever.entry", {"clever.if.then", "clever.if.else"}, <<>>),
       Block("clever.if.then", {"clever.if.end"}, <<>>),
       Block("clever.if.else", {"clever.if.end"}, <<>>),
       Block("clever.if.end", {}, <<
           Phi("clever.pf_ptr.0", <<"plus", "minus">>, <<"clever.if.then", "clever.if.else">>),
           Call("clever.call", "foo", <<"const", "const", "clever.pf_ptr.0">>),
           Ret("const")>>)>>)>>,
    {"clever.pf_ptr.0", "foo.fptr"},
    {},
    "clever.entry" :> [l |-> 1, r |-> 0, then |-> "clever.if.then", else |-> "clever.if.else"],
    <<<<"foo.call", {"plus"}>>,
      <<"clever.call", {"foo"}>>>>)
=============================================================================
