---------------------------- MODULE TestModules ----------------------------
(***************************************************************************)
(* Modules of assignment3/test, instruction by instruction from the        *)
(* *.ll.m2r files (bitcode after mem2reg; instructions the analysis does   *)
(* not look at are left out), with the callees the trailing comment of the *)
(* *.c file expects at each call. An operand that can have no points-to    *)
(* set (a constant that is not an i32, a global) is "undef".               *)
(***************************************************************************)
EXTENDS IRModules

\* assignment3/test/test06.ll.m2r, expectations of test06.c
Test06 ==
  Module(<<
     Define("plus", <<"plus.a", "plus.b">>, <<
       Block("plus.entry", {}, <<
           Ret("plus.add")>>)>>),
     Define("minus", <<"minus.a", "minus.b">>, <<
       Block("minus.entry", {}, <<
           Ret("minus.sub")>>)>>),
     Define("foo", <<"foo.x">>, <<
       Block("foo.entry", {"foo.if.then", "foo.if.else"}, <<
           Call("foo.call", "malloc", <<"undef">>), Cast("foo.0", "foo.call")>>),
       Block("foo.if.then", {"foo.if.end"}, <<
           Store("plus", "foo.0"), Load("foo.1", "foo.0"),
           Call("foo.call1", "foo.1", <<"i32 1", "foo.x">>), Store("minus", "foo.0")>>),
       Block("foo.if.else", {"foo.if.end"}, <<
           Store("minus", "foo.0")>>),
       Block("foo.if.end", {}, <<
           Phi("foo.x.addr.0", <<"foo.call1", "foo.x">>, <<"foo.if.then", "foo.if.else">>),
           Load("foo.2", "foo.0"), Call("foo.call2", "foo.2", <<"i32 1", "foo.x.addr.0">>),
           RetVoid>>)>>),
     Declare("malloc")>>,
    <<<<"foo.call", {"malloc"}>>, <<"foo.call1", {"plus"}>>, <<"foo.call2", {"minus"}>>>>)

\* assignment3/test/test18.ll.m2r, expectations of test18.c
Test18 ==
  Module(<<
     Define("plus", <<"plus.a", "plus.b">>, <<
       Block("plus.entry", {}, <<
           Ret("plus.add")>>)>>),
     Define("minus", <<"minus.a", "minus.b">>, <<
       Block("minus.entry", {}, <<
           Ret("minus.sub")>>)>>),
     Define("foo", <<"foo.a", "foo.b", "foo.a_fptr", "foo.b_fptr">>, <<
       Block("foo.entry", {}, <<
           Ret("foo.a_fptr")>>)>>),
     Define("clever", <<"clever.a", "clever.b", "clever.a_fptr", "clever.b_fptr">>, <<
       Block("clever.entry", {}, <<
           Ret("clever.b_fptr")>>)>>),
     Define("moo", <<"moo.x", "moo.op1", "moo.op2">>, <<
       Block("moo.entry", {"moo.if.then", "moo.if.else"}, <<
           Cast("moo.conv", "moo.x")>>),
       Block("moo.if.then", {"moo.if.end6"}, <<>>),
       Block("moo.if.else", {"moo.if.then5", "moo.if.end"}, <<
           Cast("moo.conv2", "moo.x")>>),
       Block("moo.if.then5", {"moo.if.end"}, <<>>),
       Block("moo.if.end", {"moo.if.end6"}, <<>>),
       Block("moo.if.end6", {}, <<
           Phi("moo.goo_ptr.1", <<"foo", "clever">>, <<"moo.if.then", "moo.if.end">>),
           Call("moo.call", "moo.goo_ptr.1", <<"moo.op1", "moo.op2", "plus", "minus">>),
           Call("moo.call7", "moo.call", <<"moo.op1", "moo.op2">>), Ret("i32 0")>>)>>)>>,
    <<<<"moo.call", {"clever", "foo"}>>, <<"moo.call7", {"minus", "plus"}>>>>)

\* assignment3/test/test20.ll.m2r, expectations of test20.c
Test20 ==
  Module(<<
     Define("plus", <<"plus.a", "plus.b">>, <<
       Block("plus.entry", {}, <<
           Ret("plus.add")>>)>>),
     Define("minus", <<"minus.a", "minus.b">>, <<
       Block("minus.entry", {}, <<
           Ret("minus.sub")>>)>>),
     Define("foo", <<"foo.a", "foo.b", "foo.a_fptr", "foo.b_fptr">>, <<
       Block("foo.entry", {}, <<
           Gep("foo.sptr", "foo.a_fptr", "0"), Load("foo.0", "foo.sptr"), Ret("foo.0")>>)>>),
     Define("clever", <<"clever.a", "clever.b", "clever.a_fptr", "clever.b_fptr">>, <<
       Block("clever.entry", {}, <<
           Gep("clever.sptr", "clever.b_fptr", "0"), Load("clever.0", "clever.sptr"),
           Ret("clever.0")>>)>>),
     Define("moo", <<"moo.x", "moo.op1", "moo.op2">>, <<
       Block("moo.entry", {"moo.if.then", "moo.if.else"}, <<
           Alloca("moo.a_fptr"), Alloca("moo.s_fptr"), Alloca("moo.m_fptr"),
           Alloca("moo.n_fptr"),
           Gep("moo.p_fptr", "moo.a_fptr", "0"), Store("plus", "moo.p_fptr"),
           Gep("moo.p_fptr1", "moo.s_fptr", "0"), Store("minus", "moo.p_fptr1"),
           Gep("moo.sptr", "moo.m_fptr", "0"), Store("moo.a_fptr", "moo.sptr"),
           Gep("moo.sptr2", "moo.n_fptr", "0"), Store("moo.s_fptr", "moo.sptr2"),
           Cast("moo.conv", "moo.x")>>),
       Block("moo.if.then", {"moo.if.end8"}, <<>>),
       Block("moo.if.else", {"moo.if.then7", "moo.if.end"}, <<
           Cast("moo.conv4", "moo.x")>>),
       Block("moo.if.then7", {"moo.if.end"}, <<>>),
       Block("moo.if.end", {"moo.if.end8"}, <<>>),
       Block("moo.if.end8", {}, <<
           Phi("moo.goo_ptr.1", <<"foo", "clever">>, <<"moo.if.then", "moo.if.end">>),
           Call("moo.call", "moo.goo_ptr.1", <<"moo.op1", "moo.op2", "moo.m_fptr",
           "moo.n_fptr">>),
           Gep("moo.p_fptr9", "moo.call", "0"), Load("moo.0", "moo.p_fptr9"),
           Call("moo.call10", "moo.0", <<"moo.op1", "moo.op2">>), Ret("i32 0")>>)>>)>>,
    <<<<"moo.call", {"clever", "foo"}>>, <<"moo.call10", {"minus", "plus"}>>>>)

\* assignment3/test/test23.ll.m2r, expectations of test23.c
Test23 ==
  Module(<<
     Define("plus", <<"plus.a", "plus.b">>, <<
       Block("plus.entry", {}, <<
           Ret("plus.add")>>)>>),
     Define("minus", <<"minus.a", "minus.b">>, <<
       Block("minus.entry", {}, <<
           Ret("minus.sub")>>)>>),
     Define("foo", <<"foo.a", "foo.b", "foo.a_fptr">>, <<
       Block("foo.entry", {}, <<
           Call("foo.call", "foo.a_fptr", <<"foo.a", "foo.b">>), Ret("foo.call")>>)>>),
     Define("make_simple_alias", <<"make_simple_alias.af_ptr", "make_simple_alias.bf_ptr">>, <<
       Block("make_simple_alias.entry", {}, <<
           Load("make_simple_alias.0", "make_simple_alias.bf_ptr"),
           Store("make_simple_alias.0", "make_simple_alias.af_ptr"), RetVoid>>)>>),
     Define("moo", <<"moo.x">>, <<
       Block("moo.entry", {"moo.if.then", "moo.if.end"}, <<
           Call("moo.call", "malloc", <<"undef">>), Cast("moo.0", "moo.call"),
           Call("moo.call1", "malloc", <<"undef">>), Cast("moo.1", "moo.call1"),
           Store("minus", "moo.1"), Cast("moo.conv", "moo.x")>>),
       Block("moo.if.then", {"moo.if.end"}, <<
           Store("plus", "moo.0"), Load("moo.2", "moo.0"),
           Call("moo.call3", "foo", <<"i32 1", "i32 2", "moo.2">>),
           Call("moo.call@None.3", "make_simple_alias", <<"moo.1", "moo.0">>)>>),
       Block("moo.if.end", {}, <<
           Load("moo.3", "moo.1"), Call("moo.call4", "foo", <<"i32 1", "i32 2", "moo.3">>),
           Ret("i32 0")>>)>>),
     Declare("malloc")>>,
    <<<<"foo.call", {"minus", "plus"}>>, <<"moo.call", {"malloc"}>>,
      <<"moo.call1", {"malloc"}>>, <<"moo.call3", {"foo"}>>,
      <<"moo.call@None.3", {"make_simple_alias"}>>, <<"moo.call4", {"foo"}>>>>)

\* assignment3/test/test27.ll.m2r, expectations of test27.c
Test27 ==
  Module(<<
     Define("plus", <<"plus.a", "plus.b">>, <<
       Block("plus.entry", {}, <<
           Ret("plus.add")>>)>>),
     Define("minus", <<"minus.a", "minus.b">>, <<
       Block("minus.entry", {}, <<
           Ret("minus.sub")>>)>>),
     Define("foo", <<"foo.a", "foo.b", "foo.c_fptr">>, <<
       Block("foo.entry", {}, <<
           Gep("foo.p_fptr", "foo.c_fptr", "0"), Load("foo.0", "foo.p_fptr"),
           Call("foo.call", "foo.0", <<"foo.a", "foo.b">>), Ret("foo.call")>>)>>),
     Define("clever", <<"clever.a", "clever.b", "clever.c_fptr">>, <<
       Block("clever.entry", {}, <<
           Gep("clever.p_fptr", "clever.c_fptr", "0"), Store("plus", "clever.p_fptr"),
           Call("clever.call", "foo", <<"clever.a", "clever.b", "clever.c_fptr">>),
           Ret("clever.call")>>)>>),
     Define("moo", <<"moo.x", "moo.op1", "moo.op2">>, <<
       Block("moo.entry", {"moo.if.then", "moo.if.else"}, <<
           Alloca("moo.m_fptr"), Gep("moo.p_fptr", "moo.m_fptr", "0"), Store("undef",
           "moo.p_fptr"),
           Cast("moo.conv", "moo.x")>>),
       Block("moo.if.then", {"moo.if.end6"}, <<>>),
       Block("moo.if.else", {"moo.if.then5", "moo.if.end"}, <<
           Cast("moo.conv2", "moo.x")>>),
       Block("moo.if.then5", {"moo.if.end"}, <<>>),
       Block("moo.if.end", {"moo.if.end6"}, <<
           Phi("moo.t_fptr.0", <<"minus", "undef">>, <<"moo.if.then5", "moo.if.else">>)>>),
       Block("moo.if.end6", {}, <<
           Phi("moo.t_fptr.1", <<"plus", "moo.t_fptr.0">>, <<"moo.if.then", "moo.if.end">>),
           Gep("moo.p_fptr7", "moo.m_fptr", "0"), Store("moo.t_fptr.1", "moo.p_fptr7"),
           Call("moo.call", "clever", <<"moo.op1", "moo.op2", "moo.m_fptr">>),
           Ret("i32 0")>>)>>)>>,
    <<<<"foo.call", {"plus"}>>, <<"clever.call", {"foo"}>>, <<"moo.call", {"clever"}>>>>)

\* assignment3/test/test28.ll.m2r, expectations of test28.c
Test28 ==
  Module(<<
     Define("plus", <<"plus.a", "plus.b">>, <<
       Block("plus.entry", {}, <<
           Ret("plus.add")>>)>>),
     Define("minus", <<"minus.a", "minus.b">>, <<
       Block("minus.entry", {}, <<
           Ret("minus.sub")>>)>>),
     Define("foo", <<"foo.a", "foo.b", "foo.a_fptr", "foo.b_fptr">>, <<
       Block("foo.entry", {}, <<
           Load("foo.0", "foo.b_fptr"), Call("foo.call", "foo.0", <<"foo.a", "foo.b">>),
           Ret("foo.call")>>)>>),
     Define("clever", <<"clever.a", "clever.b", "clever.a_fptr", "clever.b_fptr">>, <<
       Block("clever.entry", {}, <<
           Load("clever.0", "clever.a_fptr"), Load("clever.1", "clever.b_fptr"),
           Store("clever.1", "clever.a_fptr"), Store("clever.0", "clever.b_fptr"),
           Call("clever.call", "foo", <<"clever.a", "clever.b", "clever.a_fptr",
           "clever.b_fptr">>),
           Ret("clever.call")>>)>>),
     Define("moo", <<"moo.x", "moo.op1", "moo.op2">>, <<
       Block("moo.entry", {"moo.if.then", "moo.if.else"}, <<
           Call("moo.call", "malloc", <<"undef">>), Cast("moo.0", "moo.call"),
           Store("plus", "moo.0"), Call("moo.call1", "malloc", <<"undef">>),
           Cast("moo.1", "moo.call1"), Store("minus", "moo.1"),
           Call("moo.call2", "malloc", <<"undef">>), Cast("moo.2", "moo.call2"),
           Cast("moo.conv", "moo.x")>>),
       Block("moo.if.then", {"moo.if.end8"}, <<>>),
       Block("moo.if.else", {"moo.if.then7", "moo.if.end"}, <<
           Cast("moo.conv4", "moo.x")>>),
       Block("moo.if.then7", {"moo.if.end"}, <<>>),
       Block("moo.if.end", {"moo.if.end8"}, <<
           Phi("moo.t_fptr.0", <<"moo.1", "moo.2">>, <<"moo.if.then7", "moo.if.else">>)>>),
       Block("moo.if.end8", {}, <<
           Phi("moo.t_fptr.1", <<"moo.0", "moo.t_fptr.0">>, <<"moo.if.then", "moo.if.end">>),
           Call("moo.call9", "clever", <<"moo.op1", "moo.op2", "moo.0", "moo.t_fptr.1">>),
           Ret("i32 0")>>)>>),
     Declare("malloc")>>,
    <<<<"foo.call", {"plus"}>>, <<"clever.call", {"foo"}>>, <<"moo.call", {"malloc"}>>,
      <<"moo.call1", {"malloc"}>>, <<"moo.call2", {"malloc"}>>, <<"moo.call9", {"clever"}>>>>)

\* assignment3/test/test29.ll.m2r, expectations of test29.c
Test29 ==
  Module(<<
     Define("plus", <<"plus.a", "plus.b">>, <<
       Block("plus.entry", {}, <<
           Ret("plus.add")>>)>>),
     Define("minus", <<"minus.a", "minus.b">>, <<
       Block("minus.entry", {}, <<
           Ret("minus.sub")>>)>>),
     Define("clever", <<"clever.a", "clever.b", "clever.c_fptr", "clever.d_fptr">>, <<
       Block("clever.entry", {}, <<
           Gep("clever.p_fptr", "clever.c_fptr", "0"), Load("clever.0", "clever.p_fptr"),
           Gep("clever.p_fptr1", "clever.d_fptr", "0"), Load("clever.1", "clever.p_fptr1"),
           Gep("clever.p_fptr2", "clever.c_fptr", "0"), Store("clever.1", "clever.p_fptr2"),
           Gep("clever.p_fptr3", "clever.d_fptr", "0"), Store("clever.0", "clever.p_fptr3"),
           Call("clever.call", "clever.0", <<"clever.a", "clever.b">>), Ret("clever.call")>>)>>),
     Define("foo", <<"foo.a", "foo.b", "foo.c_fptr", "foo.d_fptr">>, <<
       Block("foo.entry", {}, <<
           Alloca("foo.t_fptr"), Gep("foo.sptr", "foo.c_fptr", "0"), Load("foo.0", "foo.sptr"),
           Cast("foo.1", "foo.t_fptr"), Cast("foo.2", "foo.0"), MemCpy("foo.1", "foo.2"),
           Gep("foo.sptr1", "foo.d_fptr", "0"), Load("foo.3", "foo.sptr1"),
           Gep("foo.sptr2", "foo.c_fptr", "0"), Store("foo.3", "foo.sptr2"),
           Gep("foo.sptr3", "foo.c_fptr", "0"), Load("foo.4", "foo.sptr3"),
           Call("foo.call", "clever", <<"foo.a", "foo.b", "foo.4", "foo.t_fptr">>),
           Gep("foo.p_fptr", "foo.t_fptr", "0"), Load("foo.5", "foo.p_fptr"),
           Call("foo.call4", "foo.5", <<"foo.a", "foo.b">>), Ret("foo.call4")>>)>>),
     Define("moo", <<"moo.x">>, <<
       Block("moo.entry", {"moo.if.then", "moo.if.else"}, <<
           Alloca("moo.a_fptr"), Alloca("moo.b_fptr"), Alloca("moo.s_fptr"),
           Alloca("moo.r_fptr"),
           Gep("moo.p_fptr", "moo.a_fptr", "0"), Store("plus", "moo.p_fptr"),
           Gep("moo.p_fptr1", "moo.b_fptr", "0"), Store("minus", "moo.p_fptr1"),
           Gep("moo.sptr", "moo.s_fptr", "0"), Store("moo.a_fptr", "moo.sptr"),
           Gep("moo.sptr2", "moo.r_fptr", "0"), Store("moo.b_fptr", "moo.sptr2"),
           Call("moo.call", "malloc", <<"undef">>), Cast("moo.0", "moo.call"),
           Cast("moo.1", "moo.0"), Cast("moo.2", "moo.s_fptr"), MemCpy("moo.1", "moo.2")>>),
       Block("moo.if.then", {"moo.if.end"}, <<
           Call("moo.call3", "foo", <<"i32 1", "moo.x", "moo.0", "moo.r_fptr">>)>>),
       Block("moo.if.else", {"moo.if.end"}, <<
           Gep("moo.sptr4", "moo.0", "0"), Load("moo.3", "moo.sptr4"),
           Gep("moo.p_fptr5", "moo.3", "0"), Store("plus", "moo.p_fptr5")>>),
       Block("moo.if.end", {}, <<
           Call("moo.call6", "foo", <<"i32 1", "moo.x", "moo.0", "moo.s_fptr">>), RetVoid>>)>>),
     Declare("malloc")>>,
    <<<<"clever.call", {"minus", "plus"}>>, <<"foo.call", {"clever"}>>,
      <<"foo.call4", {"minus", "plus"}>>, <<"moo.call", {"malloc"}>>, <<"moo.call3", {"foo"}>>,
      <<"moo.call6", {"foo"}>>>>)

=============================================================================
