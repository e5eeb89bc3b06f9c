----------------------------- MODULE CPrograms -----------------------------
(***************************************************************************)
(* The C programs the interpreter of assignment 1 is run on, as Clang      *)
(* hands them over: a table of nodes of the syntax tree. A node has a kind *)
(* k, the data x of its kind, the numbers of its children, and the names   *)
(* in scope where it stands.                                               *)
(* Declarations have distinct names, as they are distinct Decl objects.    *)
(* A type is the number of its stars: int is 0, int* is 1, int** is 2.     *)
(* Constructors build terms; Unit numbers the nodes of a whole program.    *)
(***************************************************************************)
EXTENDS Integers, Sequences, SequencesExt

Term(k, x, kids) == [k |-> k, x |-> x, kids |-> kids]

None          == Term("none", 0, <<>>)
Num(i)        == Term("num", i, <<>>)
Ref(v)        == Term("ref", v, <<>>)
Cast(e)       == Term("cast", 0, <<e>>)
Val(v)        == Cast(Ref(v))                      \* lvalue to rvalue
Paren(e)      == Term("paren", 0, <<e>>)
Neg(e)        == Term("neg", 0, <<e>>)
Deref(e)      == Term("deref", 0, <<e>>)
Sub(v, i)     == Term("sub", 1, <<Cast(Ref(v)), i>>)
Op(o, l, r)   == Term("bin", <<o, 0, 0>>, <<l, r>>)
PtrOp(o, t, l, r) == Term("bin", <<o, t, 0>>, <<l, r>>)
Asg(l, r)     == Term("asg", 0, <<l, r>>)
Set(v, r)     == Asg(Ref(v), r)
Call(f, args) == Term("call", f, args)
SizeOf(t)     == Term("sizeof", t, <<>>)
Var(v)        == Term("decl", <<v, 0>>, <<>>)
VarIs(v, e)   == Term("decl", <<v, 0>>, <<e>>)
Array(v, n)   == Term("decl", <<v, n>>, <<>>)
Block(ss)     == Term("block", <<>>, ss)
If(c, a)      == Term("if", 0, <<c, a>>)
IfElse(c, a, b) == Term("if", 0, <<c, a, b>>)
While(c, b)   == Term("while", 0, <<c, b>>)
For(i, c, s, b) == Term("for", 0, <<i, c, s, b>>)
Ret(e)        == Term("ret", 0, <<e>>)
Output(e)      == Call("PRINT", <<e>>)
New(n)        == Cast(Call("MALLOC", <<n>>))

\* The data of the body of a function are the parameters.
Fun(f, params, body) == [name |-> f, params |-> params, body |-> Term("block", params, body)]

\* The nodes of term t, numbered from n on, t itself first; known are the names declared
\* before it.
RECURSIVE Nodes(_, _, _)
Nodes(t, n, known) ==
  LET here == IF t.k = "block" THEN known \cup ToSet(t.x) ELSE known
      Add(acc, kid) == LET next == n + 1 + Len(acc.nodes)
                       IN  [nodes |-> acc.nodes \o Nodes(kid, next, acc.known),
                            ids   |-> Append(acc.ids, next),
                            known |-> IF kid.k = "decl" THEN acc.known \cup {kid.x[1]}
                                      ELSE acc.known]
      sub == FoldLeft(Add, [nodes |-> <<>>, ids |-> <<>>, known |-> here], t.kids)
  IN  <<[k |-> t.k, x |-> t.x, kids |-> sub.ids, scope |-> here]>> \o sub.nodes

\* A translation unit: its global declarations, then its functions. Node 1, which holds
\* them together, is emptied.
Unit(globals, funs) ==
  LET table == Nodes(Block(globals \o [i \in DOMAIN funs |-> funs[i].body]), 1, {})
      tops  == table[1].kids
      Body(f) == CHOOSE i \in DOMAIN funs : funs[i].name = f
  IN  [node    |-> [table EXCEPT ![1].k = "none", ![1].kids = <<>>],
       globals |-> {tops[i] : i \in DOMAIN globals},
       fun     |-> [f \in {funs[i].name : i \in DOMAIN funs} |->
                      [params |-> funs[Body(f)].params,
                       body   |-> tops[Len(globals) + Body(f)]]]]

-----------------------------------------------------------------------------
(* Tests of the repository.                                                *)

\* test01.c: recursion through a call inside an expression; a global.
Test01 == Unit(<<VarIs("b", Num(10))>>, <<
  Fun("f", <<"f.x">>, <<
    IfElse(Op(">", Val("f.x"), Num(0)),
           Ret(Op("+", Num(5), Call("f", <<Op("-", Val("f.x"), Num(5))>>))),
           Ret(Num(0)))>>),
  Fun("main", <<>>, <<Output(Call("f", <<Val("b")>>))>>)>>)

\* test07.c: a for loop without a body.
Test07 == Unit(<<>>, <<
  Fun("main", <<>>, <<
    VarIs("a", Num(0)),
    For(Set("a", Num(0)), Op("<", Val("a"), Num(10)), Set("a", Op("+", Val("a"), Num(1))), None),
    Output(Val("a"))>>)>>)

\* test15.c: an array in a loop, an unbraced early return, a negative argument.
Test15 == Unit(<<>>, <<
  Fun("f", <<"f.x">>, <<
    Array("f.a", 3), VarIs("f.i", Num(0)),
    For(None, Op("<", Val("f.i"), Num(3)), Set("f.i", Op("+", Val("f.i"), Num(1))), Block(<<
      Asg(Sub("f.a", Val("f.i")), Op("+", Val("f.x"), Val("f.i")))>>)),
    If(Op(">", Val("f.x"), Num(0)), Ret(Cast(Sub("f.a", Num(1))))),
    Ret(Cast(Sub("f.a", Num(2))))>>),
  Fun("main", <<>>, <<
    Var("a"), Var("b"), Set("a", Neg(Num(10))),
    Set("b", Call("f", <<Val("a")>>)), Output(Val("b"))>>)>>)

\* test18.c: a pointer to a pointer, pointer arithmetic.
Test18 == Unit(<<>>, <<
  Fun("main", <<>>, <<
    Var("a"), Var("b"), Var("c"),
    Set("a", New(Op("*", SizeOf(0), Num(2)))), Set("b", New(SizeOf(1))),
    Asg(Deref(Val("b")), Val("a")), Asg(Deref(Val("a")), Num(10)),
    Asg(Deref(Paren(PtrOp("+", 1, Val("a"), Num(1)))), Num(20)),
    Set("c", Cast(Deref(Val("b")))),
    Output(Cast(Deref(Val("c")))),
    Output(Cast(Deref(Paren(PtrOp("+", 1, Val("c"), Num(1)))))),
    Call("FREE", <<Cast(Val("a"))>>), Call("FREE", <<Cast(Cast(Val("b")))>>)>>)>>)

\* test19.c: an array of pointers.
Test19 == Unit(<<>>, <<
  Fun("main", <<>>, <<
    Var("a"), Var("b"), Array("c", 2),
    Set("a", New(Op("*", SizeOf(0), Num(2)))),
    Asg(Deref(Val("a")), Num(10)), Asg(Deref(Paren(PtrOp("+", 1, Val("a"), Num(1)))), Num(20)),
    Asg(Sub("c", Num(0)), Val("a")), Asg(Sub("c", Num(1)), PtrOp("+", 1, Val("a"), Num(1))),
    Output(Cast(Deref(Cast(Sub("c", Num(0)))))), Output(Cast(Deref(Cast(Sub("c", Num(1))))))>>)>>)

\* test20.c: two recursive calls in one expression; a local kept across them.
Test20 == Unit(<<>>, <<
  Fun("fibonacci", <<"f.b">>, <<
    Var("f.c"), If(Op("<", Val("f.b"), Num(2)), Ret(Val("f.b"))),
    Set("f.c", Op("+", Call("fibonacci", <<Op("-", Val("f.b"), Num(1))>>),
                       Call("fibonacci", <<Op("-", Val("f.b"), Num(2))>>))),
    Ret(Val("f.c"))>>),
  Fun("main", <<>>, <<
    Var("a"), Var("b"), Set("a", Num(5)),
    Set("b", Call("fibonacci", <<Num(5)>>)), Output(Val("b")), Ret(Num(0))>>)>>)

\* test23.c: two pointers to the heap exchanged by a callee without a result.
Test23 == Unit(<<>>, <<
  Fun("swap", <<"s.a", "s.b">>, <<
    Var("s.temp"), Set("s.temp", Cast(Deref(Val("s.a")))),
    Asg(Deref(Val("s.a")), Cast(Deref(Val("s.b")))), Asg(Deref(Val("s.b")), Val("s.temp"))>>),
  Fun("main", <<>>, <<
    Var("a"), Var("b"), Set("a", New(SizeOf(0))), Set("b", New(SizeOf(1))),
    Asg(Deref(Val("b")), Num(24)), Asg(Deref(Val("a")), Num(42)),
    Call("swap", <<Val("a"), Val("b")>>),
    Output(Cast(Deref(Val("a")))), Output(Cast(Deref(Val("b")))),
    Call("FREE", <<Cast(Val("a"))>>), Call("FREE", <<Cast(Val("b"))>>), Ret(Num(0))>>)>>)
=============================================================================
