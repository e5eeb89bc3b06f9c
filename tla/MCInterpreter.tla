--------------------------- MODULE MCInterpreter ---------------------------
(***************************************************************************)
(* Instances of InterpretsC.                                               *)
(***************************************************************************)
EXTENDS InterpretsC, CPrograms

\* The tests, with what test/run.sh says they print.
Expected == {<<Test01, <<10>>>>, <<Test07, <<10>>>>, <<Test15, <<-8>>>>, <<Test18, <<10, 20>>>>,
             <<Test19, <<10, 20>>>>, <<Test20, <<5>>>>, <<Test23, <<24, 42>>>>}
Tests == {e[1] : e \in Expected}

ASSUME ReferenceAssumption == \A e \in Expected : Meaning(e[1], <<>>).prints = e[2]

\* A family of programs: f has two statements out of Statements before it returns n;
\* main calls it in a loop, f(f(i, q), q + 1), on two integers of the heap.
N == Val("f.n")
P == Val("f.p")
G == Val("g")
F(n, p) == Call("f", <<n, p>>)
Plus(l, r) == Op("+", l, r)

Statements == <<
  \* if (n < 2) return *p;
  If(Op("<", N, Num(2)), Ret(Cast(Deref(P)))),
  \* *p = n + g;
  Asg(Deref(P), Plus(N, G)),
  \* if (n > 0) { *p = f(n - 1, p); } else g = g + 1;
  IfElse(Op(">", N, Num(0)),
         Block(<<Asg(Deref(P), F(Op("-", N, Num(1)), P))>>),
         Set("g", Plus(G, Num(1)))),
  \* for (k = 0; k < 3; k = k + 1) { a[k] = n + k; }
  For(Set("f.k", Num(0)), Op("<", Val("f.k"), Num(3)), Set("f.k", Plus(Val("f.k"), Num(1))),
      Block(<<Asg(Sub("f.a", Val("f.k")), Plus(N, Val("f.k")))>>)),
  \* n = a[n];
  Set("f.n", Cast(Sub("f.a", N))),
  \* if (n == 1) { if (g > 0) { return f(n - 1, p) + g; } return -n; }
  If(Op("==", N, Num(1)), Block(<<
     If(Op(">", G, Num(0)), Block(<<Ret(Plus(F(Op("-", N, Num(1)), P), G))>>)),
     Ret(Neg(N))>>)),
  \* r = MALLOC(4); *r = n; n = *r / 2; FREE(r);
  Block(<<Set("f.r", New(Num(4))), Asg(Deref(Val("f.r")), N),
          Set("f.n", Op("/", Cast(Deref(Val("f.r"))), Num(2))), Call("FREE", <<Val("f.r")>>)>>)>>

Family(s, t) == Unit(<<Var("g")>>, <<
  Fun("f", <<"f.n", "f.p">>, <<Array("f.a", 3), Var("f.k"), Var("f.r"), s, t, Ret(N)>>),
  Fun("main", <<>>, <<
    Var("q"), VarIs("i", Num(0)),
    Set("q", New(Op("*", SizeOf(0), Num(2)))),
    Asg(Deref(Val("q")), Call("GET", <<>>)),
    Asg(Deref(Paren(PtrOp("+", 1, Val("q"), Num(1)))), Num(1)),
    While(Op("<", Val("i"), Num(2)), Block(<<
      Output(F(F(Val("i"), Val("q")), PtrOp("+", 1, Val("q"), Num(1)))),
      Set("i", Plus(Val("i"), Num(1)))>>)),
    Output(G), Output(Cast(Deref(Val("q"))))>>)>>)

\* A function that returns inside a loop and would print, store and call itself if it went on.
\*   f(n, p) { int k; while (k < 3) { k = k + 1; if (n == 1) return k;
\*                                   *p = f(1, p); PRINT(n); } return n; }
\* The interpreter stays in the loop. C says nothing of the run, for nobody sets k.
ReturnInLoop == Unit(<<>>, <<
  Fun("f", <<"f.n", "f.p">>, <<
    Var("f.k"),
    While(Op("<", Val("f.k"), Num(3)), Block(<<
      Set("f.k", Plus(Val("f.k"), Num(1))),
      If(Op("==", N, Num(1)), Ret(Val("f.k"))),
      Asg(Deref(P), F(Num(1), P)), Output(N)>>)),
    Ret(N)>>),
  Fun("main", <<>>, <<Var("q"), Set("q", New(SizeOf(0))), Output(F(Num(0), Val("q")))>>)>>)

ASSUME LoopAssumption == ~Meaning(ReturnInLoop, <<>>).defined

Programs == Tests \cup {ReturnInLoop}
                  \cup {Family(s, t) : s, t \in {Statements[i] : i \in DOMAIN Statements}}
TwoInputs == {<<0>>, <<2>>}
LowPlaces == {16, 24, 32}

-----------------------------------------------------------------------------
(* A program the interpreter runs otherwise than C does.                   *)

\* for (i = 0; i < 2; i = i + 1) g = g + i;
UnbracedBody == {Unit(<<VarIs("g", Num(0))>>, <<Fun("main", <<>>, <<
  Var("i"),
  For(Set("i", Num(0)), Op("<", Val("i"), Num(2)), Set("i", Plus(Val("i"), Num(1))),
      Set("g", Plus(G, Val("i")))),
  Output(G)>>)>>)}

NoInput == {<<>>}
=============================================================================
