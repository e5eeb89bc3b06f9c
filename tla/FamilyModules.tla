-------------------------- MODULE FamilyModules --------------------------
(***************************************************************************)
(* A family of modules, and single modules, on which the analysis and the  *)
(* execution are compared.                                                 *)
(***************************************************************************)
EXTENDS IRModules

Leaf(name) == Define(name, <<>>, <<Block(name \o ".entry", {}, <<RetVoid>>)>>)

\* void set(fp *a) { *a = g; }    fp *id(fp *a) { return a; }
Set == Define("set", <<"set.a">>, <<Block("set.entry", {}, <<Store("g", "set.a"), RetVoid>>)>>)
Id  == Define("id", <<"id.a">>, <<Block("id.entry", {}, <<Ret("id.a")>>)>>)

(***************************************************************************)
(* main has two function pointers, p = f and q = h, and pp = &p. Its body  *)
(* branches, runs one statement on a branch and one after it, and may go   *)
(* round again; at the end it calls *p and **pp.                           *)
(***************************************************************************)
Statements(s) ==
    {<<>>,
     <<Store("g", "p")>>,
     <<Store("q", "pp")>>,
     <<Load(s \o ".t", "pp"), Store("g", s \o ".t")>>,
     <<Load(s \o ".v", "q"), Store(s \o ".v", "p")>>,
     <<MemCpy("p", "q")>>,
     <<Call(s \o ".c", "set", <<"q">>)>>,
     <<Load(s \o ".w", "pp"), Call(s \o ".c", "set", <<s \o ".w">>)>>,
     <<Call(s \o ".r", "id", <<"q">>), Store(s \o ".r", "pp")>>}

Main(onBranch, after, again) ==
    Define("main", <<>>, <<
      Block("entry", {"head"}, <<
        Alloca("p"), Alloca("q"), Alloca("pp"),
        Store("f", "p"), Store("h", "q"), Store("p", "pp")>>),
      Block("head", {"branch", "join"}, <<>>),
      Block("branch", {"join"}, onBranch),
      Block("join", again \cup {"end"}, after),
      Block("end", {}, <<
        Load("x", "p"), Call("end.1", "x", <<>>),
        Load("y", "pp"), Load("z", "y"), Call("end.2", "z", <<>>), RetVoid>>)>>)

Members(again) ==
    {Module(<<Leaf("f"), Leaf("g"), Leaf("h"), Set, Id, Main(c[1], c[2], again)>>, <<>>) :
        c \in Statements("b") \X Statements("j")}

LoopFamily == Members({"head"})
Family == LoopFamily \cup Members({})

(***************************************************************************)
(* Single modules outside the family.                                      *)
(***************************************************************************)
Entry(code) == Define("main", <<>>, <<Block("entry", {}, code)>>)

\* s->f = f; s->g = g; s->f();
TwoFields ==
    {Module(<<Leaf("f"), Leaf("g"), Entry(<<
        Call("s", "malloc", <<"undef">>),
        Gep("s.f", "s", "f"), Store("f", "s.f"),
        Gep("s.g", "s", "g"), Store("g", "s.g"),
        Load("x", "s.f"), Call("call", "x", <<>>), RetVoid>>), Declare("malloc")>>, <<>>)}

\* *p = g; s.f = f; s.tag = 0; s.f();
TaggedPointer ==
    {Module(<<Leaf("f"), Leaf("g"), Entry(<<
        Alloca("p"), Alloca("s"), Store("g", "p"),
        Gep("s.f", "s", "f"), Store("f", "s.f"),
        Gep("s.tag", "s", "tag"), Store("i32 0", "s.tag"),
        Load("x", "s.f"), Call("call", "x", <<>>), RetVoid>>)>>, <<>>)}

\* alloc is malloc or a function that fails and returns null.
FailingAllocator ==
    {Module(<<Leaf("f"),
      Define("fail", <<"fail.n">>, <<Block("fail.entry", {}, <<Ret("undef")>>)>>),
      Define("main", <<>>, <<
        Block("entry", {"left", "right"}, <<>>),
        Block("left", {"join"}, <<>>),
        Block("right", {"join"}, <<>>),
        Block("join", {}, <<
          Phi("alloc", <<"malloc", "fail">>, <<"left", "right">>),
          Call("r", "alloc", <<"undef">>), Store("f", "r"),
          Load("x", "r"), Call("call", "x", <<>>), RetVoid>>)>>),
      Declare("malloc")>>, <<>>)}

\* p = x or y; *p = *z; t = y; t->f();
MemCpyTwoTargets ==
    {Module(<<Leaf("f"), Leaf("g"), Define("main", <<>>, <<
        Block("entry", {"left", "right"}, <<
          Alloca("x"), Alloca("y"), Alloca("z"),
          Store("f", "x"), Store("f", "y"), Store("g", "z")>>),
        Block("left", {"join"}, <<>>),
        Block("right", {"join"}, <<>>),
        Block("join", {}, <<
          Phi("p", <<"x", "y">>, <<"left", "right">>), MemCpy("p", "z"),
          Load("t", "y"), Call("call", "t", <<>>), RetVoid>>)>>)>>, <<>>)}
=============================================================================
