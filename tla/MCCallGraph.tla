---------------------------- MODULE MCCallGraph ----------------------------
(***************************************************************************)
(* The builder, and the execution of the modules it has analysed.          *)
(***************************************************************************)
EXTENDS CallGraphSound, CallGraphTests

Tests == {Test04, Test09, Test11, Test13, Test17, Test19}

Leaf(name) == Define(name, <<>>, <<Block(name \o ".entry", {}, <<RetVoid>>)>>)

\* fp first(fp a, fp b) { return a; }   fp second(fp a, fp b) { return b; }
First  == Define("first", <<"first.a", "first.b">>,
                 <<Block("first.entry", {}, <<Ret("first.a")>>)>>)
Second == Define("second", <<"second.a", "second.b">>,
                 <<Block("second.entry", {}, <<Ret("second.b")>>)>>)

\* fp bounce(fp a, fp b) { if (...) return a; else return bounce(b, a); }
Bounce == Define("bounce", <<"bounce.a", "bounce.b">>, <<
            Block("bounce.entry", {"bounce.then", "bounce.else"}, <<>>),
            Block("bounce.then", {}, <<Ret("bounce.a")>>),
            Block("bounce.else", {}, <<
              Call("bounce.r", "bounce", <<"bounce.b", "bounce.a">>), Ret("bounce.r")>>)>>)

(***************************************************************************)
(* main picks one of two functions on a branch, whose condition may be     *)
(* constant, and then goes round a loop in which p is first f and then     *)
(* whatever the function picked returns for p and g.                       *)
(***************************************************************************)
Main(yes, no) ==
    Define("main", <<>>, <<
      Block("entry", {"then", "else"}, <<>>),
      Block("then", {"pick"}, <<>>),
      Block("else", {"pick"}, <<>>),
      Block("pick", {"loop"}, <<Phi("pick", <<yes, no>>, <<"then", "else">>)>>),
      Block("loop", {"loop", "end"}, <<
        Phi("p", <<"f", "r">>, <<"pick", "loop">>), Call("r", "pick", <<"p", "g">>)>>),
      Block("end", {}, <<Call("end.1", "r", <<>>), Call("end.2", "p", <<>>), RetVoid>>)>>)

Member(yes, no, cond) ==
    TypedModule(<<Leaf("f"), Leaf("g"), First, Second, Bounce, Main(yes, no)>>,
        {"first.a", "first.b", "second.a", "second.b", "bounce.a", "bounce.b", "bounce.r",
         "p", "pick", "r"},
        {"f", "g", "main", "end.1", "end.2"}, cond, <<>>)

\* The branch may depend on a variable or compare two constants either way.
Family ==
    {Member("bounce", "bounce", <<>>), Member("first", "second", <<>>)}
    \cup {Member("first", "second",
                "entry" :> [l |-> l, r |-> 1, then |-> "then", else |-> "else"]) : l \in 0 .. 2}

TestsAndFamily == Tests \cup Family

\* The theorem about executed modules speaks of these.
ASSUME PassingAssumption == \A p \in TestsAndFamily : OnlyPasses(p)

(***************************************************************************)
(* Single modules outside the family.                                      *)
(***************************************************************************)

\* fp get() { return f; }   get()();
ReturnsLiteral ==
    {TypedModule(
        <<Leaf("f"), Define("get", <<>>, <<Block("get.entry", {}, <<Ret("f")>>)>>),
          Define("main", <<>>, <<
            Block("entry", {}, <<Call("r", "get", <<>>), Call("c", "r", <<>>), RetVoid>>)>>)>>,
        {"r"}, {"f", "main", "c"}, <<>>, <<>>)}

\* int apply(int (*cb)()) { return cb(); }   in a module that never calls it
UncalledCallback ==
    {TypedModule(
        <<Define("apply", <<"apply.cb">>, <<
            Block("apply.entry", {}, <<Call("apply.c", "apply.cb", <<>>), Ret("apply.c")>>)>>)>>,
        {"apply.cb"}, {}, <<>>, <<>>)}
=============================================================================
