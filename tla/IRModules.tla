----------------------------- MODULE IRModules -----------------------------
(***************************************************************************)
(* Constructors for the modules FuncPtr.tla and CallGraph.tla are run on.  *)
(***************************************************************************)
EXTENDS PointsTo, TLC
LOCAL INSTANCE SequencesExt

Define(name, param, block) == [name |-> name, param |-> param, block |-> block]
Declare(name) == Define(name, <<>>, <<>>)
Block(name, succ, code) == [name |-> name, succ |-> succ, code |-> code]

LOCAL Elements(s) == {s[i] : i \in DOMAIN s}
LOCAL Names(X) == {x.name : x \in X}
LOCAL Named(X, n) == CHOOSE x \in X : x.name = n

\* The record FuncPtr.tla describes, from the functions in module order and, for
\* each call instruction, the callees the module's author expects there.
Module(fs, expected) ==
    LET F == Elements(fs)
        B == UNION {Elements(f.block) : f \in F}
        I == UNION {Elements(b.code) : b \in B}
        leaves(f) == {b \in Elements(f.block) : b.succ = {}}
        constant == [k \in 1 .. Cardinality({i \in I : i.op \in {"alloca", "call"}}) |->
                        "i32 " \o ToString(k - 1)]
    IN  [fun   |-> [i \in DOMAIN fs |-> fs[i].name],
         block |-> [n \in Names(F) |-> Names(Elements(Named(F, n).block))],
         entry |-> [n \in Names({f \in F : f.block # <<>>}) |-> Named(F, n).block[1].name],
         exit  |-> [n \in Names(F) |->
                       IF leaves(Named(F, n)) = {} THEN "no block"
                       ELSE (CHOOSE b \in leaves(Named(F, n)) : TRUE).name],
         param |-> [n \in Names(F) |-> Named(F, n).param],
         code  |-> [n \in Names(B) |-> Named(B, n).code],
         succ  |-> [n \in Names(B) |-> Named(B, n).succ],
         constant |-> constant,
         value |-> Names(F) \cup Elements(constant)
                   \cup UNION {Elements(f.param) : f \in F}
                   \cup UNION {Elements(i.src) \cup ({i.dst} \ {""}) : i \in I}
                   \cup {Called(i) : i \in {j \in I : j.op = "call"}},
         cond  |-> <<>>,
         expected |-> expected]

\* The calls of a function in the order of its blocks.
LOCAL IsCall(i) == i.op = "call"
LOCAL CallsOf(f) ==
    LET code == FoldLeft(LAMBDA c, b : c \o b.code, <<>>, f.block)
    IN  [k \in DOMAIN SelectSeq(code, IsCall) |-> <<f.name, SelectSeq(code, IsCall)[k]>>]

\* The record CallGraph.tla describes: with the values of function pointer type, the
\* functions and calls without a result, and the branches on constants.
TypedModule(fs, pointer, void, cond, expected) ==
    LET m == Module(fs, expected)
        I == UNION {Elements(m.code[b]) : b \in DOMAIN m.code}
    IN  [m EXCEPT !.cond = cond]
        @@ [pointer |-> pointer,
            call    |-> FoldLeft(LAMBDA calls, f : calls \o CallsOf(f), <<>>, fs),
            scalar  |-> (Elements(m.fun) \cup {i.dst : i \in {j \in I : j.op = "call"}}) \ void]
=============================================================================
