------------------------- MODULE InterpreterProofs -------------------------
(***************************************************************************)
(* Theorems about the interpreter, for every program, input and allocator  *)
(* the assumptions admit.                                                  *)
(***************************************************************************)
EXTENDS Interpreter, SequenceTheorems, TLAPS

-----------------------------------------------------------------------------
(* The inductive invariant.                                                *)

\* A task that cannot change variables, output or values by itself.
Quiet(t)    == t[1] \in {"visit", "loop"}
AllQuiet(w) == \A i \in DOMAIN w : Quiet(w[i])

StmtTask(t) == prog.node[t[2]].k \in StmtKinds

\* Behind a statement no expression waits for its end: a return statement is never inside
\* one.
Ordered(w) == \A i, j \in DOMAIN w : i < j /\ StmtTask(w[i]) => Quiet(w[j])

IsFrame(f) == f = [slot |-> f.slot, expr |-> f.expr, pc |-> f.pc, returned |-> f.returned,
                   work |-> f.work, call |-> f.call]

FrameInv(f) == /\ IsFrame(f)
               /\ FrameOK(f)
               /\ Ordered(f.work)
               /\ f.returned => AllQuiet(f.work)

ProgOK == prog \in Program

FramesInv == /\ \E S : frames \in Seq(S)
             /\ Len(frames) >= 2
             /\ \A i \in DOMAIN frames : FrameInv(frames[i])
             /\ CallPending

WorldInv == /\ heap \in [DOMAIN heap -> Int]
            /\ live \subseteq [at : Int, size : Int]
            /\ input \in Seq(Int)
            /\ output \in Seq(Int)
            /\ status \in {"running", "done", "aborted"}

IInv == ProgOK /\ FramesInv /\ WorldInv

-----------------------------------------------------------------------------
(* The tree.                                                               *)

\* The nodes of the tree, the globals among them.
LEMMA TreeFacts == ProgOK => \A n \in DOMAIN prog.node : /\ IsNode(prog, n)
                                                        /\ Kids(n) \in Seq(Nodes_)
  BY ProgramAssumption DEF ProgOK, IsProgram, IsNode, Kids, Nodes_

LEMMA NodeFacts == ProgOK => \A n \in Nodes_ : IsNode(prog, n)
  BY TreeFacts DEF Nodes_

LEMMA KidFacts == ProgOK => \A n \in Nodes_ : /\ Kids(n) \in Seq(Nodes_)
                                              /\ DOMAIN Kids(n) = 1 .. Len(Kids(n))
                                              /\ Kind(n) \in ExprKinds \cup StmtKinds
<1> SUFFICES ASSUME ProgOK, NEW n \in Nodes_
             PROVE  /\ Kids(n) \in Seq(Nodes_)
                    /\ DOMAIN Kids(n) = 1 .. Len(Kids(n))
                    /\ Kind(n) \in ExprKinds \cup StmtKinds
  OBVIOUS
<1>1. IsNode(prog, n) /\ Kids(n) \in Seq(Nodes_)
  BY TreeFacts DEF Nodes_
<1>2. Kind(n) \in ExprKinds \cup StmtKinds
  BY <1>1 DEF IsNode, Kind
<1>3. \A S : \A s \in Seq(S) : DOMAIN s = 1 .. Len(s)
  OBVIOUS
<1> QED BY <1>1, <1>2, <1>3

\* The visits of a list of nodes.
LEMMA VisitsOK ==
  \A ns \in Seq(Nodes_) : /\ Visits(ns) \in Seq(Tasks)
                          /\ Len(Visits(ns)) = Len(ns)
                          /\ DOMAIN Visits(ns) = 1 .. Len(ns)
                          /\ \A i \in DOMAIN Visits(ns) : /\ ns[i] \in Nodes_
                                                          /\ Visits(ns)[i] = <<"visit", ns[i]>>
                          /\ AllQuiet(Visits(ns))
<1> SUFFICES ASSUME NEW ns \in Seq(Nodes_)
             PROVE  /\ Visits(ns) \in Seq(Tasks)
                    /\ Len(Visits(ns)) = Len(ns)
                    /\ DOMAIN Visits(ns) = 1 .. Len(ns)
                    /\ \A i \in DOMAIN Visits(ns) : /\ ns[i] \in Nodes_
                                                    /\ Visits(ns)[i] = <<"visit", ns[i]>>
                    /\ AllQuiet(Visits(ns))
  OBVIOUS
<1>1. DOMAIN ns = 1 .. Len(ns) /\ Len(ns) \in Nat /\ \A i \in 1 .. Len(ns) : ns[i] \in Nodes_
  OBVIOUS
<1>2. Visits(ns) = [i \in 1 .. Len(ns) |-> <<"visit", ns[i]>>]
  BY <1>1 DEF Visits
<1>3. \A i \in 1 .. Len(ns) : <<"visit", ns[i]>> \in Tasks
  BY <1>1 DEF Tasks
<1>4. Visits(ns) \in Seq(Tasks) /\ Len(Visits(ns)) = Len(ns)
  BY <1>1, <1>2, <1>3, IsASeq
<1> QED BY <1>1, <1>2, <1>4 DEF AllQuiet, Quiet

LEMMA QuietOrdered == \A w : AllQuiet(w) => Ordered(w)
  BY DEF AllQuiet, Ordered

LEMMA OneVisit == \A m \in Nodes_ : /\ <<m>> \in Seq(Nodes_)
                                    /\ Visits(<<m>>) \in Seq(Tasks)
                                    /\ DOMAIN Visits(<<m>>) = 1 .. 1
                                    /\ Visits(<<m>>)[1] = <<"visit", m>>
<1> TAKE m \in Nodes_
<1>1. <<m>> \in Seq(Nodes_) /\ Len(<<m>>) = 1 /\ <<m>>[1] = m
  OBVIOUS
<1>2. Visits(<<m>>) \in Seq(Tasks) /\ DOMAIN Visits(<<m>>) = 1 .. 1
  BY <1>1, VisitsOK
<1>3. Visits(<<m>>)[1] = <<"visit", <<m>>[1]>>
  BY <1>1 DEF Visits
<1> QED BY <1>1, <1>2, <1>3

\* Work put before other work.
LEMMA Joined ==
  \A v, w \in Seq(Tasks) :
    /\ v \o w \in Seq(Tasks)
    /\ DOMAIN (v \o w) = 1 .. Len(v) + Len(w)
    /\ Len(v) \in Nat /\ Len(w) \in Nat
    /\ \A i \in 1 .. Len(v) : i \in DOMAIN v /\ (v \o w)[i] = v[i]
    /\ \A i \in Len(v) + 1 .. Len(v) + Len(w) : /\ i - Len(v) \in DOMAIN w
                                                /\ (v \o w)[i] = w[i - Len(v)]
    /\ AllQuiet(v) /\ AllQuiet(w) => AllQuiet(v \o w)
<1> TAKE v, w \in Seq(Tasks)
<1> DEFINE u == v \o w
<1>1. /\ u \in Seq(Tasks)
      /\ DOMAIN u = 1 .. Len(v) + Len(w)
      /\ Len(v) \in Nat /\ Len(w) \in Nat
      /\ \A i \in 1 .. Len(v) : i \in DOMAIN v /\ u[i] = v[i]
      /\ \A i \in Len(v) + 1 .. Len(v) + Len(w) : i - Len(v) \in DOMAIN w /\ u[i] = w[i - Len(v)]
  OBVIOUS
<1> HIDE DEF u
<1>2. \A i \in DOMAIN u : i \in 1 .. Len(v) \/ i \in Len(v) + 1 .. Len(v) + Len(w)
  BY <1>1
<1>3. AllQuiet(v) /\ AllQuiet(w) => AllQuiet(u)
  BY <1>1, <1>2 DEF AllQuiet
<1> QED BY <1>1, <1>3 DEF u

LEMMA OneTask == \A t \in Tasks : /\ <<t>> \in Seq(Tasks)
                                  /\ DOMAIN <<t>> = 1 .. 1 /\ Len(<<t>>) = 1
                                  /\ <<t>>[1] = t
                                  /\ Quiet(t) => AllQuiet(<<t>>)
  BY DEF AllQuiet

LEMMA KindsDiffer == \A k \in ExprKinds : k \notin StmtKinds
  BY DEF ExprKinds, StmtKinds

LEMMA TaskOfNode == \A do, n : /\ (StmtTask(<<do, n>>) <=> Kind(n) \in StmtKinds)
                               /\ (Quiet(<<do, n>>) <=> do \in {"visit", "loop"})
  BY DEF StmtTask, Quiet, Kind

\* The visits of expressions, then a task of the node they belong to.
LEMMA ExpressionsFirst ==
  \A ns \in Seq(Nodes_), n \in Nodes_, do \in {"visit", "finish", "branch", "loop"} :
    (\A i \in 1 .. Len(ns) : Kind(ns[i]) \in ExprKinds)
    => LET w == Visits(ns) \o <<<<do, n>>>>
       IN  /\ w \in Seq(Tasks)
           /\ Ordered(w)
           /\ \A i \in DOMAIN w : StmtTask(w[i]) => Kind(n) \in StmtKinds
<1> SUFFICES ASSUME NEW ns \in Seq(Nodes_), NEW n \in Nodes_,
                    NEW do \in {"visit", "finish", "branch", "loop"},
                    \A i \in 1 .. Len(ns) : Kind(ns[i]) \in ExprKinds
             PROVE  LET w == Visits(ns) \o <<<<do, n>>>>
                    IN  /\ w \in Seq(Tasks)
                        /\ Ordered(w)
                        /\ \A i \in DOMAIN w : StmtTask(w[i]) => Kind(n) \in StmtKinds
  OBVIOUS
<1> DEFINE v == Visits(ns)
           w == v \o <<<<do, n>>>>
<1>1. v \in Seq(Tasks) /\ Len(v) = Len(ns) /\ Len(ns) \in Nat
  BY VisitsOK
<1>2. \A i \in 1 .. Len(ns) : v[i] = <<"visit", ns[i]>>
  BY VisitsOK
<1>3. <<do, n>> \in Tasks /\ <<<<do, n>>>> \in Seq(Tasks) /\ Len(<<<<do, n>>>>) = 1
      /\ <<<<do, n>>>>[1] = <<do, n>>
  BY DEF Tasks
<1> HIDE DEF v
<1>4. w \in Seq(Tasks) /\ Len(w) = Len(ns) + 1 /\ DOMAIN w = 1 .. Len(ns) + 1
      /\ (\A i \in 1 .. Len(ns) : w[i] = v[i]) /\ w[Len(ns) + 1] = <<do, n>>
  BY <1>1, <1>3
<1> HIDE DEF w
<1>5. \A i \in 1 .. Len(ns) : ~StmtTask(w[i])
  <2> SUFFICES ASSUME NEW i \in 1 .. Len(ns)
               PROVE  ~StmtTask(w[i])
    OBVIOUS
  <2>1. w[i] = <<"visit", ns[i]>>
    BY <1>2, <1>4
  <2>2. Kind(ns[i]) \in ExprKinds
    OBVIOUS
  <2> QED BY <2>1, <2>2, KindsDiffer, TaskOfNode
<1>6. StmtTask(w[Len(ns) + 1]) => Kind(n) \in StmtKinds
  BY <1>4, TaskOfNode
<1>7. \A i, j \in DOMAIN w : i < j => i \in 1 .. Len(ns)
  BY <1>1, <1>4
<1>8. Ordered(w)
  BY <1>5, <1>7 DEF Ordered
<1>9. \A i \in DOMAIN w : i \in 1 .. Len(ns) \/ i = Len(ns) + 1
  BY <1>1, <1>4
<1>10. \A i \in DOMAIN w : StmtTask(w[i]) => Kind(n) \in StmtKinds
  BY <1>5, <1>6, <1>9
<1> QED BY <1>4, <1>8, <1>10 DEF v, w

\* What a handler plans is well ordered, and has statements only if it is a statement's.
LEMMA HandlerOK ==
  ProgOK => \A n \in Nodes_ : /\ Handler(n) \in Seq(Tasks)
                              /\ Ordered(Handler(n))
                              /\ \A i \in DOMAIN Handler(n) :
                                   StmtTask(Handler(n)[i]) => Kind(n) \in StmtKinds
<1> SUFFICES ASSUME ProgOK, NEW n \in Nodes_
             PROVE  /\ Handler(n) \in Seq(Tasks)
                    /\ Ordered(Handler(n))
                    /\ \A i \in DOMAIN Handler(n) :
                         StmtTask(Handler(n)[i]) => Kind(n) \in StmtKinds
  OBVIOUS
<1> DEFINE k == Kids(n)
<1>1. /\ k \in Seq(Nodes_)
      /\ DOMAIN k = 1 .. Len(k)
      /\ Kind(n) \in ExprKinds \cup StmtKinds
  BY KidFacts
<1>2. IsNode(prog, n)
  BY NodeFacts
<1>3. Len(k) \in Nat /\ \A i \in 1 .. Len(k) : k[i] \in Nodes_
  BY <1>1
<1>4. CASE Kind(n) \in {"num", "ref", "none"}
  <2>1. Handler(n) = <<>>
    BY <1>4 DEF Handler
  <2> QED BY <2>1 DEF Ordered
<1>5. CASE Kind(n) = "block"
  <2>1. Handler(n) = Visits(k)
    BY <1>5 DEF Handler, Children
  <2>2. Handler(n) \in Seq(Tasks) /\ AllQuiet(Handler(n))
    BY <1>1, <2>1, VisitsOK
  <2>3. Kind(n) \in StmtKinds
    BY <1>5 DEF StmtKinds
  <2> QED BY <2>2, <2>3, QuietOrdered
<1>6. CASE Kind(n) = "sub"
  <2>1. Handler(n) = Visits(<<k[2]>>)
    BY <1>6 DEF Handler
  <2>2. Len(k) = 2
    BY <1>2, <1>6 DEF IsNode, Kind, Kids
  <2>3. k[2] \in Nodes_
    BY <1>3, <2>2
  <2>4. Handler(n) \in Seq(Tasks) /\ AllQuiet(Handler(n)) /\ DOMAIN Handler(n) = 1 .. 1
    BY <2>1, <2>3, OneVisit, VisitsOK
  <2>5. Handler(n)[1] = <<"visit", k[2]>>
    BY <2>1, <2>3, OneVisit
  <2>6. Kind(k[2]) \in ExprKinds
    BY <1>2, <1>6, <2>2, <1>1 DEF IsNode, Kind, Kids, ExprKinds
  <2>7. ~StmtTask(Handler(n)[1])
    BY <2>5, <2>6, KindsDiffer, TaskOfNode
  <2> QED BY <2>4, <2>7, QuietOrdered
<1>7. CASE Kind(n) \in {"sizeof", "decl"}
  <2>1. Handler(n) = <<<<"finish", n>>>>
    BY <1>7 DEF Handler
  <2>2. <<"finish", n>> \in Tasks
    BY DEF Tasks
  <2>3. Handler(n) \in Seq(Tasks) /\ DOMAIN Handler(n) = 1 .. 1 /\ Handler(n)[1] = <<"finish", n>>
    BY <2>1, <2>2
  <2>4. Ordered(Handler(n))
    BY <2>3 DEF Ordered
  <2>5. StmtTask(Handler(n)[1]) => Kind(n) \in StmtKinds
    BY <2>3, TaskOfNode
  <2> QED BY <2>3, <2>4, <2>5
<1>8. CASE Kind(n) \in {"if", "while"}
  <2>1. PICK do \in {"branch", "loop"} : Handler(n) = Visits(<<k[1]>>) \o <<<<do, n>>>>
    BY <1>8 DEF Handler
  <2>2. Len(k) >= 2 /\ Kind(k[1]) \in ExprKinds
    <3>1. CASE Kind(n) = "if"
      <4>1. Len(k) \in 2 .. 3 /\ Kind(k[1]) \in ExprKinds
        BY <1>2, <3>1 DEF IsNode, Kind, Kids
      <4> QED BY <4>1
    <3>2. CASE Kind(n) = "while"
      <4>1. Len(k) \in 2 .. 2 /\ Kind(k[1]) \in ExprKinds
        BY <1>2, <3>2 DEF IsNode, Kind, Kids
      <4> QED BY <4>1
    <3> QED BY <1>8, <3>1, <3>2
  <2>3. <<k[1]>> \in Seq(Nodes_) /\ Len(<<k[1]>>) = 1 /\ <<k[1]>>[1] = k[1]
    BY <1>3, <2>2
  <2>4. \A i \in 1 .. Len(<<k[1]>>) : Kind(<<k[1]>>[i]) \in ExprKinds
    BY <2>2, <2>3
  <2> HIDE DEF k
  <2> QED BY <2>1, <2>3, <2>4, ExpressionsFirst
<1>9. CASE Kind(n) = "for"
  <2>1. Handler(n) = Visits(<<k[1], k[2]>>) \o <<<<"loop", n>>>>
    BY <1>9 DEF Handler
  <2>2. Len(k) = 4
    BY <1>2, <1>9, <1>3 DEF IsNode, Kind, Kids
  <2>3. <<k[1], k[2]>> \in Seq(Nodes_) /\ Len(<<k[1], k[2]>>) = 2
    BY <1>3, <2>2
  <2> DEFINE v == Visits(<<k[1], k[2]>>)
  <2>4. v \in Seq(Tasks) /\ Len(v) = 2 /\ AllQuiet(v)
    BY <2>3, VisitsOK
  <2>5. <<"loop", n>> \in Tasks /\ Quiet(<<"loop", n>>)
    BY TaskOfNode DEF Tasks
  <2> HIDE DEF v
  <2>6. v \o <<<<"loop", n>>>> \in Seq(Tasks) /\ AllQuiet(v \o <<<<"loop", n>>>>)
    BY <2>4, <2>5, OneTask, Joined
  <2>9. Kind(n) \in StmtKinds
    BY <1>9 DEF StmtKinds
  <2> QED BY <2>1, <2>6, <2>9, QuietOrdered DEF v
<1>10. CASE Kind(n) \in {"cast", "paren", "neg", "deref", "bin", "asg", "call", "ret"}
  <2>1. Handler(n) = Visits(k) \o <<<<"finish", n>>>>
    BY <1>10 DEF Handler, Children
  <2>2. \A i \in 1 .. Len(k) : Kind(k[i]) \in ExprKinds
    BY <1>1, <1>2, <1>10 DEF IsNode, Kind, Kids, ExprKinds
  <2> QED BY <1>1, <2>1, <2>2, ExpressionsFirst
<1> QED BY <1>1, <1>4, <1>5, <1>6, <1>7, <1>8, <1>9, <1>10 DEF ExprKinds, StmtKinds

-----------------------------------------------------------------------------
(* The work of a frame.                                                    *)

LEMMA WorkRest ==
  \A w \in Seq(Tasks) :
    w # <<>> /\ Ordered(w) => /\ Head(w) = w[1] /\ w[1] \in Tasks /\ 1 \in DOMAIN w
                              /\ Tail(w) \in Seq(Tasks)
                              /\ Ordered(Tail(w))
                              /\ AllQuiet(w) => AllQuiet(Tail(w))
                              /\ StmtTask(w[1]) => AllQuiet(Tail(w))
<1> SUFFICES ASSUME NEW w \in Seq(Tasks), w # <<>>, Ordered(w)
             PROVE  /\ Head(w) = w[1] /\ w[1] \in Tasks /\ 1 \in DOMAIN w
                    /\ Tail(w) \in Seq(Tasks)
                    /\ Ordered(Tail(w))
                    /\ AllQuiet(w) => AllQuiet(Tail(w))
                    /\ StmtTask(w[1]) => AllQuiet(Tail(w))
  OBVIOUS
<1> DEFINE t == Tail(w)
<1>1. /\ Head(w) = w[1] /\ w[1] \in Tasks /\ 1 \in DOMAIN w
      /\ t \in Seq(Tasks)
      /\ DOMAIN w = 1 .. Len(w) /\ Len(w) \in Nat /\ Len(w) >= 1
      /\ DOMAIN t = 1 .. Len(w) - 1
      /\ \A i \in DOMAIN t : t[i] = w[i + 1]
  BY HeadTailProperties
<1> HIDE DEF t
<1>2. \A i \in DOMAIN t : i \in Int /\ i + 1 \in DOMAIN w /\ 1 < i + 1
  BY <1>1
<1>3. \A i, j \in DOMAIN t : i < j => i + 1 < j + 1
  BY <1>2
<1>4. Ordered(t)
  BY <1>1, <1>2, <1>3 DEF Ordered
<1>5. AllQuiet(w) => AllQuiet(t)
  BY <1>1, <1>2 DEF AllQuiet
<1>6. StmtTask(w[1]) => AllQuiet(t)
  BY <1>1, <1>2 DEF AllQuiet, Ordered
<1> QED BY <1>1, <1>4, <1>5, <1>6 DEF t

\* The task in hand is replaced by the work it brings.
LEMMA WorkPut ==
  \A w, todo \in Seq(Tasks) :
    /\ w # <<>> /\ Ordered(w) /\ Ordered(todo)
    /\ \A i \in DOMAIN todo : StmtTask(todo[i]) => StmtTask(Head(w))
    => /\ todo \o Tail(w) \in Seq(Tasks)
       /\ Ordered(todo \o Tail(w))
       /\ AllQuiet(w) /\ AllQuiet(todo) => AllQuiet(todo \o Tail(w))
<1> SUFFICES ASSUME NEW w \in Seq(Tasks), NEW todo \in Seq(Tasks),
                    w # <<>>, Ordered(w), Ordered(todo),
                    \A i \in DOMAIN todo : StmtTask(todo[i]) => StmtTask(Head(w))
             PROVE  /\ todo \o Tail(w) \in Seq(Tasks)
                    /\ Ordered(todo \o Tail(w))
                    /\ AllQuiet(w) /\ AllQuiet(todo) => AllQuiet(todo \o Tail(w))
  OBVIOUS
<1> DEFINE t == Tail(w)
           u == todo \o t
           n == Len(todo)
<1>1. /\ Head(w) = w[1]
      /\ t \in Seq(Tasks)
      /\ Ordered(t)
      /\ AllQuiet(w) => AllQuiet(t)
      /\ StmtTask(w[1]) => AllQuiet(t)
  BY WorkRest
<1> HIDE DEF t
<1>2. /\ u \in Seq(Tasks)
      /\ DOMAIN u = 1 .. n + Len(t)
      /\ n \in Nat /\ Len(t) \in Nat
      /\ \A i \in 1 .. n : i \in DOMAIN todo /\ u[i] = todo[i]
      /\ \A i \in n + 1 .. n + Len(t) : i - n \in DOMAIN t /\ u[i] = t[i - n]
      /\ AllQuiet(todo) /\ AllQuiet(t) => AllQuiet(u)
  BY <1>1, Joined
<1> HIDE DEF u, n
<1>3. \A i \in DOMAIN u : i \in Int /\ (i \in 1 .. n \/ i \in n + 1 .. n + Len(t))
  BY <1>2
<1>4. ASSUME NEW i \in DOMAIN u, NEW j \in DOMAIN u, i < j, StmtTask(u[i])
      PROVE  Quiet(u[j])
  <2>1. CASE i \in 1 .. n /\ j \in 1 .. n
    BY <1>2, <1>4, <2>1 DEF Ordered
  <2>2. CASE i \in 1 .. n /\ j \in n + 1 .. n + Len(t)
    <3>1. StmtTask(w[1])
      BY <1>1, <1>2, <1>4, <2>2
    <3> QED BY <1>1, <1>2, <2>2, <3>1 DEF AllQuiet
  <2>3. CASE i \in n + 1 .. n + Len(t) /\ j \in n + 1 .. n + Len(t)
    <3>1. i - n \in DOMAIN t /\ j - n \in DOMAIN t /\ u[i] = t[i - n] /\ u[j] = t[j - n]
      BY <1>2, <2>3
    <3>2. i - n < j - n
      BY <1>2, <1>3, <1>4
    <3> QED BY <1>1, <1>4, <3>1, <3>2 DEF Ordered
  <2>4. ~(i \in n + 1 .. n + Len(t) /\ j \in 1 .. n)
    BY <1>2, <1>3, <1>4
  <2> QED BY <1>3, <2>1, <2>2, <2>3, <2>4
<1>5. Ordered(u)
  BY <1>4 DEF Ordered
<1> QED BY <1>1, <1>2, <1>5 DEF u, t

-----------------------------------------------------------------------------
(* Frames.                                                                 *)

LEMMA PutWork == \A f, w : IsFrame(f) => LET g == [f EXCEPT !.work = w]
  IN IsFrame(g) /\ g.slot = f.slot /\ g.expr = f.expr /\ g.pc = f.pc
     /\ g.returned = f.returned /\ g.work = w /\ g.call = f.call
  BY DEF IsFrame

LEMMA PutExpr == \A f, e : IsFrame(f) => LET g == [f EXCEPT !.expr = e]
  IN IsFrame(g) /\ g.slot = f.slot /\ g.expr = e /\ g.pc = f.pc
     /\ g.returned = f.returned /\ g.work = f.work /\ g.call = f.call
  BY DEF IsFrame

LEMMA PutSlot == \A f, s : IsFrame(f) => LET g == [f EXCEPT !.slot = s]
  IN IsFrame(g) /\ g.slot = s /\ g.expr = f.expr /\ g.pc = f.pc
     /\ g.returned = f.returned /\ g.work = f.work /\ g.call = f.call
  BY DEF IsFrame

LEMMA PutPc == \A f, n : IsFrame(f) => LET g == [f EXCEPT !.pc = n]
  IN IsFrame(g) /\ g.slot = f.slot /\ g.expr = f.expr /\ g.pc = n
     /\ g.returned = f.returned /\ g.work = f.work /\ g.call = f.call
  BY DEF IsFrame

LEMMA PutReturned == \A f, b : IsFrame(f) => LET g == [f EXCEPT !.returned = b]
  IN IsFrame(g) /\ g.slot = f.slot /\ g.expr = f.expr /\ g.pc = f.pc
     /\ g.returned = b /\ g.work = f.work /\ g.call = f.call
  BY DEF IsFrame

LEMMA TopFacts ==
  FramesInv => /\ Depth \in Nat /\ Depth >= 2
               /\ DOMAIN frames = 1 .. Depth
               /\ Depth \in DOMAIN frames /\ Depth - 1 \in DOMAIN frames
               /\ FrameInv(Top)
<1> SUFFICES ASSUME FramesInv
             PROVE  /\ Depth \in Nat /\ Depth >= 2
                    /\ DOMAIN frames = 1 .. Depth
                    /\ Depth \in DOMAIN frames /\ Depth - 1 \in DOMAIN frames
                    /\ FrameInv(Top)
  OBVIOUS
<1>1. PICK S : frames \in Seq(S)
  BY DEF FramesInv
<1>2. Depth \in Nat /\ DOMAIN frames = 1 .. Depth /\ Depth >= 2
  BY <1>1 DEF Depth, FramesInv
<1>3. Depth \in DOMAIN frames /\ Depth - 1 \in DOMAIN frames
  BY <1>2
<1> QED BY <1>2, <1>3 DEF FramesInv, Top

\* A step that keeps the number of frames, what they were pushed for, and the calls in
\* progress.
LEMMA SameDepth ==
  /\ FramesInv /\ prog' = prog
  /\ \E S : frames' \in Seq(S)
  /\ Len(frames') = Depth /\ DOMAIN frames' = DOMAIN frames
  /\ \A i \in DOMAIN frames : /\ FrameInv(frames'[i])
                              /\ frames'[i].call = frames[i].call
                              /\ i < Depth => frames'[i].pc = frames[i].pc
  => FramesInv'
<1> SUFFICES ASSUME FramesInv, prog' = prog,
                    \E S : frames' \in Seq(S),
                    Len(frames') = Depth, DOMAIN frames' = DOMAIN frames,
                    \A i \in DOMAIN frames : /\ FrameInv(frames'[i])
                                             /\ frames'[i].call = frames[i].call
                                             /\ i < Depth => frames'[i].pc = frames[i].pc
             PROVE  FramesInv'
  OBVIOUS
<1>1. Depth \in Nat /\ Depth >= 2 /\ DOMAIN frames = 1 .. Depth
  BY TopFacts
<1>2. (\A i \in DOMAIN frames : FrameInv(frames[i]))'
  BY DEF FrameInv, IsFrame, FrameOK, Nodes_, Tasks, Ordered, AllQuiet, StmtTask, Quiet
<1>3. CallPending'
  <2>1. Depth' = Depth
    BY DEF Depth
  <2>2. SUFFICES ASSUME NEW i \in 2 .. Depth - 1
                 PROVE  frames'[i].pc = frames'[i + 1].call
    BY <2>1 DEF CallPending
  <2>3. i \in DOMAIN frames /\ i + 1 \in DOMAIN frames /\ i < Depth
    BY <1>1
  <2>4. frames[i].pc = frames[i + 1].call
    BY DEF FramesInv, CallPending
  <2>5. frames'[i].pc = frames[i].pc
    BY <2>3
  <2>6. frames'[i + 1].call = frames[i + 1].call
    BY <2>3
  <2> QED BY <2>4, <2>5, <2>6
<1> QED BY <1>1, <1>2, <1>3 DEF FramesInv

LEMMA SetTopKeeps ==
  /\ FramesInv /\ prog' = prog
  /\ \E f : FrameInv(f) /\ f.call = Top.call /\ SetTop(f)
  => FramesInv'
<1> SUFFICES ASSUME FramesInv, prog' = prog,
                    NEW f, FrameInv(f), f.call = Top.call, SetTop(f)
             PROVE  FramesInv'
  OBVIOUS
<1>1. /\ Depth \in Nat /\ DOMAIN frames = 1 .. Depth /\ Depth \in DOMAIN frames
  BY TopFacts
<1>2. PICK S : frames \in Seq(S)
  BY DEF FramesInv
<1>3. frames' = [frames EXCEPT ![Depth] = f]
  BY DEF SetTop
<1>4. frames' \in Seq(S \cup {f}) /\ Len(frames') = Len(frames) /\ DOMAIN frames' = DOMAIN frames
  <2>1. frames \in Seq(S \cup {f})
    BY <1>2
  <2>2. Len(frames) = Depth
    BY DEF Depth
  <2> QED BY <1>1, <1>3, <2>1, <2>2, ExceptSeq
<1>5. frames'[Depth] = f /\ \A i \in DOMAIN frames : i # Depth => frames'[i] = frames[i]
  BY <1>1, <1>3
<1>6. \A i \in DOMAIN frames : /\ FrameInv(frames'[i])
                               /\ frames'[i].call = frames[i].call
                               /\ i < Depth => frames'[i].pc = frames[i].pc
  <2> SUFFICES ASSUME NEW i \in DOMAIN frames
               PROVE  /\ FrameInv(frames'[i])
                      /\ frames'[i].call = frames[i].call
                      /\ i < Depth => frames'[i].pc = frames[i].pc
    OBVIOUS
  <2>1. CASE i = Depth
    BY <1>1, <1>5, <2>1 DEF Top
  <2>2. CASE i # Depth
    BY <1>5, <2>2 DEF FramesInv
  <2> QED BY <2>1, <2>2
<1> QED BY <1>4, <1>6, SameDepth DEF Depth

LEMMA BindOK ==
  \A f, key : \A v \in Int :
    f \in [DOMAIN f -> Int] => /\ Bind(f, key, v) \in [DOMAIN Bind(f, key, v) -> Int]
                               /\ DOMAIN Bind(f, key, v) = DOMAIN f \cup {key}
  BY DEF Bind

\* What the top frame is about to do.
LEMMA InHand ==
  ProgOK /\ FramesInv /\ Top.work # <<>>
  => /\ Task \in Tasks /\ Node \in Nodes_
     /\ IsNode(prog, Node) /\ Kids(Node) \in Seq(Nodes_)
     /\ (StmtTask(Task) <=> Kind(Node) \in StmtKinds)
     /\ (Top.returned => Quiet(Task))
     /\ (Quiet(Task) <=> Task[1] \in {"visit", "loop"})
     /\ Tail(Top.work) \in Seq(Tasks)
     /\ Ordered(Tail(Top.work))
     /\ (Top.returned => AllQuiet(Tail(Top.work)))
     /\ (StmtTask(Task) => AllQuiet(Tail(Top.work)))
<1> SUFFICES ASSUME ProgOK, FramesInv, Top.work # <<>>
             PROVE  /\ Task \in Tasks /\ Node \in Nodes_
                    /\ IsNode(prog, Node) /\ Kids(Node) \in Seq(Nodes_)
                    /\ (StmtTask(Task) <=> Kind(Node) \in StmtKinds)
                    /\ (Top.returned => Quiet(Task))
                    /\ (Quiet(Task) <=> Task[1] \in {"visit", "loop"})
                    /\ Tail(Top.work) \in Seq(Tasks)
                    /\ Ordered(Tail(Top.work))
                    /\ (Top.returned => AllQuiet(Tail(Top.work)))
                    /\ (StmtTask(Task) => AllQuiet(Tail(Top.work)))
  OBVIOUS
<1>1. FrameInv(Top)
  BY TopFacts
<1>2. Top.work \in Seq(Tasks) /\ Ordered(Top.work) /\ (Top.returned => AllQuiet(Top.work))
  BY <1>1 DEF FrameInv, FrameOK
<1>3. /\ Task = Top.work[1] /\ Task \in Tasks /\ 1 \in DOMAIN Top.work
      /\ Tail(Top.work) \in Seq(Tasks)
      /\ Ordered(Tail(Top.work))
      /\ (AllQuiet(Top.work) => AllQuiet(Tail(Top.work)))
      /\ (StmtTask(Top.work[1]) => AllQuiet(Tail(Top.work)))
  BY <1>2, WorkRest DEF Task
<1>4. Top.returned => Quiet(Task)
  BY <1>2, <1>3 DEF AllQuiet
<1>5. Node \in Nodes_
  BY <1>3 DEF Node, Tasks
<1>6. (StmtTask(Task) <=> Kind(Node) \in StmtKinds) /\ (Quiet(Task) <=> Task[1] \in {"visit", "loop"})
  BY DEF StmtTask, Kind, Node, Quiet
<1> QED BY <1>2, <1>3, <1>4, <1>5, <1>6, NodeFacts, KidFacts

\* Values are integers.
LEMMA ValuesAreInt ==
  ProgOK /\ FramesInv => \A n \in Nodes_ : \A v \in ExactVal(n) : v \in Int
<1> SUFFICES ASSUME ProgOK, FramesInv, NEW n \in Nodes_, NEW v \in ExactVal(n)
             PROVE  v \in Int
  OBVIOUS
<1>1. IsNode(prog, n)
  BY NodeFacts
<1>2. FrameOK(Top)
  BY TopFacts DEF FrameInv
<1>3. CASE Kind(n) = "num"
  <2>1. v = Data(n)
    BY <1>3 DEF ExactVal, StmtVal
  <2> QED BY <1>1, <1>3, <2>1 DEF IsNode, Kind, Data
<1>4. CASE Kind(n) \in {"ref", "sub"}
  <2>1. PICK p \in Places(n) : v = frames[p[1]].slot[p[2]]
    BY <1>4 DEF ExactVal
  <2>2. p[1] \in DOMAIN frames /\ p[2] \in DOMAIN frames[p[1]].slot
    BY <2>1 DEF Places, Innermost, Holders
  <2>3. FrameOK(frames[p[1]])
    BY <2>2 DEF FramesInv, FrameInv
  <2> QED BY <2>1, <2>2, <2>3 DEF FrameOK
<1>5. CASE Kind(n) \notin {"num", "ref", "sub"}
  <2>1. n \in DOMAIN Top.expr /\ v = Top.expr[n]
    BY <1>5 DEF ExactVal, StmtVal
  <2> QED BY <1>2, <2>1 DEF FrameOK
<1> QED BY <1>3, <1>4, <1>5

-----------------------------------------------------------------------------
(* Steps that finish, or replace, the task in hand.                        *)

LEMMA DropKeeps ==
  /\ ProgOK /\ FramesInv /\ prog' = prog /\ Top.work # <<>>
  /\ \E f : /\ IsFrame(f) /\ FrameOK(f)
            /\ f.call = Top.call /\ f.returned = Top.returned
            /\ SetTop(Done(f))
  => FramesInv'
<1> SUFFICES ASSUME ProgOK, FramesInv, prog' = prog, Top.work # <<>>,
                    NEW f, IsFrame(f), FrameOK(f),
                    f.call = Top.call, f.returned = Top.returned,
                    SetTop(Done(f))
             PROVE  FramesInv'
  OBVIOUS
<1>1. /\ Tail(Top.work) \in Seq(Tasks)
      /\ Ordered(Tail(Top.work))
      /\ (Top.returned => AllQuiet(Tail(Top.work)))
  BY InHand
<1>2. PICK w : w = Tail(Top.work)
  OBVIOUS
<1>5. PICK g : g = [f EXCEPT !.work = w]
  OBVIOUS
<1>6. g = Done(f)
  BY <1>2, <1>5 DEF Done
<1>3. /\ IsFrame(g) /\ g.slot = f.slot /\ g.expr = f.expr /\ g.pc = f.pc
      /\ g.returned = f.returned /\ g.work = w /\ g.call = f.call
  BY <1>5, PutWork DEF IsFrame
<1>4. FrameInv(g)
  BY <1>1, <1>2, <1>3 DEF FrameInv, FrameOK
<1> QED BY <1>3, <1>4, <1>6, SetTopKeeps

LEMMA BecomesKeeps ==
  /\ ProgOK /\ FramesInv /\ prog' = prog /\ Top.work # <<>>
  /\ \E todo \in Seq(Tasks) :
       /\ Ordered(todo)
       /\ \A i \in DOMAIN todo : StmtTask(todo[i]) => Kind(Node) \in StmtKinds
       /\ Top.returned => AllQuiet(todo)
       /\ Becomes(todo)
  => FramesInv'
<1> SUFFICES ASSUME ProgOK, FramesInv, prog' = prog, Top.work # <<>>,
                    NEW todo \in Seq(Tasks), Ordered(todo),
                    \A i \in DOMAIN todo : StmtTask(todo[i]) => Kind(Node) \in StmtKinds,
                    Top.returned => AllQuiet(todo),
                    Becomes(todo)
             PROVE  FramesInv'
  OBVIOUS
<1>1. FrameInv(Top)
  BY TopFacts
<1>2. \A i \in DOMAIN todo : StmtTask(todo[i]) => StmtTask(Head(Top.work))
  BY InHand DEF Task
<1>3. PICK w : w = todo \o Tail(Top.work)
  OBVIOUS
<1>4. w \in Seq(Tasks) /\ Ordered(w) /\ (Top.returned => AllQuiet(w))
  BY <1>1, <1>2, <1>3, WorkPut DEF FrameInv, FrameOK
<1>5. PICK g : g = [Top EXCEPT !.work = w]
  OBVIOUS
<1>6. IsFrame(Top)
  BY <1>1 DEF FrameInv
<1>7. /\ IsFrame(g) /\ g.slot = Top.slot /\ g.expr = Top.expr /\ g.pc = Top.pc
      /\ g.returned = Top.returned /\ g.work = w /\ g.call = Top.call
  BY <1>5, <1>6, PutWork
<1>8. FrameInv(g)
  BY <1>1, <1>4, <1>7 DEF FrameInv, FrameOK
<1>9. SetTop(g)
  BY <1>3, <1>5 DEF Becomes
<1> QED BY <1>7, <1>8, <1>9, SetTopKeeps

\* The top frame with the call in hand as its pc, or a value more.
LEMMA CalledOK ==
  ProgOK /\ FramesInv /\ Top.work # <<>>
  => /\ IsFrame(Called) /\ FrameOK(Called)
     /\ Called.call = Top.call /\ Called.returned = Top.returned
     /\ Called.expr = Top.expr /\ Called.slot = Top.slot /\ Called.pc = Node
<1> SUFFICES ASSUME ProgOK, FramesInv, Top.work # <<>>
             PROVE  /\ IsFrame(Called) /\ FrameOK(Called)
                    /\ Called.call = Top.call /\ Called.returned = Top.returned
                    /\ Called.expr = Top.expr /\ Called.slot = Top.slot /\ Called.pc = Node
  OBVIOUS
<1>1. IsFrame(Top) /\ FrameOK(Top)
  BY TopFacts DEF FrameInv
<1>2. Node \in Nodes_
  BY InHand
<1>3. PICK g : g = Called
  OBVIOUS
<1>4. /\ IsFrame(g) /\ g.slot = Top.slot /\ g.expr = Top.expr /\ g.pc = Node
      /\ g.returned = Top.returned /\ g.work = Top.work /\ g.call = Top.call
  BY <1>1, <1>3, PutPc DEF Called
<1>5. FrameOK(g)
  BY <1>1, <1>2, <1>4 DEF FrameOK
<1> QED BY <1>3, <1>4, <1>5

LEMMA BoundOK ==
  \A f : \A n \in Nodes_, v \in Int :
    IsFrame(f) /\ FrameOK(f)
    => LET g == [f EXCEPT !.expr = Bind(f.expr, n, v)]
       IN  /\ IsFrame(g) /\ FrameOK(g)
           /\ g.call = f.call /\ g.returned = f.returned /\ g.slot = f.slot
           /\ g.pc = f.pc /\ g.work = f.work /\ g.expr = Bind(f.expr, n, v)
<1> SUFFICES ASSUME NEW f, NEW n \in Nodes_, NEW v \in Int, IsFrame(f), FrameOK(f)
             PROVE  LET g == [f EXCEPT !.expr = Bind(f.expr, n, v)]
                    IN  /\ IsFrame(g) /\ FrameOK(g)
                        /\ g.call = f.call /\ g.returned = f.returned /\ g.slot = f.slot
                        /\ g.pc = f.pc /\ g.work = f.work /\ g.expr = Bind(f.expr, n, v)
  OBVIOUS
<1>1. PICK e : e = Bind(f.expr, n, v)
  OBVIOUS
<1>2. e \in [DOMAIN e -> Int] /\ DOMAIN e \subseteq Nodes_
  <2>1. f.expr \in [DOMAIN f.expr -> Int] /\ DOMAIN f.expr \subseteq Nodes_
    BY DEF FrameOK
  <2>2. PICK x : x = f.expr
    OBVIOUS
  <2>3. e = Bind(x, n, v) /\ x \in [DOMAIN x -> Int] /\ DOMAIN x \subseteq Nodes_
    BY <1>1, <2>1, <2>2
  <2>4. e \in [DOMAIN e -> Int] /\ DOMAIN e = DOMAIN x \cup {n}
    BY <2>3, BindOK
  <2> QED BY <2>3, <2>4
<1>3. PICK g : g = [f EXCEPT !.expr = e]
  OBVIOUS
<1>4. /\ IsFrame(g) /\ g.slot = f.slot /\ g.expr = e /\ g.pc = f.pc
      /\ g.returned = f.returned /\ g.work = f.work /\ g.call = f.call
  BY <1>3, PutExpr DEF IsFrame
<1>5. FrameOK(g)
  BY <1>2, <1>4 DEF FrameOK
<1> QED BY <1>1, <1>3, <1>4, <1>5

LEMMA YieldKeeps ==
  /\ ProgOK /\ FramesInv /\ prog' = prog /\ Top.work # <<>>
  /\ \E v \in Int : Yield(v)
  => FramesInv'
<1> SUFFICES ASSUME ProgOK, FramesInv, prog' = prog, Top.work # <<>>,
                    NEW v \in Int, Yield(v)
             PROVE  FramesInv'
  OBVIOUS
<1>1. IsFrame(Top) /\ FrameOK(Top) /\ Node \in Nodes_
  BY TopFacts, InHand DEF FrameInv
<1>2. PICK g : g = [Top EXCEPT !.expr = Bind(Top.expr, Node, v)]
  OBVIOUS
<1>3. IsFrame(g) /\ FrameOK(g) /\ g.call = Top.call /\ g.returned = Top.returned
  BY <1>1, <1>2, BoundOK
<1>4. SetTop(Done(g))
  BY <1>2 DEF Yield
<1> QED BY <1>3, <1>4, DropKeeps

LEMMA AnswerKeeps ==
  /\ ProgOK /\ FramesInv /\ prog' = prog /\ Top.work # <<>>
  /\ \E v \in Int : Answer(v)
  => FramesInv'
<1> SUFFICES ASSUME ProgOK, FramesInv, prog' = prog, Top.work # <<>>,
                    NEW v \in Int, Answer(v)
             PROVE  FramesInv'
  OBVIOUS
<1>1. Node \in Nodes_
  BY InHand
<1>2. PICK f : f = Called
  OBVIOUS
<1>3. /\ IsFrame(f) /\ FrameOK(f) /\ f.call = Top.call /\ f.returned = Top.returned
      /\ f.expr = Top.expr
  BY <1>2, CalledOK
<1>4. PICK g : g = [f EXCEPT !.expr = Bind(f.expr, Node, v)]
  OBVIOUS
<1>5. IsFrame(g) /\ FrameOK(g) /\ g.call = Top.call /\ g.returned = Top.returned
  BY <1>1, <1>3, <1>4, BoundOK
<1>6. SetTop(Done(g))
  BY <1>2, <1>3, <1>4 DEF Answer
<1> QED BY <1>5, <1>6, DropKeeps

\* A step that stores in some frame, then changes the top one.
LEMMA StoreKeeps ==
  /\ FramesInv /\ prog' = prog
  /\ \E i \in DOMAIN frames : \E g, h :
       /\ FrameInv(g) /\ g.call = frames[i].call /\ g.pc = frames[i].pc
       /\ FrameInv(h) /\ h.call = Top.call
       /\ frames' = [[frames EXCEPT ![i] = g] EXCEPT ![Depth] = h]
  => FramesInv'
<1> SUFFICES ASSUME FramesInv, prog' = prog,
                    NEW i \in DOMAIN frames, NEW g, NEW h,
                    FrameInv(g), g.call = frames[i].call, g.pc = frames[i].pc,
                    FrameInv(h), h.call = Top.call,
                    frames' = [[frames EXCEPT ![i] = g] EXCEPT ![Depth] = h]
             PROVE  FramesInv'
  OBVIOUS
<1>1. /\ Depth \in Nat /\ DOMAIN frames = 1 .. Depth /\ Depth \in DOMAIN frames
  BY TopFacts
<1>2. PICK S : frames \in Seq(S)
  BY DEF FramesInv
<1> DEFINE T == S \cup {g, h}
           one == [frames EXCEPT ![i] = g]
<1>3. frames \in Seq(T) /\ Len(frames) = Depth
  BY <1>2 DEF Depth
<1>4. one \in Seq(T) /\ Len(one) = Depth
  BY <1>1, <1>3, ExceptSeq
<1>5. frames' \in Seq(T) /\ Len(frames') = Depth
  BY <1>1, <1>4, ExceptSeq
<1>6. DOMAIN frames' = DOMAIN frames
  BY <1>1, <1>5
<1>7. /\ frames'[Depth] = h
      /\ i # Depth => frames'[i] = g
      /\ \A j \in DOMAIN frames : j # i /\ j # Depth => frames'[j] = frames[j]
  BY <1>1
<1>8. \A j \in DOMAIN frames : /\ FrameInv(frames'[j])
                               /\ frames'[j].call = frames[j].call
                               /\ j < Depth => frames'[j].pc = frames[j].pc
  <2> SUFFICES ASSUME NEW j \in DOMAIN frames
               PROVE  /\ FrameInv(frames'[j])
                      /\ frames'[j].call = frames[j].call
                      /\ j < Depth => frames'[j].pc = frames[j].pc
    OBVIOUS
  <2>1. CASE j = Depth
    BY <1>1, <1>7, <2>1 DEF Top
  <2>2. CASE j # Depth /\ j = i
    BY <1>7, <2>2
  <2>3. CASE j # Depth /\ j # i
    BY <1>7, <2>3 DEF FramesInv
  <2> QED BY <2>1, <2>2, <2>3
<1> HIDE DEF T
<1> QED BY <1>5, <1>6, <1>8, SameDepth

-----------------------------------------------------------------------------
(* The walk keeps the frames.                                              *)

LEMMA VisitKeeps == ProgOK /\ FramesInv /\ Visit => FramesInv'
<1> SUFFICES ASSUME ProgOK, FramesInv, Visit
             PROVE  FramesInv'
  OBVIOUS
<1>1. Top.work # <<>> /\ ~Top.returned /\ prog' = prog /\ Becomes(Handler(Node))
  BY DEF Visit, At
<1>2. PICK n \in Nodes_ : n = Node
  BY <1>1, InHand
<1>3. PICK todo : todo = Handler(n)
  OBVIOUS
<1>4. /\ todo \in Seq(Tasks) /\ Ordered(todo)
      /\ \A i \in DOMAIN todo : StmtTask(todo[i]) => Kind(n) \in StmtKinds
  BY <1>3, HandlerOK
<1> QED BY <1>1, <1>2, <1>3, <1>4, BecomesKeeps

LEMMA DropTopKeeps == ProgOK /\ FramesInv /\ prog' = prog /\ Top.work # <<>> /\ Drop => FramesInv'
<1> SUFFICES ASSUME ProgOK, FramesInv, prog' = prog, Top.work # <<>>, Drop
             PROVE  FramesInv'
  OBVIOUS
<1>1. IsFrame(Top) /\ FrameOK(Top)
  BY TopFacts DEF FrameInv
<1>2. SetTop(Done(Top))
  BY DEF Drop
<1> QED BY <1>1, <1>2, DropKeeps

LEMMA BranchKeeps == ProgOK /\ FramesInv /\ Branch => FramesInv'
<1> SUFFICES ASSUME ProgOK, FramesInv, Branch
             PROVE  FramesInv'
  OBVIOUS
<1>1. Top.work # <<>> /\ Task[1] = "branch" /\ Kind(Node) = "if" /\ prog' = prog
  BY DEF Branch, At
<1>2. IsNode(prog, Node) /\ Kids(Node) \in Seq(Nodes_) /\ ~Top.returned
  BY <1>1, InHand
<1>3. PICK k \in Seq(Nodes_) : k = Kids(Node)
  BY <1>2
<1>4. Len(k) \in 2 .. 3
  BY <1>1, <1>2, <1>3 DEF IsNode, Kind, Kids
<1>5. PICK c : Becomes(IF Cut(c) # 0 THEN Visits(<<k[2]>>) ELSE Visits(SubSeq(k, 3, Len(k))))
  BY <1>3 DEF Branch
<1>6. PICK ns \in Seq(Nodes_) : Becomes(Visits(ns))
  <2>1. k[2] \in Nodes_ /\ <<k[2]>> \in Seq(Nodes_) /\ SubSeq(k, 3, Len(k)) \in Seq(Nodes_)
    BY <1>4
  <2> QED BY <1>5, <2>1
<1>7. PICK todo : todo = Visits(ns)
  OBVIOUS
<1>8. todo \in Seq(Tasks) /\ AllQuiet(todo)
  BY <1>7, VisitsOK
<1>9. Ordered(todo)
  BY <1>8, QuietOrdered
<1>10. Kind(Node) \in StmtKinds
  BY <1>1 DEF StmtKinds
<1> QED BY <1>1, <1>2, <1>6, <1>7, <1>8, <1>9, <1>10, BecomesKeeps

LEMMA LoopWork ==
  ProgOK => \A n \in Nodes_ :
    Kind(n) \in {"while", "for"}
    => \E v \in Seq(Tasks) :
         /\ v = Children(LoopBody(n)) \o Visits(LoopInc(n)) \o Visits(<<LoopCond(n)>>)
                \o <<<<"loop", n>>>>
         /\ AllQuiet(v)
<1> SUFFICES ASSUME ProgOK, NEW n \in Nodes_, Kind(n) \in {"while", "for"}
             PROVE  \E v \in Seq(Tasks) :
                      /\ v = Children(LoopBody(n)) \o Visits(LoopInc(n))
                             \o Visits(<<LoopCond(n)>>) \o <<<<"loop", n>>>>
                      /\ AllQuiet(v)
  OBVIOUS
<1>1. IsNode(prog, n) /\ Kids(n) \in Seq(Nodes_)
  BY NodeFacts, KidFacts
<1>2. LoopBody(n) \in Nodes_ /\ LoopInc(n) \in Seq(Nodes_) /\ LoopCond(n) \in Nodes_
  <2>1. CASE Kind(n) = "while"
    <3>1. Len(Kids(n)) = 2
      BY <1>1, <2>1 DEF IsNode, Kind, Kids
    <3>2. Kids(n)[1] \in Nodes_ /\ Kids(n)[2] \in Nodes_
      BY <1>1, <3>1
    <3>3. LoopBody(n) = Kids(n)[2] /\ LoopInc(n) = <<>> /\ LoopCond(n) = Kids(n)[1]
      BY <2>1 DEF LoopBody, LoopInc, LoopCond
    <3> QED BY <3>2, <3>3
  <2>2. CASE Kind(n) = "for"
    <3>1. Len(Kids(n)) = 4
      BY <1>1, <2>2 DEF IsNode, Kind, Kids
    <3>2. Kids(n)[2] \in Nodes_ /\ Kids(n)[3] \in Nodes_ /\ Kids(n)[4] \in Nodes_
      BY <1>1, <3>1
    <3>3. LoopBody(n) = Kids(n)[4] /\ LoopInc(n) = <<Kids(n)[3]>> /\ LoopCond(n) = Kids(n)[2]
      BY <2>2 DEF LoopBody, LoopInc, LoopCond
    <3> QED BY <3>2, <3>3
  <2> QED BY <2>1, <2>2
<1>3. PICK a \in Seq(Tasks) : a = Children(LoopBody(n)) /\ AllQuiet(a)
  <2>1. Kids(LoopBody(n)) \in Seq(Nodes_)
    BY <1>2, KidFacts
  <2> QED BY <2>1, VisitsOK DEF Children
<1>4. PICK b \in Seq(Tasks) : b = Visits(LoopInc(n)) /\ AllQuiet(b)
  BY <1>2, VisitsOK
<1>5. PICK c \in Seq(Tasks) : c = Visits(<<LoopCond(n)>>) /\ AllQuiet(c)
  BY <1>2, OneVisit, VisitsOK
<1>6. PICK d \in Seq(Tasks) : d = <<<<"loop", n>>>> /\ AllQuiet(d)
  <2>1. <<"loop", n>> \in Tasks /\ Quiet(<<"loop", n>>)
    BY TaskOfNode DEF Tasks
  <2> QED BY <2>1, OneTask
<1>7. PICK ab \in Seq(Tasks) : ab = a \o b /\ AllQuiet(ab)
  BY <1>3, <1>4, Joined
<1>8. PICK abc \in Seq(Tasks) : abc = ab \o c /\ AllQuiet(abc)
  BY <1>5, <1>7, Joined
<1>9. PICK v \in Seq(Tasks) : v = abc \o d /\ AllQuiet(v)
  BY <1>6, <1>8, Joined
<1> QED BY <1>3, <1>4, <1>5, <1>6, <1>7, <1>8, <1>9

LEMMA LoopKeeps == ProgOK /\ FramesInv /\ Loop => FramesInv'
<1> SUFFICES ASSUME ProgOK, FramesInv, Loop
             PROVE  FramesInv'
  OBVIOUS
<1>1. Top.work # <<>> /\ Kind(Node) \in {"while", "for"} /\ prog' = prog
  BY DEF Loop, At
<1>2. PICK n \in Nodes_ : n = Node
  BY <1>1, InHand
<1>3. PICK v \in Seq(Tasks) :
        /\ v = Children(LoopBody(n)) \o Visits(LoopInc(n)) \o Visits(<<LoopCond(n)>>)
               \o <<<<"loop", n>>>>
        /\ AllQuiet(v)
  BY <1>1, <1>2, LoopWork
<1>4. \E c : Becomes(IF Cut(c) = 0 THEN <<>> ELSE v)
  BY <1>2, <1>3 DEF Loop
<1>5. PICK todo \in Seq(Tasks) : AllQuiet(todo) /\ Becomes(todo)
  <2>1. <<>> \in Seq(Tasks) /\ AllQuiet(<<>>)
    BY DEF AllQuiet
  <2> QED BY <1>3, <1>4, <2>1
<1>6. Ordered(todo)
  BY <1>5, QuietOrdered
<1>7. Kind(Node) \in StmtKinds
  BY <1>1 DEF StmtKinds
<1> QED BY <1>1, <1>5, <1>6, <1>7, BecomesKeeps

-----------------------------------------------------------------------------
(* Expressions and declarations keep the frames.                           *)

\* The operands of the task in hand are integers.
LEMMA KidsAreInt ==
  ProgOK /\ FramesInv /\ Top.work # <<>>
  => \A i \in 1 .. Len(Kids(Node)) : /\ Kids(Node)[i] \in Nodes_
                                     /\ \A v \in ExactVal(Kids(Node)[i]) : v \in Int
<1> SUFFICES ASSUME ProgOK, FramesInv, Top.work # <<>>, NEW i \in 1 .. Len(Kids(Node))
             PROVE  Kids(Node)[i] \in Nodes_ /\ \A v \in ExactVal(Kids(Node)[i]) : v \in Int
  OBVIOUS
<1>1. Kids(Node) \in Seq(Nodes_)
  BY InHand
<1>2. Kids(Node)[i] \in Nodes_
  BY <1>1
<1> QED BY <1>2, ValuesAreInt

LEMMA ResultsAreInt == \A op : \A l, r \in Int : \A v \in Results(op, l, r) : v \in Int
<1> SUFFICES ASSUME NEW op, NEW l \in Int, NEW r \in Int, NEW v \in Results(op, l, r)
             PROVE  v \in Int
  OBVIOUS
<1>1. CASE op[1] \in {">", "<", "=="}
  BY <1>1 DEF Results, Truth
<1>2. CASE op[1] \in {"+", "-"}
  <2>1. \A p \in Scale(op, l, r) : p[1] \in Int /\ p[2] \in Int
    <3>1. \A t : \A size \in TypeSize(t) : size \in Int
      BY DEF TypeSize
    <3>2. \A t : \A p \in {<<l, r * size>> : size \in TypeSize(t)} : p[1] \in Int /\ p[2] \in Int
      BY <3>1
    <3>3. \A t : \A p \in {<<l * size, r>> : size \in TypeSize(t)} : p[1] \in Int /\ p[2] \in Int
      BY <3>1
    <3>4. \A p \in {<<l, r>>} : p[1] \in Int /\ p[2] \in Int
      OBVIOUS
    <3>5. \/ Scale(op, l, r) = {<<l, r>>}
          \/ Scale(op, l, r) = {<<l, r * size>> : size \in TypeSize(op[2] - 1)}
          \/ Scale(op, l, r) = {<<l * size, r>> : size \in TypeSize(op[3] - 1)}
      BY DEF Scale
    <3> QED BY <3>2, <3>3, <3>4, <3>5
  <2>2. PICK p \in Scale(op, l, r) : v = p[1] + p[2] \/ v = p[1] - p[2]
    BY <1>2 DEF Results
  <2> QED BY <2>1, <2>2
<1>3. CASE op[1] = "*"
  BY <1>3 DEF Results
<1>4. CASE op[1] = "/"
  <2>1. r # 0 /\ v = Quotient(l, r)
    BY <1>4 DEF Results
  <2> QED BY <2>1 DEF Quotient
<1>5. CASE op[1] \notin {">", "<", "==", "+", "-", "*", "/"}
  BY <1>5 DEF Results
<1> QED BY <1>1, <1>2, <1>3, <1>4, <1>5

LEMMA OperateKeeps == ProgOK /\ FramesInv /\ Operate => FramesInv'
<1> SUFFICES ASSUME ProgOK, FramesInv, Operate
             PROVE  FramesInv'
  OBVIOUS
<1>1. Top.work # <<>> /\ Kind(Node) = "bin" /\ prog' = prog
  BY DEF Operate, At
<1>2. Len(Kids(Node)) = 2
  BY <1>1, InHand DEF IsNode, Kind, Kids
<1>3. CASE Drop
  BY <1>1, <1>3, DropTopKeeps
<1>4. CASE \E l \in ExactVal(Kids(Node)[1]), r \in ExactVal(Kids(Node)[2]) :
             \E v \in Results(Data(Node), l, r) : Yield(v)
  <2>1. PICK l \in ExactVal(Kids(Node)[1]), r \in ExactVal(Kids(Node)[2]) :
          \E v \in Results(Data(Node), l, r) : Yield(v)
    BY <1>4
  <2>2. l \in Int /\ r \in Int
    BY <1>1, <1>2, KidsAreInt
  <2> QED BY <1>1, <2>1, <2>2, ResultsAreInt, YieldKeeps
<1> QED BY <1>3, <1>4 DEF Operate

LEMMA UnaryKeeps ==
  /\ ProgOK /\ FramesInv
  /\ heap \in [DOMAIN heap -> Int]
  /\ CastValue \/ Uniop \/ ParenValue
  => FramesInv'
<1> SUFFICES ASSUME ProgOK, FramesInv, heap \in [DOMAIN heap -> Int],
                    CastValue \/ Uniop \/ ParenValue
             PROVE  FramesInv'
  OBVIOUS
<1>1. Top.work # <<>> /\ Kind(Node) \in {"cast", "paren", "neg", "deref"} /\ prog' = prog
  BY DEF CastValue, Uniop, ParenValue, At
<1>2. Len(Kids(Node)) = 1
  BY <1>1, InHand DEF IsNode, Kind, Kids
<1>3. \A v \in ExactVal(Kids(Node)[1]) : v \in Int
  BY <1>1, <1>2, KidsAreInt
<1>4. CASE CastValue \/ ParenValue
  BY <1>1, <1>3, <1>4, YieldKeeps DEF CastValue, ParenValue
<1>5. CASE Uniop
  <2>1. PICK v \in ExactVal(Kids(Node)[1]) :
          Yield(IF Kind(Node) = "neg" THEN -v
                ELSE IF v \in DOMAIN heap THEN heap[v] ELSE 0)
    BY <1>5 DEF Uniop
  <2>2. PICK u : /\ u = IF Kind(Node) = "neg" THEN -v
                        ELSE IF v \in DOMAIN heap THEN heap[v] ELSE 0
                 /\ Yield(u)
    BY <2>1
  <2>3. u \in Int
    BY <1>3, <2>2
  <2> QED BY <1>1, <2>2, <2>3, YieldKeeps
<1> QED BY <1>4, <1>5

LEMMA SizeofKeeps == ProgOK /\ FramesInv /\ MSizeof => FramesInv'
<1> SUFFICES ASSUME ProgOK, FramesInv, MSizeof
             PROVE  FramesInv'
  OBVIOUS
<1>1. Top.work # <<>> /\ prog' = prog
  BY DEF MSizeof, At
<1>2. PICK v \in TypeSize(Data(Node)) : Yield(v)
  BY DEF MSizeof
<1>3. v \in Int
  BY DEF TypeSize
<1> QED BY <1>1, <1>2, <1>3, YieldKeeps

\* What a declaration binds are integers.
LEMMA DeclSlotsOK ==
  ProgOK => \A n \in DOMAIN prog.node :
    Kind(n) = "decl" => DeclSlots(prog, n) \in [DOMAIN DeclSlots(prog, n) -> Int]
<1> SUFFICES ASSUME ProgOK, NEW n \in DOMAIN prog.node, Kind(n) = "decl"
             PROVE  DeclSlots(prog, n) \in [DOMAIN DeclSlots(prog, n) -> Int]
  OBVIOUS
<1> DEFINE lit == {i \in DOMAIN Kids(n) : prog.node[Kids(n)[i]].k = "num"}
<1>1. IsNode(prog, n) /\ Kids(n) \in Seq(Nodes_)
  BY TreeFacts
<1>2. Len(Kids(n)) \in 0 .. 1
  BY <1>1 DEF IsNode, Kind, Kids
<1>3. lit # {} => prog.node[Kids(n)[1]].x \in Int
  <2> SUFFICES ASSUME NEW i \in lit
               PROVE  prog.node[Kids(n)[1]].x \in Int
    OBVIOUS
  <2>1. i = 1 /\ Kids(n)[1] \in Nodes_ /\ prog.node[Kids(n)[1]].k = "num"
    BY <1>1, <1>2
  <2>2. IsNode(prog, Kids(n)[1])
    BY <2>1, NodeFacts
  <2> QED BY <2>1, <2>2 DEF IsNode
<1>4. \/ \E S : DeclSlots(prog, n) = [s \in S |-> 0]
      \/ lit # {} /\ \E S : DeclSlots(prog, n) = [s \in S |-> prog.node[Kids(n)[1]].x]
  BY DEF DeclSlots, Kids
<1> HIDE DEF lit
<1> QED BY <1>3, <1>4

LEMMA MergeOK ==
  \A f, g : f \in [DOMAIN f -> Int] /\ g \in [DOMAIN g -> Int]
            => Merge(f, g) \in [DOMAIN Merge(f, g) -> Int]
  BY DEF Merge

LEMMA DeclareKeeps == ProgOK /\ FramesInv /\ Declare => FramesInv'
<1> SUFFICES ASSUME ProgOK, FramesInv, Declare
             PROVE  FramesInv'
  OBVIOUS
<1>1. Top.work # <<>> /\ Kind(Node) = "decl" /\ prog' = prog
  BY DEF Declare, At
<1>2. IsFrame(Top) /\ FrameOK(Top) /\ Node \in Nodes_
  BY <1>1, TopFacts, InHand DEF FrameInv
<1>3. PICK d : d = DeclSlots(prog, Node)
  OBVIOUS
<1>4. d \in [DOMAIN d -> Int]
  BY <1>1, <1>2, <1>3, DeclSlotsOK DEF Nodes_
<1>5. PICK s : s = Merge(Top.slot, d)
  OBVIOUS
<1>6. PICK old : old = Top.slot
  OBVIOUS
<1>7. old \in [DOMAIN old -> Int]
  BY <1>2, <1>6 DEF FrameOK
<1>8. s \in [DOMAIN s -> Int]
  BY <1>4, <1>5, <1>6, <1>7, MergeOK
<1>9. PICK g : g = [Top EXCEPT !.slot = s]
  OBVIOUS
<1>10. /\ IsFrame(g) /\ g.slot = s /\ g.expr = Top.expr /\ g.pc = Top.pc
       /\ g.returned = Top.returned /\ g.work = Top.work /\ g.call = Top.call
  BY <1>2, <1>9, PutSlot DEF IsFrame
<1>11. FrameOK(g)
  BY <1>2, <1>8, <1>10 DEF FrameOK
<1>12. SetTop(Done(g))
  BY <1>3, <1>5, <1>9 DEF Declare
<1> QED BY <1>1, <1>10, <1>11, <1>12, DropKeeps

\* A frame of the stack with a slot changed.
LEMMA StoredOK ==
  FramesInv => \A i \in DOMAIN frames : \A key : \A v \in Int :
    LET g == [frames[i] EXCEPT !.slot = Bind(frames[i].slot, key, v)]
    IN  /\ FrameInv(g) /\ g.call = frames[i].call /\ g.pc = frames[i].pc
        /\ g.returned = frames[i].returned /\ g.work = frames[i].work
<1> SUFFICES ASSUME FramesInv, NEW i \in DOMAIN frames, NEW key, NEW v \in Int
             PROVE  LET g == [frames[i] EXCEPT !.slot = Bind(frames[i].slot, key, v)]
                    IN  /\ FrameInv(g) /\ g.call = frames[i].call /\ g.pc = frames[i].pc
                        /\ g.returned = frames[i].returned /\ g.work = frames[i].work
  OBVIOUS
<1>1. PICK f : f = frames[i]
  OBVIOUS
<1>2. FrameInv(f)
  BY <1>1 DEF FramesInv
<1>3. PICK s : s = f.slot
  OBVIOUS
<1>4. s \in [DOMAIN s -> Int]
  BY <1>2, <1>3 DEF FrameInv, FrameOK
<1>5. PICK b : b = Bind(s, key, v)
  OBVIOUS
<1>6. b \in [DOMAIN b -> Int]
  BY <1>4, <1>5, BindOK
<1>7. IsFrame(f)
  BY <1>2 DEF FrameInv
<1>8. PICK g : g = [f EXCEPT !.slot = b]
  OBVIOUS
<1>9. /\ IsFrame(g) /\ g.slot = b /\ g.expr = f.expr /\ g.pc = f.pc
      /\ g.returned = f.returned /\ g.work = f.work /\ g.call = f.call
  BY <1>7, <1>8, PutSlot DEF IsFrame
<1>10. FrameInv(g)
  BY <1>2, <1>6, <1>9 DEF FrameInv, FrameOK
<1> QED BY <1>1, <1>3, <1>5, <1>8, <1>9, <1>10

\* The top frame, or what it has become, with the task in hand done.
LEMMA DoneOK ==
  ProgOK /\ FramesInv /\ Top.work # <<>>
  => \A f : IsFrame(f) /\ FrameOK(f) /\ f.returned = Top.returned
            => FrameInv(Done(f)) /\ Done(f).call = f.call
<1> SUFFICES ASSUME ProgOK, FramesInv, Top.work # <<>>,
                    NEW f, IsFrame(f), FrameOK(f), f.returned = Top.returned
             PROVE  FrameInv(Done(f)) /\ Done(f).call = f.call
  OBVIOUS
<1>1. PICK w : w = Tail(Top.work)
  OBVIOUS
<1>2. w \in Seq(Tasks) /\ Ordered(w) /\ (Top.returned => AllQuiet(w))
  BY <1>1, InHand
<1>3. PICK g : g = [f EXCEPT !.work = w]
  OBVIOUS
<1>4. /\ IsFrame(g) /\ g.slot = f.slot /\ g.expr = f.expr /\ g.pc = f.pc
      /\ g.returned = f.returned /\ g.work = w /\ g.call = f.call
  BY <1>3, PutWork DEF IsFrame
<1>5. FrameInv(g)
  BY <1>2, <1>4 DEF FrameInv, FrameOK
<1> QED BY <1>1, <1>3, <1>4, <1>5 DEF Done

LEMMA AssignKeeps == ProgOK /\ FramesInv /\ Assign => FramesInv'
<1> SUFFICES ASSUME ProgOK, FramesInv, Assign
             PROVE  FramesInv'
  OBVIOUS
<1>1. Top.work # <<>> /\ Kind(Node) = "asg" /\ prog' = prog
  BY DEF Assign, At
<1>2. Len(Kids(Node)) = 2 /\ Kids(Node)[1] \in Nodes_
  BY <1>1, InHand, KidsAreInt DEF IsNode, Kind, Kids
<1>3. PICK l \in Nodes_ : l = Kids(Node)[1]
  BY <1>2
<1>4. PICK v \in ExactVal(Kids(Node)[2]) :
        \/ \E p \in Places(l) :
             frames' = [[frames EXCEPT ![p[1]] =
                           [frames[p[1]] EXCEPT !.slot = Bind(frames[p[1]].slot, p[2], v)]]
                        EXCEPT ![Depth] =
                          Done([frames EXCEPT ![p[1]] =
                           [frames[p[1]] EXCEPT !.slot = Bind(frames[p[1]].slot, p[2], v)]][Depth])]
        \/ Drop
        \/ SetTop(Done([Top EXCEPT !.expr = Bind(Top.expr, l, v)]))
  BY <1>3 DEF Assign
<1>5. v \in Int
  BY <1>1, <1>2, KidsAreInt
<1>6. ASSUME NEW p \in Places(l),
             frames' = [[frames EXCEPT ![p[1]] =
                           [frames[p[1]] EXCEPT !.slot = Bind(frames[p[1]].slot, p[2], v)]]
                        EXCEPT ![Depth] =
                          Done([frames EXCEPT ![p[1]] =
                           [frames[p[1]] EXCEPT !.slot = Bind(frames[p[1]].slot, p[2], v)]][Depth])]
      PROVE  FramesInv'
  <2>1. PICK i \in DOMAIN frames : i = p[1]
    BY DEF Places
  <2>2. PICK g : g = [frames[i] EXCEPT !.slot = Bind(frames[i].slot, p[2], v)]
    OBVIOUS
  <2>3. /\ FrameInv(g) /\ g.call = frames[i].call /\ g.pc = frames[i].pc
        /\ g.returned = frames[i].returned
    BY <1>5, <2>2, StoredOK
  <2>4. PICK one : one = [frames EXCEPT ![i] = g]
    OBVIOUS
  <2>5. FrameInv(one[Depth]) /\ one[Depth].call = Top.call /\ one[Depth].returned = Top.returned
    <3>1. Depth \in DOMAIN frames /\ FrameInv(Top)
      BY TopFacts
    <3>2. CASE i = Depth
      BY <2>3, <2>4, <3>1, <3>2 DEF Top
    <3>3. CASE i # Depth
      <4>1. one[Depth] = frames[Depth]
        BY <2>4, <3>1, <3>3
      <4> QED BY <3>1, <4>1 DEF Top
    <3> QED BY <3>2, <3>3
  <2>6. PICK h : h = Done(one[Depth])
    OBVIOUS
  <2>7. FrameInv(h) /\ h.call = Top.call
    BY <1>1, <2>5, <2>6, DoneOK DEF FrameInv
  <2>8. frames' = [one EXCEPT ![Depth] = h]
    BY <1>6, <2>1, <2>2, <2>4, <2>6
  <2> QED BY <1>1, <2>3, <2>4, <2>7, <2>8, StoreKeeps
<1>7. CASE Drop
  BY <1>1, <1>7, DropTopKeeps
<1>8. CASE SetTop(Done([Top EXCEPT !.expr = Bind(Top.expr, l, v)]))
  <2>1. IsFrame(Top) /\ FrameOK(Top)
    BY TopFacts DEF FrameInv
  <2>2. PICK g : g = [Top EXCEPT !.expr = Bind(Top.expr, l, v)]
    OBVIOUS
  <2>3. IsFrame(g) /\ FrameOK(g) /\ g.call = Top.call /\ g.returned = Top.returned
    BY <1>5, <2>1, <2>2, BoundOK
  <2> QED BY <1>1, <1>8, <2>2, <2>3, DropKeeps
<1> QED BY <1>4, <1>6, <1>7, <1>8

-----------------------------------------------------------------------------
(* Calls and returns keep the frames.                                      *)

LEMMA DropCalledKeeps ==
  ProgOK /\ FramesInv /\ prog' = prog /\ Top.work # <<>> /\ SetTop(Done(Called)) => FramesInv'
<1> SUFFICES ASSUME ProgOK, FramesInv, prog' = prog, Top.work # <<>>, SetTop(Done(Called))
             PROVE  FramesInv'
  OBVIOUS
<1>1. IsFrame(Called) /\ FrameOK(Called) /\ Called.call = Top.call /\ Called.returned = Top.returned
  BY CalledOK
<1> QED BY <1>1, DropKeeps

LEMMA CallBuiltinKeeps ==
  /\ ProgOK /\ FramesInv /\ WorldInv
  /\ CallInput \/ CallOutput \/ CallMalloc \/ CallFree
  => FramesInv'
<1> SUFFICES ASSUME ProgOK, FramesInv, WorldInv,
                    CallInput \/ CallOutput \/ CallMalloc \/ CallFree
             PROVE  FramesInv'
  OBVIOUS
<1>1. Top.work # <<>> /\ prog' = prog
  BY DEF CallInput, CallOutput, CallMalloc, CallFree, AtCall, At
<1>2. CASE CallInput
  <2>1. Answer(IF input = <<>> THEN 0 ELSE Head(input))
    BY <1>2 DEF CallInput
  <2>2. (IF input = <<>> THEN 0 ELSE Head(input)) \in Int
    BY DEF WorldInv
  <2> QED BY <1>1, <2>1, <2>2, AnswerKeeps
<1>3. CASE CallOutput
  BY <1>1, <1>3, DropCalledKeeps DEF CallOutput
<1>4. CASE CallMalloc
  <2>1. PICK at \in Addresses : Answer(at)
    BY <1>4 DEF CallMalloc
  <2>2. at \in Int
    BY AddressAssumption
  <2> QED BY <1>1, <2>1, <2>2, AnswerKeeps
<1>5. CASE CallFree
  BY <1>1, <1>5, DropCalledKeeps DEF CallFree
<1> QED BY <1>2, <1>3, <1>4, <1>5

\* A frame as it is pushed.
LEMMA NewFrameOK ==
  ProgOK => \A slot : \A work \in Seq(Tasks) : \A call \in Nodes_ \cup {0} :
    /\ slot \in [DOMAIN slot -> Int] /\ AllQuiet(work)
    => FrameInv(NewFrame(slot, work, call)) /\ NewFrame(slot, work, call).call = call
<1> SUFFICES ASSUME NEW slot, NEW work \in Seq(Tasks), NEW call \in Nodes_ \cup {0},
                    slot \in [DOMAIN slot -> Int], AllQuiet(work)
             PROVE  /\ FrameInv(NewFrame(slot, work, call))
                    /\ NewFrame(slot, work, call).call = call
  OBVIOUS
<1>1. PICK f : f = NewFrame(slot, work, call)
  OBVIOUS
<1>2. /\ f = [slot |-> slot, expr |-> NoValues, pc |-> 0, returned |-> FALSE,
              work |-> work, call |-> call]
      /\ f.slot = slot /\ f.expr = NoValues /\ f.pc = 0 /\ f.returned = FALSE
      /\ f.work = work /\ f.call = call
  BY <1>1 DEF NewFrame
<1>3. NoValues \in [DOMAIN NoValues -> Int] /\ DOMAIN NoValues \subseteq Nodes_
  BY DEF NoValues
<1>4. IsFrame(f)
  BY <1>2 DEF IsFrame
<1>5. FrameOK(f)
  BY <1>2, <1>3 DEF FrameOK
<1>6. Ordered(f.work)
  BY <1>2, QuietOrdered
<1> QED BY <1>1, <1>2, <1>4, <1>5, <1>6 DEF FrameInv

\* The body of a function, as work.
LEMMA BodyOK ==
  ProgOK => \A f \in DOMAIN prog.fun : /\ Children(prog.fun[f].body) \in Seq(Tasks)
                                       /\ AllQuiet(Children(prog.fun[f].body))
<1> SUFFICES ASSUME ProgOK, NEW f \in DOMAIN prog.fun
             PROVE  /\ Children(prog.fun[f].body) \in Seq(Tasks)
                    /\ AllQuiet(Children(prog.fun[f].body))
  OBVIOUS
<1>1. prog.fun[f].body \in Nodes_
  BY ProgramAssumption DEF ProgOK, IsProgram, Nodes_
<1>2. PICK b \in Nodes_ : b = prog.fun[f].body
  BY <1>1
<1>3. Kids(b) \in Seq(Nodes_)
  BY KidFacts
<1> QED BY <1>2, <1>3, VisitsOK DEF Children

\* The values of the arguments are integers.
LEMMA ArgumentsOK ==
  ProgOK /\ FramesInv /\ CallFunction
  => LET f == prog.fun[Data(Node)]
         Arg(i) == CHOOSE v \in ExactVal(Kids(Node)[i]) : TRUE
         Param(s) == CHOOSE i \in DOMAIN f.params : <<f.params[i]>> = s
         S == {<<f.params[i]>> : i \in DOMAIN f.params}
     IN  [s \in S |-> Arg(Param(s))] \in [S -> Int]
<1> SUFFICES ASSUME ProgOK, FramesInv, CallFunction
             PROVE  LET f == prog.fun[Data(Node)]
                        Arg(i) == CHOOSE v \in ExactVal(Kids(Node)[i]) : TRUE
                        Param(s) == CHOOSE i \in DOMAIN f.params : <<f.params[i]>> = s
                        S == {<<f.params[i]>> : i \in DOMAIN f.params}
                    IN  [s \in S |-> Arg(Param(s))] \in [S -> Int]
  OBVIOUS
<1> DEFINE f == prog.fun[Data(Node)]
           Arg(i) == CHOOSE v \in ExactVal(Kids(Node)[i]) : TRUE
           Param(s) == CHOOSE i \in DOMAIN f.params : <<f.params[i]>> = s
           S == {<<f.params[i]>> : i \in DOMAIN f.params}
<1>1. /\ Top.work # <<>> /\ Kind(Node) = "call" /\ Data(Node) \in DOMAIN prog.fun \ Builtins
      /\ \A i \in DOMAIN Kids(Node) : ExactVal(Kids(Node)[i]) # {}
  BY DEF CallFunction, AtCall, At
<1>2. IsNode(prog, Node) /\ Kids(Node) \in Seq(Nodes_)
  BY <1>1, InHand
<1>3. Len(Kids(Node)) = Len(f.params)
  BY <1>1, <1>2 DEF IsNode, Kind, Kids, Data, Builtins
<1>4. f.params \in Seq(STRING \ GlobalNames(prog))
  BY <1>1, ProgramAssumption DEF ProgOK, IsProgram
<1>5. DOMAIN f.params = DOMAIN Kids(Node) /\ DOMAIN Kids(Node) = 1 .. Len(Kids(Node))
  BY <1>2, <1>3, <1>4
<1> HIDE DEF f
<1>6. \A s \in S : Param(s) \in DOMAIN f.params
  <2> SUFFICES ASSUME NEW s \in S
               PROVE  Param(s) \in DOMAIN f.params
    OBVIOUS
  <2>1. \E i \in DOMAIN f.params : <<f.params[i]>> = s
    OBVIOUS
  <2> QED BY <2>1
<1>7. \A i \in DOMAIN Kids(Node) : Arg(i) \in Int
  <2> SUFFICES ASSUME NEW i \in DOMAIN Kids(Node)
               PROVE  Arg(i) \in Int
    OBVIOUS
  <2>1. Arg(i) \in ExactVal(Kids(Node)[i])
    BY <1>1
  <2> QED BY <1>1, <1>5, <2>1, KidsAreInt
<1> HIDE DEF S, Param, Arg
<1>8. [s \in S |-> Arg(Param(s))] \in [S -> Int]
  BY <1>5, <1>6, <1>7
<1> QED BY <1>8 DEF S, Param, Arg, f

LEMMA CallFunctionKeeps == ProgOK /\ FramesInv /\ CallFunction => FramesInv'
<1> SUFFICES ASSUME ProgOK, FramesInv, CallFunction
             PROVE  FramesInv'
  OBVIOUS
<1>1. Top.work # <<>> /\ prog' = prog /\ Data(Node) \in DOMAIN prog.fun
  BY DEF CallFunction, AtCall, At
<1>2. PICK n \in Nodes_ : n = Node
  BY <1>1, InHand
<1>3. PICK work \in Seq(Tasks) : work = Children(prog.fun[Data(Node)].body) /\ AllQuiet(work)
  BY <1>1, BodyOK
<1>4. PICK slot : /\ slot \in [DOMAIN slot -> Int]
                  /\ frames' = Append([frames EXCEPT ![Depth] = Done(Called)],
                                      NewFrame(slot, work, n))
  BY <1>2, <1>3, ArgumentsOK DEF CallFunction
<1>5. PICK g : g = NewFrame(slot, work, n)
  OBVIOUS
<1>6. FrameInv(g) /\ g.call = n
  BY <1>2, <1>3, <1>4, <1>5, NewFrameOK
<1>7. PICK h : h = Done(Called)
  OBVIOUS
<1>8. FrameInv(h) /\ h.call = Top.call /\ h.pc = Node
  <2>1. PICK c : c = Called
    OBVIOUS
  <2>2. IsFrame(c) /\ FrameOK(c) /\ c.call = Top.call /\ c.returned = Top.returned /\ c.pc = Node
    BY <1>1, <2>1, CalledOK
  <2>3. FrameInv(Done(c)) /\ Done(c).call = c.call
    BY <1>1, <2>2, DoneOK
  <2>4. Done(c).pc = c.pc
    BY <2>2 DEF Done, IsFrame
  <2> QED BY <1>7, <2>1, <2>2, <2>3, <2>4
<1>9. /\ Depth \in Nat /\ Depth >= 2 /\ DOMAIN frames = 1 .. Depth /\ Depth \in DOMAIN frames
  BY TopFacts
<1>10. PICK S : frames \in Seq(S)
  BY DEF FramesInv
<1> DEFINE T == S \cup {g, h}
           base == [frames EXCEPT ![Depth] = h]
<1>11. base \in Seq(T) /\ Len(base) = Depth
  <2>1. frames \in Seq(T) /\ Len(frames) = Depth
    BY <1>10 DEF Depth
  <2> QED BY <1>9, <2>1, ExceptSeq
<1>12. base[Depth] = h /\ \A i \in 1 .. Depth : i # Depth => base[i] = frames[i]
  BY <1>9
<1>13. frames' = Append(base, g)
  BY <1>4, <1>5, <1>7
<1> HIDE DEF base
<1>14. /\ frames' \in Seq(T) /\ Len(frames') = Depth + 1 /\ DOMAIN frames' = 1 .. Depth + 1
       /\ frames'[Depth + 1] = g
       /\ \A i \in 1 .. Depth : frames'[i] = base[i]
  BY <1>9, <1>11, <1>13
<1>15. \A i \in 1 .. Depth + 1 : FrameInv(frames'[i])
  <2> SUFFICES ASSUME NEW i \in 1 .. Depth + 1
               PROVE  FrameInv(frames'[i])
    OBVIOUS
  <2>1. CASE i = Depth + 1
    BY <1>6, <1>14, <2>1
  <2>2. CASE i = Depth
    BY <1>8, <1>9, <1>12, <1>14, <2>2
  <2>3. CASE i \in 1 .. Depth /\ i # Depth
    BY <1>9, <1>12, <1>14, <2>3 DEF FramesInv
  <2> QED BY <1>9, <2>1, <2>2, <2>3
<1>16. (\A i \in DOMAIN frames : FrameInv(frames[i]))'
  BY <1>1, <1>14, <1>15
     DEF FrameInv, IsFrame, FrameOK, Nodes_, Tasks, Ordered, AllQuiet, StmtTask, Quiet
<1>17. CallPending'
  <2>1. Depth' = Depth + 1
    BY <1>14 DEF Depth
  <2>2. SUFFICES ASSUME NEW i \in 2 .. Depth
                 PROVE  frames'[i].pc = frames'[i + 1].call
    BY <1>9, <2>1 DEF CallPending
  <2>3. CASE i = Depth
    BY <1>2, <1>6, <1>8, <1>9, <1>12, <1>14, <2>3
  <2>4. CASE i # Depth
    <3>1. i \in 2 .. Depth - 1 /\ i \in 1 .. Depth /\ i + 1 \in 1 .. Depth
      BY <1>9, <2>4
    <3>2. frames[i].pc = frames[i + 1].call
      BY <3>1 DEF FramesInv, CallPending
    <3>3. frames'[i] = frames[i]
      BY <1>12, <1>14, <2>4, <3>1
    <3>4. frames'[i + 1].call = frames[i + 1].call
      <4>1. CASE i + 1 = Depth
        BY <1>8, <1>12, <1>14, <3>1, <4>1 DEF Top
      <4>2. CASE i + 1 # Depth
        BY <1>12, <1>14, <3>1, <4>2
      <4> QED BY <4>1, <4>2
    <3> QED BY <3>2, <3>3, <3>4
  <2> QED BY <2>3, <2>4
<1> QED BY <1>9, <1>14, <1>16, <1>17 DEF FramesInv

LEMMA ReturnKeeps == ProgOK /\ FramesInv /\ Return => FramesInv'
<1> SUFFICES ASSUME ProgOK, FramesInv, Return
             PROVE  FramesInv'
  OBVIOUS
<1>1. Top.work # <<>> /\ Kind(Node) = "ret" /\ Kids(Node) # <<>> /\ prog' = prog
  BY DEF Return, At
<1>2. Len(Kids(Node)) \in 0 .. 1 /\ Kids(Node) \in Seq(Nodes_)
  BY <1>1, InHand DEF IsNode, Kind, Kids
<1>3. Len(Kids(Node)) = 1
  BY <1>1, <1>2
<1>4. PICK i : i = Depth - 1
  OBVIOUS
<1>5. PICK below : below = frames[i]
  OBVIOUS
<1>6. PICK v \in ExactVal(Kids(Node)[1]) :
        IF below.pc = 0 THEN Drop
        ELSE frames' = [frames EXCEPT
                 ![i] = [below EXCEPT !.expr = Bind(below.expr, below.pc, v)],
                 ![Depth] = [Done(Top) EXCEPT !.returned = TRUE]]
  BY <1>4, <1>5 DEF Return
<1>7. v \in Int
  BY <1>1, <1>3, KidsAreInt
<1>8. /\ Depth \in Nat /\ Depth \in DOMAIN frames /\ i \in DOMAIN frames /\ i # Depth
      /\ FrameInv(Top) /\ FrameInv(below)
  BY <1>4, <1>5, TopFacts DEF FramesInv
<1>9. CASE below.pc = 0
  BY <1>1, <1>6, <1>9, DropTopKeeps
<1>10. CASE below.pc # 0
  <2>1. PICK g : g = [below EXCEPT !.expr = Bind(below.expr, below.pc, v)]
    OBVIOUS
  <2>2. below.pc \in Nodes_
    BY <1>8, <1>10 DEF FrameInv, FrameOK
  <2>3. /\ IsFrame(g) /\ FrameOK(g) /\ g.call = below.call /\ g.returned = below.returned
        /\ g.pc = below.pc /\ g.work = below.work
    BY <1>7, <1>8, <2>1, <2>2, BoundOK DEF FrameInv
  <2>4. FrameInv(g)
    BY <1>8, <2>3 DEF FrameInv
  <2>5. PICK d : d = Done(Top)
    OBVIOUS
  <2>6. FrameInv(d) /\ d.call = Top.call
    BY <1>1, <1>8, <2>5, DoneOK DEF FrameInv
  <2>7. AllQuiet(d.work)
    <3>1. StmtTask(Task)
      BY <1>1, InHand DEF StmtKinds
    <3>2. AllQuiet(Tail(Top.work))
      BY <1>1, <3>1, InHand
    <3>3. d.work = Tail(Top.work)
      BY <1>8, <2>5 DEF Done, FrameInv, IsFrame
    <3> QED BY <3>2, <3>3
  <2>8. PICK h : h = [d EXCEPT !.returned = TRUE]
    OBVIOUS
  <2>9. /\ IsFrame(h) /\ h.slot = d.slot /\ h.expr = d.expr /\ h.pc = d.pc
        /\ h.returned = TRUE /\ h.work = d.work /\ h.call = d.call
    BY <2>6, <2>8, PutReturned DEF FrameInv, IsFrame
  <2>10. FrameInv(h) /\ h.call = Top.call
    BY <2>6, <2>7, <2>9 DEF FrameInv, FrameOK
  <2>11. frames' = [[frames EXCEPT ![i] = g] EXCEPT ![Depth] = h]
    BY <1>6, <1>10, <2>1, <2>5, <2>8
  <2> QED BY <1>1, <1>5, <1>8, <2>3, <2>4, <2>10, <2>11, StoreKeeps
<1> QED BY <1>9, <1>10

LEMMA LeaveKeeps == ProgOK /\ FramesInv /\ LeaveFunction => FramesInv'
<1> SUFFICES ASSUME ProgOK, FramesInv, LeaveFunction
             PROVE  FramesInv'
  OBVIOUS
<1>1. prog' = prog /\ Depth > 2 /\ frames' = SubSeq(frames, 1, Depth - 1)
  BY DEF LeaveFunction
<1>2. Depth \in Nat /\ DOMAIN frames = 1 .. Depth
  BY TopFacts
<1>3. PICK S : frames \in Seq(S)
  BY DEF FramesInv
<1>4. /\ frames' \in Seq(S) /\ Len(frames') = Depth - 1 /\ DOMAIN frames' = 1 .. Depth - 1
      /\ \A i \in 1 .. Depth - 1 : frames'[i] = frames[i]
  BY <1>1, <1>2, <1>3 DEF Depth
<1>5. (\A i \in DOMAIN frames : FrameInv(frames[i]))'
  <2>1. \A i \in 1 .. Depth - 1 : FrameInv(frames[i])
    BY <1>2 DEF FramesInv
  <2> QED BY <1>1, <1>4, <2>1
       DEF FrameInv, IsFrame, FrameOK, Nodes_, Tasks, Ordered, AllQuiet, StmtTask, Quiet
<1>6. CallPending'
  <2>1. Depth' = Depth - 1
    BY <1>4 DEF Depth
  <2>2. SUFFICES ASSUME NEW i \in 2 .. Depth - 2
                 PROVE  frames'[i].pc = frames'[i + 1].call
    BY <1>2, <2>1 DEF CallPending
  <2>3. i \in 2 .. Depth - 1 /\ i \in 1 .. Depth - 1 /\ i + 1 \in 1 .. Depth - 1
    BY <1>2
  <2>4. frames[i].pc = frames[i + 1].call
    BY <2>3 DEF FramesInv, CallPending
  <2> QED BY <1>4, <2>3, <2>4
<1> QED BY <1>1, <1>2, <1>4, <1>5, <1>6 DEF FramesInv

-----------------------------------------------------------------------------
(* The induction.                                                          *)

LEMMA InitIInv == Init => IInv
<1> SUFFICES ASSUME Init
             PROVE  IInv
  OBVIOUS
<1>1. ProgOK
  BY DEF Init, ProgOK
<1>2. WorldInv
  BY InputAssumption DEF Init, WorldInv, NoValues
<1> DEFINE decls == {DeclSlots(prog, n) : n \in prog.globals}
           slots == UNION {DOMAIN d : d \in decls}
           Global(s) == CHOOSE d \in decls : s \in DOMAIN d
           slot == [s \in slots |-> Global(s)[s]]
<1>3. slot \in [DOMAIN slot -> Int]
  <2>1. \A n \in prog.globals : n \in DOMAIN prog.node /\ Kind(n) = "decl"
    BY <1>1, ProgramAssumption DEF ProgOK, IsProgram, Kind
  <2>2. \A n \in prog.globals : DeclSlots(prog, n) \in [DOMAIN DeclSlots(prog, n) -> Int]
    BY <1>1, <2>1, DeclSlotsOK
  <2>3. \A d \in decls : d \in [DOMAIN d -> Int]
    BY <2>2
  <2> HIDE DEF decls
  <2>4. \A s \in slots : Global(s) \in decls /\ s \in DOMAIN Global(s)
    <3> SUFFICES ASSUME NEW s \in slots
                 PROVE  Global(s) \in decls /\ s \in DOMAIN Global(s)
      OBVIOUS
    <3>1. \E d \in decls : s \in DOMAIN d
      OBVIOUS
    <3> QED BY <3>1
  <2> HIDE DEF Global, slots
  <2>5. \A s \in slots : Global(s)[s] \in Int
    BY <2>3, <2>4
  <2> QED BY <2>5
<1>4. frames = <<NewFrame(slot, <<>>, 0),
                 NewFrame(NoValues, Children(prog.fun["main"].body), 0)>>
  BY DEF Init
<1>5. PICK g : g = NewFrame(slot, <<>>, 0)
  OBVIOUS
<1>6. PICK h : h = NewFrame(NoValues, Children(prog.fun["main"].body), 0)
  OBVIOUS
<1>7. FrameInv(g)
  <2>1. <<>> \in Seq(Tasks) /\ AllQuiet(<<>>)
    BY DEF AllQuiet
  <2> HIDE DEF slot
  <2> QED BY <1>1, <1>3, <1>5, <2>1, NewFrameOK
<1>8. FrameInv(h)
  <2>1. "main" \in DOMAIN prog.fun
    BY <1>1, ProgramAssumption DEF ProgOK, IsProgram
  <2>2. PICK work \in Seq(Tasks) : work = Children(prog.fun["main"].body) /\ AllQuiet(work)
    BY <1>1, <2>1, BodyOK
  <2>3. NoValues \in [DOMAIN NoValues -> Int]
    BY DEF NoValues
  <2> QED BY <1>1, <1>6, <2>2, <2>3, NewFrameOK
<1>9. frames = <<g, h>>
  BY <1>4, <1>5, <1>6
<1>10. /\ frames \in Seq({g, h}) /\ Len(frames) = 2 /\ DOMAIN frames = 1 .. 2
       /\ frames[1] = g /\ frames[2] = h
  BY <1>9
<1>11. CallPending
  BY <1>10 DEF CallPending, Depth
<1>12. \A i \in DOMAIN frames : FrameInv(frames[i])
  BY <1>7, <1>8, <1>10
<1>13. FramesInv
  BY <1>10, <1>11, <1>12 DEF FramesInv
<1> QED BY <1>1, <1>2, <1>13 DEF IInv

LEMMA StutterKeeps == FramesInv /\ UNCHANGED <<prog, frames>> => FramesInv'
<1> SUFFICES ASSUME FramesInv, UNCHANGED <<prog, frames>>
             PROVE  FramesInv'
  OBVIOUS
<1>1. Depth' = Depth
  BY DEF Depth
<1> QED BY <1>1 DEF FramesInv, CallPending, FrameInv, IsFrame, FrameOK, Nodes_, Tasks, Ordered,
           AllQuiet, StmtTask, Quiet

LEMMA FramesStep == IInv /\ [Next]_vars => FramesInv'
<1> SUFFICES ASSUME IInv, [Next]_vars
             PROVE  FramesInv'
  OBVIOUS
<1>1. ProgOK /\ FramesInv /\ WorldInv /\ heap \in [DOMAIN heap -> Int]
  BY DEF IInv, WorldInv
<1>2. CASE Visit
  BY <1>1, <1>2, VisitKeeps
<1>3. CASE SkipVisit
  BY <1>1, <1>3, DropTopKeeps DEF SkipVisit, At
<1>4. CASE Branch
  BY <1>1, <1>4, BranchKeeps
<1>5. CASE Loop
  BY <1>1, <1>5, LoopKeeps
<1>6. CASE Assign
  BY <1>1, <1>6, AssignKeeps
<1>7. CASE Operate
  BY <1>1, <1>7, OperateKeeps
<1>8. CASE CastValue \/ Uniop \/ ParenValue
  BY <1>1, <1>8, UnaryKeeps
<1>9. CASE MSizeof
  BY <1>1, <1>9, SizeofKeeps
<1>10. CASE Declare
  BY <1>1, <1>10, DeclareKeeps
<1>11. CASE CallInput \/ CallOutput \/ CallMalloc \/ CallFree
  BY <1>1, <1>11, CallBuiltinKeeps
<1>12. CASE CallFunction
  BY <1>1, <1>12, CallFunctionKeeps
<1>13. CASE Return
  BY <1>1, <1>13, ReturnKeeps
<1>14. CASE LeaveFunction
  BY <1>1, <1>14, LeaveKeeps
<1>15. CASE Finish \/ Abort \/ UNCHANGED vars
  <2>1. UNCHANGED <<prog, frames>>
    BY <1>15 DEF Finish, Abort, vars
  <2> QED BY <1>1, <2>1, StutterKeeps
<1>16. Stopped => UNCHANGED vars
  BY DEF Stopped
<1> QED BY <1>2, <1>3, <1>4, <1>5, <1>6, <1>7, <1>8, <1>9, <1>10, <1>11, <1>12, <1>13, <1>14,
           <1>15, <1>16 DEF Next

LEMMA WorldStep == IInv /\ [Next]_vars => ProgOK' /\ WorldInv'
<1> SUFFICES ASSUME IInv, [Next]_vars
             PROVE  ProgOK' /\ WorldInv'
  OBVIOUS
<1>1. ProgOK /\ FramesInv /\ WorldInv
  BY DEF IInv
<1>2. CASE UNCHANGED <<prog, heap, live, input, output, status>>
  BY <1>1, <1>2 DEF ProgOK, WorldInv
<1>3. CASE Assign
  <2>1. Top.work # <<>> /\ Kind(Node) = "asg" /\ UNCHANGED <<prog, live, input, output, status>>
    BY <1>3 DEF Assign, At
  <2>2. Len(Kids(Node)) = 2
    BY <1>1, <2>1, InHand DEF IsNode, Kind, Kids
  <2>3. PICK l \in Nodes_ : l = Kids(Node)[1]
    BY <1>1, <2>1, <2>2, KidsAreInt
  <2>4. PICK v \in ExactVal(Kids(Node)[2]) :
          \/ UNCHANGED heap
          \/ /\ Kind(l) = "deref"
             /\ \E a \in ExactVal(Kids(l)[1]) : heap' = Bind(heap, a, v)
    BY <1>3, <2>3 DEF Assign
  <2>5. v \in Int
    BY <1>1, <2>1, <2>2, KidsAreInt
  <2>6. heap' \in [DOMAIN heap' -> Int]
    <3>1. CASE UNCHANGED heap
      BY <1>1, <3>1 DEF WorldInv
    <3>2. CASE \E a : heap' = Bind(heap, a, v)
      <4>1. PICK a : heap' = Bind(heap, a, v)
        BY <3>2
      <4>2. PICK f : f = heap
        OBVIOUS
      <4>3. f \in [DOMAIN f -> Int]
        BY <1>1, <4>2 DEF WorldInv
      <4>4. Bind(f, a, v) \in [DOMAIN Bind(f, a, v) -> Int]
        BY <2>5, <4>3, BindOK
      <4> QED BY <4>1, <4>2, <4>4
    <3> QED BY <2>4, <3>1, <3>2
  <2> QED BY <1>1, <2>1, <2>6 DEF ProgOK, WorldInv
<1>4. CASE CallInput
  BY <1>1, <1>4 DEF CallInput, ProgOK, WorldInv
<1>5. CASE CallOutput
  <2>1. Top.work # <<>> /\ Kind(Node) = "call" /\ Data(Node) = "PRINT"
    BY <1>5 DEF CallOutput, AtCall, At
  <2>2. Len(Kids(Node)) = 1
    <3>1. IsNode(prog, Node)
      BY <1>1, <2>1, InHand
    <3>2. \/ Len(Kids(Node)) \in 1 .. 1
          \/ Data(Node) = "GET"
          \/ Data(Node) \notin Builtins
      BY <2>1, <3>1 DEF IsNode, Kind, Kids, Data
    <3> QED BY <2>1, <3>2 DEF Builtins
  <2>3. \A v \in ExactVal(Kids(Node)[1]) : v \in Int
    BY <1>1, <2>1, <2>2, KidsAreInt
  <2>4. PICK v \in Int : output' = Append(output, v)
    BY <1>5, <2>3 DEF CallOutput
  <2>5. output' \in Seq(Int)
    BY <1>1, <2>4 DEF WorldInv
  <2>6. UNCHANGED <<prog, heap, live, input, status>>
    BY <1>5 DEF CallOutput
  <2> QED BY <1>1, <2>5, <2>6 DEF ProgOK, WorldInv
<1>6. CASE CallMalloc
  <2>1. Top.work # <<>> /\ Kind(Node) = "call" /\ Data(Node) = "MALLOC"
    BY <1>6 DEF CallMalloc, AtCall, At
  <2>2. Len(Kids(Node)) = 1
    <3>1. IsNode(prog, Node)
      BY <1>1, <2>1, InHand
    <3>2. \/ Len(Kids(Node)) \in 1 .. 1
          \/ Data(Node) = "GET"
          \/ Data(Node) \notin Builtins
      BY <2>1, <3>1 DEF IsNode, Kind, Kids, Data
    <3> QED BY <2>1, <3>2 DEF Builtins
  <2>3. \A v \in ExactVal(Kids(Node)[1]) : v \in Int
    BY <1>1, <2>1, <2>2, KidsAreInt
  <2>4. PICK v \in Int, at \in Addresses : live' = live \cup {[at |-> at, size |-> Cut(v)]}
    BY <1>6, <2>3 DEF CallMalloc
  <2>5. at \in Int /\ Cut(v) \in Int
    BY AddressAssumption DEF Cut
  <2>6. live' \subseteq [at : Int, size : Int]
    BY <1>1, <2>4, <2>5 DEF WorldInv
  <2>7. UNCHANGED <<prog, heap, input, output, status>>
    BY <1>6 DEF CallMalloc
  <2> QED BY <1>1, <2>6, <2>7 DEF ProgOK, WorldInv
<1>7. CASE CallFree
  <2>1. live' \subseteq live /\ UNCHANGED <<prog, heap, input, output, status>>
    BY <1>7 DEF CallFree
  <2> QED BY <1>1, <2>1 DEF ProgOK, WorldInv
<1>8. CASE Finish \/ Abort
  BY <1>1, <1>8 DEF Finish, Abort, ProgOK, WorldInv
<1>9. \/ UNCHANGED <<prog, heap, live, input, output, status>>
      \/ Assign \/ CallInput \/ CallOutput \/ CallMalloc \/ CallFree \/ Finish \/ Abort
  BY DEF Next, vars, Visit, SkipVisit, Branch, Loop, Operate, CastValue, Uniop, ParenValue,
         MSizeof, Declare, CallFunction, Return, LeaveFunction, Stopped
<1> QED BY <1>2, <1>3, <1>4, <1>5, <1>6, <1>7, <1>8, <1>9

LEMMA Induction == Spec => []IInv
<1>1. IInv /\ [Next]_vars => IInv'
  BY FramesStep, WorldStep DEF IInv
<1> QED BY InitIInv, <1>1, PTL DEF Spec

-----------------------------------------------------------------------------
(* The theorems.                                                           *)

\* The state of Environment has its type, and the stack never loses the globals and the
\* frame above them.
THEOREM TypeCorrect == Spec => []TypeOK
<1>1. IInv => TypeOK
  <2> SUFFICES ASSUME IInv
               PROVE  TypeOK
    OBVIOUS
  <2>1. FramesInv /\ WorldInv
    BY DEF IInv
  <2>2. frames \in Seq({frames[i] : i \in DOMAIN frames})
    <3>1. PICK S : frames \in Seq(S)
      BY <2>1 DEF FramesInv
    <3>2. frames = [i \in 1 .. Len(frames) |-> frames[i]] /\ Len(frames) \in Nat
          /\ DOMAIN frames = 1 .. Len(frames)
      BY <3>1
    <3> QED BY <3>2, IsASeq
  <2>3. \A i \in DOMAIN frames : FrameOK(frames[i])
    BY <2>1 DEF FramesInv, FrameInv
  <2> QED BY <2>1, <2>2, <2>3 DEF TypeOK, FramesInv, WorldInv
<1> QED BY Induction, <1>1, PTL

\* mreturn gives its value to the call it returns from, for every nesting of calls.
THEOREM ReturnsToCaller == Spec => []CallPending
<1>1. IInv => CallPending
  BY DEF IInv, FramesInv
<1> QED BY Induction, <1>1, PTL

\* The isReturned test of every handler is enough: no program prints, stores or computes
\* between a return statement and the end of its function, although the loops that the
\* return is inside of test their condition once more.
THEOREM QuietAfterReturn == Spec => NothingAfterReturn
<1> DEFINE Nothing == Top.returned => /\ UNCHANGED <<heap, live, input, output>>
                                      /\ \A i \in DOMAIN frames' :
                                           /\ frames'[i].slot = frames[i].slot
                                           /\ frames'[i].expr = frames[i].expr
<1>1. IInv /\ [Next]_vars => [Nothing]_vars
  <2> SUFFICES ASSUME IInv, Next, Top.returned
               PROVE  Nothing
    BY DEF vars
  <2>1. ProgOK /\ FramesInv
    BY DEF IInv
  <2>2. FrameInv(Top) /\ Depth \in DOMAIN frames /\ DOMAIN frames = 1 .. Depth /\ Depth \in Nat
    BY <2>1, TopFacts
  <2>3. \A w : LET g == [Top EXCEPT !.work = w] IN g.slot = Top.slot /\ g.expr = Top.expr
    BY <2>2 DEF FrameInv, IsFrame
  <2>4. ASSUME NEW w, SetTop([Top EXCEPT !.work = w]), UNCHANGED <<heap, live, input, output>>
        PROVE  Nothing
    <3>1. PICK g : g = [Top EXCEPT !.work = w]
      OBVIOUS
    <3>2. g.slot = Top.slot /\ g.expr = Top.expr
      BY <2>3, <3>1
    <3>3. frames' = [frames EXCEPT ![Depth] = g]
      BY <2>4, <3>1 DEF SetTop
    <3>4. \A i \in DOMAIN frames' : frames'[i].slot = frames[i].slot
                                    /\ frames'[i].expr = frames[i].expr
      BY <2>2, <3>2, <3>3 DEF Top
    <3> QED BY <2>4, <3>4
  <2>5. CASE SkipVisit
    BY <2>4, <2>5 DEF SkipVisit, Drop, Done
  <2>6. CASE Loop
    <3>1. PICK todo : Becomes(todo)
      BY <2>6 DEF Loop
    <3>2. UNCHANGED <<heap, live, input, output>>
      BY <2>6 DEF Loop
    <3> QED BY <2>4, <3>1, <3>2 DEF Becomes
  <2>7. CASE LeaveFunction
    <3>1. /\ UNCHANGED <<heap, live, input, output>>
          /\ frames' = SubSeq(frames, 1, Depth - 1) /\ Depth > 2
      BY <2>7 DEF LeaveFunction
    <3>2. PICK S : frames \in Seq(S)
      BY <2>1 DEF FramesInv
    <3>3. \A i \in DOMAIN frames' : frames'[i] = frames[i]
      BY <2>2, <3>1, <3>2 DEF Depth
    <3> QED BY <3>1, <3>3
  <2>8. CASE Finish \/ Abort \/ Stopped
    BY <2>8 DEF Finish, Abort, Stopped, vars
  <2>9. \/ SkipVisit \/ Loop \/ LeaveFunction \/ Finish \/ Abort \/ Stopped
    <3>1. Top.work # <<>> => Task[1] \in {"visit", "loop"}
      BY <2>1, InHand
    <3> QED BY <3>1 DEF Next, Visit, Branch, Assign, Operate, CastValue, Uniop,
                ParenValue, MSizeof, Declare, CallInput, CallOutput, CallMalloc, CallFree, CallFunction, Return, AtCall, At
  <2> QED BY <2>5, <2>6, <2>7, <2>8, <2>9
<1> QED BY Induction, <1>1, PTL DEF Spec, NothingAfterReturn

-----------------------------------------------------------------------------
(* Scopes. What a frame has still to do uses the names it has bound, and   *)
(* the ones that are declared before they are used.                        *)

\* The names a task is about to bind, and the names bound somewhere that it may look up.
Gives(p, t) == IF t[1] \in {"visit", "finish"} THEN Introduces(p, t[2]) ELSE {}

Needs(p, t) ==
  (p.node[t[2]].scope \ GlobalNames(p))
    \cup (IF t[1] = "loop" /\ p.node[t[2]].k = "for"
          THEN Introduces(p, p.node[t[2]].kids[1]) ELSE {})

Given(p, w)     == UNION {Gives(p, w[k]) : k \in DOMAIN w}
Before(p, w, j) == UNION {Gives(p, w[k]) : k \in 1 .. j - 1}

\* Work that needs no name but those of B and those it binds itself, in time.
InScope(p, w, B) == \A j \in DOMAIN w : Needs(p, w[j]) \subseteq B \cup Before(p, w, j)

LEMMA ScopeGrows ==
  \A p, w, B, C : InScope(p, w, B) /\ B \subseteq C => InScope(p, w, C)
  BY DEF InScope

LEMMA ScopeEmpty == \A p, B : InScope(p, <<>>, B)
  BY DEF InScope

LEMMA ScopeOne ==
  \A p, t, B : Needs(p, t) \subseteq B
               => InScope(p, <<t>>, B) /\ Given(p, <<t>>) = Gives(p, t)
<1> SUFFICES ASSUME NEW p, NEW t, NEW B, Needs(p, t) \subseteq B
             PROVE  InScope(p, <<t>>, B) /\ Given(p, <<t>>) = Gives(p, t)
  OBVIOUS
<1>1. DOMAIN <<t>> = {1} /\ <<t>>[1] = t
  OBVIOUS
<1> QED BY <1>1 DEF InScope, Given

\* Work put before other work.
LEMMA ScopeJoined ==
  \A p, B : \A v, w \in Seq(Tasks) :
    /\ InScope(p, v, B)
    /\ InScope(p, w, B \cup Given(p, v))
    => InScope(p, v \o w, B) /\ Given(p, v \o w) = Given(p, v) \cup Given(p, w)
<1> TAKE p, B
<1> TAKE v, w \in Seq(Tasks)
<1> HAVE InScope(p, v, B) /\ InScope(p, w, B \cup Given(p, v))
<1>1. PICK u : u = v \o w
  OBVIOUS
<1>2. PICK a, b : a = Len(v) /\ b = Len(w)
  OBVIOUS
<1>3. /\ DOMAIN u = 1 .. a + b
      /\ a \in Nat /\ b \in Nat
      /\ \A i \in 1 .. a : i \in DOMAIN v /\ u[i] = v[i]
      /\ \A i \in a + 1 .. a + b : i - a \in DOMAIN w /\ u[i] = w[i - a]
      /\ DOMAIN v = 1 .. a /\ DOMAIN w = 1 .. b
  BY <1>1, <1>2, Joined
<1>4. \A k \in DOMAIN u : k \in 1 .. a \/ k \in a + 1 .. a + b
  BY <1>3
<1>5. \A i \in 1 .. a : i \in DOMAIN u
  BY <1>3
<1>6. \A i \in 1 .. b : a + i \in a + 1 .. a + b /\ a + i \in DOMAIN u /\ (a + i) - a = i
  BY <1>3
<1>7. Given(p, u) = Given(p, v) \cup Given(p, w)
  <2>1. \A x \in Given(p, v) : x \in Given(p, u)
    BY <1>3, <1>5 DEF Given
  <2>2. \A x \in Given(p, w) : x \in Given(p, u)
    <3> SUFFICES ASSUME NEW i \in DOMAIN w, NEW x \in Gives(p, w[i])
                 PROVE  x \in Given(p, u)
      BY DEF Given
    <3>1. a + i \in DOMAIN u /\ u[a + i] = w[i]
      BY <1>3, <1>6
    <3> QED BY <3>1 DEF Given
  <2>3. \A x \in Given(p, u) : x \in Given(p, v) \cup Given(p, w)
    BY <1>3, <1>4 DEF Given
  <2> QED BY <2>1, <2>2, <2>3
<1>8. ASSUME NEW j \in DOMAIN u
      PROVE  Needs(p, u[j]) \subseteq B \cup Before(p, u, j)
  <2>1. CASE j \in 1 .. a
    <3>1. Needs(p, v[j]) \subseteq B \cup Before(p, v, j)
      BY <1>3, <2>1 DEF InScope
    <3>2. \A k \in 1 .. j - 1 : k \in 1 .. a
      BY <1>3, <2>1
    <3>3. Before(p, v, j) = Before(p, u, j)
      BY <1>3, <3>2 DEF Before
    <3> QED BY <1>3, <2>1, <3>1, <3>3
  <2>2. CASE j \in a + 1 .. a + b
    <3>1. PICK i \in DOMAIN w : i = j - a /\ u[j] = w[i] /\ i \in 1 .. b
      BY <1>3, <2>2
    <3>2. Needs(p, w[i]) \subseteq (B \cup Given(p, v)) \cup Before(p, w, i)
      BY DEF InScope
    <3>3. \A k \in 1 .. a : k \in 1 .. j - 1
      BY <1>3, <2>2
    <3>4. \A x \in Given(p, v) : x \in Before(p, u, j)
      BY <1>3, <3>3 DEF Given, Before
    <3>5. \A k \in 1 .. i - 1 : a + k \in 1 .. j - 1 /\ u[a + k] = w[k]
      <4> SUFFICES ASSUME NEW k \in 1 .. i - 1
                   PROVE  a + k \in 1 .. j - 1 /\ u[a + k] = w[k]
        OBVIOUS
      <4>1. a + k \in 1 .. j - 1 /\ k \in 1 .. b
        BY <1>3, <3>1, <2>2
      <4> QED BY <1>3, <1>6, <4>1
    <3>6. \A x \in Before(p, w, i) : x \in Before(p, u, j)
      BY <3>5 DEF Before
    <3> QED BY <3>1, <3>2, <3>4, <3>6
  <2> QED BY <1>4, <2>1, <2>2
<1> QED BY <1>1, <1>7, <1>8 DEF InScope

\* The task in hand, and what is to be done when it is done.
LEMMA ScopeRest ==
  \A p, B : \A w \in Seq(Tasks) :
    w # <<>> /\ InScope(p, w, B)
    => Needs(p, w[1]) \subseteq B /\ InScope(p, Tail(w), B \cup Gives(p, w[1]))
<1> SUFFICES ASSUME NEW p, NEW B, NEW w \in Seq(Tasks), w # <<>>, InScope(p, w, B)
             PROVE  Needs(p, w[1]) \subseteq B /\ InScope(p, Tail(w), B \cup Gives(p, w[1]))
  OBVIOUS
<1>1. PICK t : t = Tail(w)
  OBVIOUS
<1>2. /\ DOMAIN w = 1 .. Len(w) /\ Len(w) \in Nat /\ Len(w) >= 1 /\ 1 \in DOMAIN w
      /\ DOMAIN t = 1 .. Len(w) - 1
      /\ \A i \in DOMAIN t : t[i] = w[i + 1]
  BY <1>1, HeadTailProperties
<1>3. Needs(p, w[1]) \subseteq B
  <2>1. Needs(p, w[1]) \subseteq B \cup Before(p, w, 1)
    BY <1>2 DEF InScope
  <2>2. Before(p, w, 1) = {}
    BY DEF Before
  <2> QED BY <2>1, <2>2
<1>4. ASSUME NEW j \in DOMAIN t
      PROVE  Needs(p, t[j]) \subseteq (B \cup Gives(p, w[1])) \cup Before(p, t, j)
  <2>1. j + 1 \in DOMAIN w /\ t[j] = w[j + 1] /\ j \in Int
    BY <1>2
  <2>2. Needs(p, w[j + 1]) \subseteq B \cup Before(p, w, j + 1)
    BY <2>1 DEF InScope
  <2>3. \A k \in 1 .. (j + 1) - 1 : k = 1 \/ (k - 1 \in 1 .. j - 1 /\ t[k - 1] = w[k])
    <3> SUFFICES ASSUME NEW k \in 1 .. (j + 1) - 1, k # 1
                 PROVE  k - 1 \in 1 .. j - 1 /\ t[k - 1] = w[k]
      OBVIOUS
    <3>1. k - 1 \in 1 .. j - 1 /\ k - 1 \in DOMAIN t /\ (k - 1) + 1 = k
      BY <1>2, <2>1
    <3> QED BY <1>2, <3>1
  <2>4. \A x \in Before(p, w, j + 1) : x \in Gives(p, w[1]) \cup Before(p, t, j)
    BY <2>3 DEF Before
  <2> QED BY <2>1, <2>2, <2>4
<1> QED BY <1>1, <1>3, <1>4 DEF InScope

\* The task in hand is replaced by work that binds what the task promised.
LEMMA ScopePut ==
  \A p, B : \A w, todo \in Seq(Tasks) :
    /\ w # <<>> /\ InScope(p, w, B)
    /\ InScope(p, todo, B)
    /\ Gives(p, w[1]) \subseteq Given(p, todo)
    => InScope(p, todo \o Tail(w), B)
<1> SUFFICES ASSUME NEW p, NEW B, NEW w \in Seq(Tasks), NEW todo \in Seq(Tasks),
                    w # <<>>, InScope(p, w, B), InScope(p, todo, B),
                    Gives(p, w[1]) \subseteq Given(p, todo)
             PROVE  InScope(p, todo \o Tail(w), B)
  OBVIOUS
<1>1. PICK t \in Seq(Tasks) : t = Tail(w)
  BY HeadTailProperties
<1>2. InScope(p, t, B \cup Gives(p, w[1]))
  BY <1>1, ScopeRest
<1>3. B \cup Gives(p, w[1]) \subseteq B \cup Given(p, todo)
  OBVIOUS
<1>4. InScope(p, t, B \cup Given(p, todo))
  BY <1>2, <1>3, ScopeGrows
<1> QED BY <1>1, <1>4, ScopeJoined

\* The names in scope at a node, but for the globals.
Known(n) == prog.node[n].scope \ GlobalNames(prog)

\* Nodes to visit one after the other, with no name but those of B and of the ones before.
InTurn(ns, B) ==
  \A i \in DOMAIN ns : Known(ns[i]) \subseteq B \cup UNION {Introduces(prog, ns[j]) : j \in 1 .. i - 1}

LEMMA VisitsScope ==
  \A ns \in Seq(Nodes_) : \A B :
    InTurn(ns, B) => /\ InScope(prog, Visits(ns), B)
                     /\ \A i \in DOMAIN ns : Introduces(prog, ns[i]) \subseteq Given(prog, Visits(ns))
<1> SUFFICES ASSUME NEW ns \in Seq(Nodes_), NEW B, InTurn(ns, B)
             PROVE  /\ InScope(prog, Visits(ns), B)
                    /\ \A i \in DOMAIN ns : Introduces(prog, ns[i]) \subseteq Given(prog, Visits(ns))
  OBVIOUS
<1>1. PICK w : w = Visits(ns)
  OBVIOUS
<1>2. DOMAIN w = DOMAIN ns /\ DOMAIN ns = 1 .. Len(ns) /\ Len(ns) \in Nat
  BY <1>1 DEF Visits
<1>3. \A i \in DOMAIN ns : w[i] = <<"visit", ns[i]>>
  BY <1>1 DEF Visits
<1>4. \A i \in DOMAIN ns : /\ Gives(prog, w[i]) = Introduces(prog, ns[i])
                           /\ Needs(prog, w[i]) = Known(ns[i])
  BY <1>3 DEF Gives, Needs, Known
<1>5. ASSUME NEW i \in DOMAIN w
      PROVE  Needs(prog, w[i]) \subseteq B \cup Before(prog, w, i)
  <2>1. Known(ns[i]) \subseteq B \cup UNION {Introduces(prog, ns[j]) : j \in 1 .. i - 1}
    BY <1>2 DEF InTurn
  <2>2. \A j \in 1 .. i - 1 : j \in DOMAIN ns
    BY <1>2
  <2>3. \A x \in UNION {Introduces(prog, ns[j]) : j \in 1 .. i - 1} : x \in Before(prog, w, i)
    BY <1>4, <2>2 DEF Before
  <2> QED BY <1>2, <1>4, <2>1, <2>3
<1>6. InScope(prog, w, B)
  BY <1>5 DEF InScope
<1>7. \A i \in DOMAIN ns : Introduces(prog, ns[i]) \subseteq Given(prog, w)
  BY <1>2, <1>4 DEF Given
<1> QED BY <1>1, <1>6, <1>7

LEMMA Binds ==
  \A n \in Nodes_ : Introduces(prog, n) = IF Kind(n) = "decl" THEN {Data(n)[1]} ELSE {}
  BY DEF Introduces, LocalDecls, Nodes_, Kind, Data

\* What the children of a node may use.
LEMMA KidScope ==
  ProgOK => \A n \in Nodes_ :
    /\ Kind(n) # "decl" => \A B : Known(n) \subseteq B => InTurn(Kids(n), B)
    /\ \A i \in DOMAIN Kids(n) :
         /\ Kids(n)[i] \in Nodes_
         /\ Kind(Kids(n)[i]) = "decl" => Kind(n) = "block" \/ (Kind(n) = "for" /\ i = 1)
    /\ Kind(n) = "ref" => Data(n) \in prog.node[n].scope
<1> SUFFICES ASSUME ProgOK, NEW n \in Nodes_
             PROVE  /\ Kind(n) # "decl" => \A B : Known(n) \subseteq B => InTurn(Kids(n), B)
                    /\ \A i \in DOMAIN Kids(n) :
                         /\ Kids(n)[i] \in Nodes_
                         /\ Kind(Kids(n)[i]) = "decl" => Kind(n) = "block" \/ (Kind(n) = "for" /\ i = 1)
                    /\ Kind(n) = "ref" => Data(n) \in prog.node[n].scope
  OBVIOUS
<1>1. IsScoped(prog, n)
  BY ProgramAssumption DEF ProgOK, IsProgram, Nodes_
<1>2. \A i \in DOMAIN Kids(n) : Kids(n)[i] \in Nodes_
  BY KidFacts
<1>3. ASSUME Kind(n) # "decl", NEW B, Known(n) \subseteq B
      PROVE  InTurn(Kids(n), B)
  <2> SUFFICES ASSUME NEW i \in DOMAIN Kids(n)
               PROVE  Known(Kids(n)[i])
                        \subseteq B \cup UNION {Introduces(prog, Kids(n)[j]) : j \in 1 .. i - 1}
    BY DEF InTurn
  <2>1. prog.node[Kids(n)[i]].scope
          \subseteq prog.node[n].scope \cup UNION {Introduces(prog, Kids(n)[j]) : j \in 1 .. i - 1}
    BY <1>1, <1>3 DEF IsScoped, Kids, Kind
  <2> QED BY <1>3, <2>1 DEF Known
<1>4. \A i \in DOMAIN Kids(n) :
        Kind(Kids(n)[i]) = "decl" => Kind(n) = "block" \/ (Kind(n) = "for" /\ i = 1)
  BY <1>1 DEF IsScoped, Kids, Kind
<1>5. Kind(n) = "ref" => Data(n) \in prog.node[n].scope
  BY <1>1 DEF IsScoped, Kind, Data
<1> QED BY <1>2, <1>3, <1>4, <1>5

\* A child that nothing is declared before.
LEMMA PlainKid ==
  ProgOK => \A n \in Nodes_ : \A i \in DOMAIN Kids(n) :
    Kind(n) \notin {"decl", "block", "for"} => /\ Known(Kids(n)[i]) \subseteq Known(n)
                                               /\ Introduces(prog, Kids(n)[i]) = {}
<1> SUFFICES ASSUME ProgOK, NEW n \in Nodes_, NEW i \in DOMAIN Kids(n),
                    Kind(n) \notin {"decl", "block", "for"}
             PROVE  Known(Kids(n)[i]) \subseteq Known(n) /\ Introduces(prog, Kids(n)[i]) = {}
  OBVIOUS
<1>1. \A j \in DOMAIN Kids(n) : Introduces(prog, Kids(n)[j]) = {}
  BY KidScope, Binds
<1>2. InTurn(Kids(n), Known(n))
  BY KidScope
<1>3. Known(Kids(n)[i]) \subseteq Known(n) \cup UNION {Introduces(prog, Kids(n)[j]) : j \in 1 .. i - 1}
  BY <1>2 DEF InTurn
<1>4. \A j \in 1 .. i - 1 : j \in DOMAIN Kids(n)
  BY KidFacts
<1> QED BY <1>1, <1>3, <1>4

\* What the children of a for may use: the head may declare one variable, for all of them.
LEMMA ForKid ==
  ProgOK => \A n \in Nodes_ : \A i \in DOMAIN Kids(n) :
    Kind(n) = "for" => /\ Known(Kids(n)[i]) \subseteq Known(n) \cup Introduces(prog, Kids(n)[1])
                       /\ i > 1 => Introduces(prog, Kids(n)[i]) = {}
<1> SUFFICES ASSUME ProgOK, NEW n \in Nodes_, NEW i \in DOMAIN Kids(n), Kind(n) = "for"
             PROVE  /\ Known(Kids(n)[i]) \subseteq Known(n) \cup Introduces(prog, Kids(n)[1])
                    /\ i > 1 => Introduces(prog, Kids(n)[i]) = {}
  OBVIOUS
<1>1. \A j \in DOMAIN Kids(n) : j > 1 => Introduces(prog, Kids(n)[j]) = {}
  BY KidScope, Binds
<1>2. InTurn(Kids(n), Known(n))
  BY KidScope
<1>3. Known(Kids(n)[i]) \subseteq Known(n) \cup UNION {Introduces(prog, Kids(n)[j]) : j \in 1 .. i - 1}
  BY <1>2 DEF InTurn
<1>4. \A j \in 1 .. i - 1 : j \in DOMAIN Kids(n) /\ (j = 1 \/ j > 1)
  BY KidFacts
<1> QED BY <1>1, <1>3, <1>4

\* The visits of some nodes, then a task of the node they belong to.
LEMMA ScopeThen ==
  \A ns \in Seq(Nodes_), n \in Nodes_ : \A B : \A do \in {"visit", "finish", "branch", "loop"} :
    /\ InTurn(ns, B) /\ Known(n) \subseteq B
    /\ do = "loop" /\ Kind(n) = "for"
       => /\ 1 \in DOMAIN ns /\ ns[1] = Kids(n)[1]
    => InScope(prog, Visits(ns) \o <<<<do, n>>>>, B)
<1> SUFFICES ASSUME NEW ns \in Seq(Nodes_), NEW n \in Nodes_,
                    NEW do \in {"visit", "finish", "branch", "loop"}, NEW B,
                    InTurn(ns, B), Known(n) \subseteq B,
                    do = "loop" /\ Kind(n) = "for" => 1 \in DOMAIN ns /\ ns[1] = Kids(n)[1]
             PROVE  InScope(prog, Visits(ns) \o <<<<do, n>>>>, B)
  OBVIOUS
<1>1. PICK v \in Seq(Tasks) : v = Visits(ns)
  BY VisitsOK
<1>2. PICK t \in Tasks : t = <<do, n>>
  BY DEF Tasks
<1>3. InScope(prog, v, B) /\ \A i \in DOMAIN ns : Introduces(prog, ns[i]) \subseteq Given(prog, v)
  BY <1>1, VisitsScope
<1>4. Needs(prog, t) = Known(n) \cup (IF do = "loop" /\ Kind(n) = "for"
                                      THEN Introduces(prog, Kids(n)[1]) ELSE {})
  BY <1>2 DEF Needs, Known, Kind, Kids
<1>5. Needs(prog, t) \subseteq B \cup Given(prog, v)
  BY <1>3, <1>4
<1>6. PICK w \in Seq(Tasks) : w = <<t>>
  BY OneTask
<1>7. InScope(prog, w, B \cup Given(prog, v))
  BY <1>5, <1>6, ScopeOne
<1> QED BY <1>1, <1>2, <1>3, <1>6, <1>7, ScopeJoined

LEMMA OneInTurn == \A m, B : Known(m) \subseteq B => InTurn(<<m>>, B)
<1> TAKE m, B
<1> HAVE Known(m) \subseteq B
<1>1. DOMAIN <<m>> = {1} /\ <<m>>[1] = m
  OBVIOUS
<1> QED BY <1>1 DEF InTurn

\* A handler plans work in scope, and a declaration for a declaration.
LEMMA HandlerScope ==
  ProgOK => \A n \in Nodes_ : \A B :
    Known(n) \subseteq B => /\ InScope(prog, Handler(n), B)
                            /\ Introduces(prog, n) \subseteq Given(prog, Handler(n))
<1> SUFFICES ASSUME ProgOK, NEW n \in Nodes_, NEW B, Known(n) \subseteq B
             PROVE  /\ InScope(prog, Handler(n), B)
                    /\ Introduces(prog, n) \subseteq Given(prog, Handler(n))
  OBVIOUS
<1>1. PICK k \in Seq(Nodes_) : k = Kids(n) /\ DOMAIN k = 1 .. Len(k)
  BY KidFacts
<1>2. IsNode(prog, n) /\ Kind(n) \in ExprKinds \cup StmtKinds
  BY NodeFacts, KidFacts
<1>3. Kind(n) # "decl" => Introduces(prog, n) = {} /\ InTurn(k, B)
  BY <1>1, Binds, KidScope
<1>4. CASE Kind(n) \in {"num", "ref", "none"}
  <2>1. Handler(n) = <<>>
    BY <1>4 DEF Handler
  <2> QED BY <1>3, <1>4, <2>1, ScopeEmpty
<1>5. CASE Kind(n) = "block"
  <2>1. Handler(n) = Visits(k)
    BY <1>1, <1>5 DEF Handler, Children
  <2> QED BY <1>3, <1>5, <2>1, VisitsScope
<1>6. CASE Kind(n) = "sub"
  <2>1. Handler(n) = Visits(<<k[2]>>)
    BY <1>1, <1>6 DEF Handler
  <2>2. Len(k) \in 2 .. 2
    BY <1>1, <1>2, <1>6 DEF IsNode, Kind, Kids
  <2>3. 2 \in DOMAIN k /\ k[2] \in Nodes_
    BY <1>1, <2>2
  <2>4. Known(k[2]) \subseteq B
    BY <1>1, <1>6, <2>3, PlainKid
  <2>5. <<k[2]>> \in Seq(Nodes_) /\ InTurn(<<k[2]>>, B)
    BY <2>3, <2>4, OneInTurn
  <2> QED BY <1>3, <1>6, <2>1, <2>5, VisitsScope
<1>7. CASE Kind(n) \in {"sizeof", "decl"}
  <2>1. PICK t : t = <<"finish", n>> /\ Handler(n) = <<t>>
    BY <1>7 DEF Handler
  <2>2. Needs(prog, t) = Known(n) /\ Gives(prog, t) = Introduces(prog, n)
    BY <2>1 DEF Needs, Gives, Known
  <2> QED BY <2>1, <2>2, ScopeOne
<1>8. CASE Kind(n) \in {"if", "while"}
  <2>1. PICK do \in {"branch", "loop"} : Handler(n) = Visits(<<k[1]>>) \o <<<<do, n>>>>
    BY <1>1, <1>8 DEF Handler
  <2>2. Len(k) \in 2 .. 3 \/ Len(k) \in 2 .. 2
    BY <1>1, <1>2, <1>8 DEF IsNode, Kind, Kids
  <2>3. 1 \in DOMAIN k /\ k[1] \in Nodes_
    BY <1>1, <2>2
  <2>4. Known(k[1]) \subseteq B
    BY <1>1, <1>8, <2>3, PlainKid
  <2>5. <<k[1]>> \in Seq(Nodes_) /\ InTurn(<<k[1]>>, B)
    BY <2>3, <2>4, OneInTurn
  <2>6. InScope(prog, Handler(n), B)
    BY <1>8, <2>1, <2>5, ScopeThen
  <2> QED BY <1>3, <1>8, <2>6
<1>9. CASE Kind(n) = "for"
  <2>1. Handler(n) = Visits(<<k[1], k[2]>>) \o <<<<"loop", n>>>>
    BY <1>1, <1>9 DEF Handler
  <2>2. Len(k) \in 4 .. 4
    BY <1>1, <1>2, <1>9 DEF IsNode, Kind, Kids
  <2>3. PICK k1, k2 \in Nodes_ : k1 = k[1] /\ k2 = k[2]
    BY <1>1, <2>2
  <2>4. PICK ns \in Seq(Nodes_) : ns = <<k1, k2>>
    <3>1. <<k1, k2>> \in Seq(Nodes_)
      OBVIOUS
    <3> QED BY <3>1
  <2>7. ns = <<k[1], k[2]>> /\ DOMAIN ns = 1 .. 2 /\ ns[1] = k[1] /\ ns[2] = k[2]
    BY <2>3, <2>4
  <2>8. DOMAIN k = 1 .. 4
    <3>1. Len(k) = 4
      BY <2>2
    <3> QED BY <1>1, <3>1
  <2>5. InTurn(ns, B)
    <3> SUFFICES ASSUME NEW i \in 1 .. 2
                 PROVE  Known(ns[i]) \subseteq B \cup UNION {Introduces(prog, ns[j]) : j \in 1 .. i - 1}
      BY <2>7, <2>8 DEF InTurn
    <3>1. i \in DOMAIN k /\ ns[i] = k[i] /\ \A j \in 1 .. i - 1 : ns[j] = k[j]
      BY <2>7, <2>8
    <3>2. Known(k[i]) \subseteq B \cup UNION {Introduces(prog, k[j]) : j \in 1 .. i - 1}
      BY <1>3, <1>9, <3>1 DEF InTurn
    <3> QED BY <3>1, <3>2
  <2>6. InScope(prog, Handler(n), B)
    <3>1. 1 \in DOMAIN ns /\ ns[1] = Kids(n)[1]
      BY <1>1, <2>7, <2>8
    <3>2. InScope(prog, Visits(ns) \o <<<<"loop", n>>>>, B)
      BY <2>5, <3>1, ScopeThen
    <3> QED BY <2>1, <2>7, <3>2
  <2> QED BY <1>3, <1>9, <2>6
<1>10. CASE Kind(n) \in {"cast", "paren", "neg", "deref", "bin", "asg", "call", "ret"}
  <2>1. Handler(n) = Visits(k) \o <<<<"finish", n>>>>
    BY <1>1, <1>10 DEF Handler, Children
  <2>2. InScope(prog, Handler(n), B)
    BY <1>3, <1>10, <2>1, ScopeThen
  <2> QED BY <1>3, <1>10, <2>2
<1> QED BY <1>2, <1>4, <1>5, <1>6, <1>7, <1>8, <1>9, <1>10 DEF ExprKinds, StmtKinds

LEMMA BodyScope ==
  ProgOK => \A n \in Nodes_ : \A B :
    Kind(n) # "decl" /\ Known(n) \subseteq B => InScope(prog, Children(n), B)
  BY KidScope, KidFacts, VisitsScope DEF Children

\* The branch taken.
LEMMA BranchScope ==
  ProgOK => \A n \in Nodes_ : \A B :
    Kind(n) = "if" /\ Known(n) \subseteq B
    => LET k == Kids(n) IN /\ Visits(<<k[2]>>) \in Seq(Tasks)
                           /\ InScope(prog, Visits(<<k[2]>>), B)
                           /\ Visits(SubSeq(k, 3, Len(k))) \in Seq(Tasks)
                           /\ InScope(prog, Visits(SubSeq(k, 3, Len(k))), B)
<1> SUFFICES ASSUME ProgOK, NEW n \in Nodes_, NEW B, Kind(n) = "if", Known(n) \subseteq B
             PROVE  LET k == Kids(n) IN /\ Visits(<<k[2]>>) \in Seq(Tasks)
                                        /\ InScope(prog, Visits(<<k[2]>>), B)
                                        /\ Visits(SubSeq(k, 3, Len(k))) \in Seq(Tasks)
                                        /\ InScope(prog, Visits(SubSeq(k, 3, Len(k))), B)
  OBVIOUS
<1>1. PICK k \in Seq(Nodes_) : k = Kids(n) /\ DOMAIN k = 1 .. Len(k)
  BY KidFacts
<1>2. Len(k) \in 2 .. 3
  BY <1>1, NodeFacts DEF IsNode, Kind, Kids
<1>3. \A i \in DOMAIN k : Known(k[i]) \subseteq B
  BY <1>1, PlainKid
<1>4. PICK ns : ns = <<k[2]>>
  OBVIOUS
<1>5. ns \in Seq(Nodes_) /\ InTurn(ns, B)
  BY <1>1, <1>2, <1>3, <1>4, OneInTurn
<1>6. PICK ms : ms = SubSeq(k, 3, Len(k))
  OBVIOUS
<1>7. ms \in Seq(Nodes_) /\ InTurn(ms, B)
  <2>1. ms \in Seq(Nodes_) /\ \A i \in DOMAIN ms : i + 2 \in DOMAIN k /\ ms[i] = k[i + 2]
    BY <1>1, <1>2, <1>6
  <2>2. \A i \in DOMAIN ms : Known(ms[i]) \subseteq B
    BY <1>3, <2>1
  <2> QED BY <2>1, <2>2 DEF InTurn
<1> QED BY <1>1, <1>4, <1>5, <1>6, <1>7, VisitsScope, VisitsOK

\* One more round of a loop.
LEMMA LoopScope ==
  ProgOK => \A n \in Nodes_ : \A B :
    Kind(n) \in {"while", "for"} /\ Needs(prog, <<"loop", n>>) \subseteq B
    => InScope(prog, Children(LoopBody(n)) \o Visits(LoopInc(n)) \o Visits(<<LoopCond(n)>>)
                     \o <<<<"loop", n>>>>, B)
<1> SUFFICES ASSUME ProgOK, NEW n \in Nodes_, NEW B,
                    Kind(n) \in {"while", "for"}, Needs(prog, <<"loop", n>>) \subseteq B
             PROVE  InScope(prog, Children(LoopBody(n)) \o Visits(LoopInc(n))
                                  \o Visits(<<LoopCond(n)>>) \o <<<<"loop", n>>>>, B)
  OBVIOUS
<1>1. PICK k \in Seq(Nodes_) : k = Kids(n) /\ DOMAIN k = 1 .. Len(k)
  BY KidFacts
<1>2. Known(n) \subseteq B /\ (Kind(n) = "for" => Introduces(prog, k[1]) \subseteq B)
  BY <1>1 DEF Needs, Known, Kind, Kids
<1>3. PICK b, c : b = LoopBody(n) /\ c = LoopCond(n)
  OBVIOUS
<1>4. PICK inc : inc = LoopInc(n)
  OBVIOUS
<1>5. /\ b \in Nodes_ /\ Known(b) \subseteq B /\ Kind(b) # "decl"
      /\ c \in Nodes_ /\ Known(c) \subseteq B
      /\ inc \in Seq(Nodes_) /\ InTurn(inc, B)
  <2>1. CASE Kind(n) = "while"
    <3>1. Len(k) = 2
      BY <1>1, <2>1, NodeFacts DEF IsNode, Kind, Kids
    <3>2. 1 \in DOMAIN k /\ 2 \in DOMAIN k
      BY <1>1, <3>1
    <3>3. b = k[2] /\ c = k[1] /\ inc = <<>>
      BY <1>1, <1>3, <1>4, <2>1 DEF LoopBody, LoopInc, LoopCond
    <3>4. Known(b) \subseteq B /\ Known(c) \subseteq B
      BY <1>1, <1>2, <2>1, <3>2, <3>3, PlainKid
    <3>5. Kind(b) # "decl"
      BY <1>1, <2>1, <3>2, <3>3, KidScope
    <3>6. inc \in Seq(Nodes_) /\ InTurn(inc, B)
      BY <3>3 DEF InTurn
    <3> QED BY <1>1, <3>2, <3>3, <3>4, <3>5, <3>6
  <2>2. CASE Kind(n) = "for"
    <3>1. Len(k) = 4
      BY <1>1, <2>2, NodeFacts DEF IsNode, Kind, Kids
    <3>2. 2 \in DOMAIN k /\ 3 \in DOMAIN k /\ 4 \in DOMAIN k
      BY <1>1, <3>1
    <3>3. b = k[4] /\ c = k[2] /\ inc = <<k[3]>>
      BY <1>1, <1>3, <1>4, <2>2 DEF LoopBody, LoopInc, LoopCond
    <3>4. \A i \in DOMAIN k : Known(k[i]) \subseteq B
      BY <1>1, <1>2, <2>2, ForKid
    <3>5. Kind(b) # "decl"
      BY <1>1, <2>2, <3>2, <3>3, KidScope
    <3>6. inc \in Seq(Nodes_) /\ InTurn(inc, B)
      BY <1>1, <3>2, <3>3, <3>4, OneInTurn
    <3> QED BY <1>1, <3>2, <3>3, <3>4, <3>5, <3>6
  <2> QED BY <2>1, <2>2
<1>6. PICK v1 \in Seq(Tasks) : v1 = Children(b) /\ InScope(prog, v1, B)
  BY <1>5, BodyScope, KidFacts, VisitsOK DEF Children
<1>7. PICK v2 \in Seq(Tasks) : v2 = Visits(inc) /\ InScope(prog, v2, B)
  BY <1>5, VisitsScope, VisitsOK
<1>8. PICK v3 \in Seq(Tasks) : v3 = Visits(<<c>>) /\ InScope(prog, v3, B)
  BY <1>5, OneInTurn, VisitsScope, OneVisit
<1>9. PICK v4 \in Seq(Tasks) : v4 = <<<<"loop", n>>>> /\ InScope(prog, v4, B)
  <2>1. <<"loop", n>> \in Tasks
    BY DEF Tasks
  <2> QED BY <2>1, OneTask, ScopeOne
<1>10. PICK v12 \in Seq(Tasks) : v12 = v1 \o v2 /\ InScope(prog, v12, B)
  <2>1. InScope(prog, v2, B \cup Given(prog, v1))
    BY <1>7, ScopeGrows
  <2> QED BY <1>6, <2>1, ScopeJoined, Joined
<1>11. PICK v123 \in Seq(Tasks) : v123 = v12 \o v3 /\ InScope(prog, v123, B)
  <2>1. InScope(prog, v3, B \cup Given(prog, v12))
    BY <1>8, ScopeGrows
  <2> QED BY <1>10, <2>1, ScopeJoined, Joined
<1>12. InScope(prog, v123 \o v4, B)
  <2>1. InScope(prog, v4, B \cup Given(prog, v123))
    BY <1>9, ScopeGrows
  <2> QED BY <1>11, <2>1, ScopeJoined
<1> QED BY <1>3, <1>4, <1>6, <1>7, <1>8, <1>9, <1>10, <1>11, <1>12

-----------------------------------------------------------------------------
(* What is bound in the frames of the functions.                           *)

\* All the slots of a variable: one declaration tells, or it is a parameter.
Shape(p, v) ==
  LET decls == {n \in LocalDecls(p) : p.node[n].x[1] = v}
  IN  IF decls = {} THEN {<<v>>} ELSE UNION {DOMAIN DeclSlots(p, n) : n \in decls}

\* Slots that belong together are bound together.
Whole(p, S) == \A s \in S : s \in Shape(p, s[1]) /\ Shape(p, s[1]) \subseteq S

Names(S) == {s[1] : s \in S}

\* What a function has still to do is in scope, until it returns.
Planned(p, f) == f.returned \/ InScope(p, f.work, Names(DOMAIN f.slot))

\* The parameters of main have no value and are not bound: the frames above its own.
ScopeInv == \A i \in 2 .. Depth : /\ Whole(prog, DOMAIN frames[i].slot)
                                  /\ i > 2 => Planned(prog, frames[i])

LEMMA DeclSlotNames == \A p, n : \A s \in DOMAIN DeclSlots(p, n) : s[1] = p.node[n].x[1]
  BY DEF DeclSlots

\* A declaration binds all of a variable.
LEMMA DeclareWhole ==
  ProgOK => \A n \in Nodes_ : \A S :
    Kind(n) = "decl" /\ Whole(prog, S)
    => /\ Whole(prog, S \cup DOMAIN DeclSlots(prog, n))
       /\ Names(S \cup DOMAIN DeclSlots(prog, n)) = Names(S) \cup Introduces(prog, n)
<1> SUFFICES ASSUME ProgOK, NEW n \in Nodes_, NEW S, Kind(n) = "decl", Whole(prog, S)
             PROVE  /\ Whole(prog, S \cup DOMAIN DeclSlots(prog, n))
                    /\ Names(S \cup DOMAIN DeclSlots(prog, n)) = Names(S) \cup Introduces(prog, n)
  OBVIOUS
<1>1. PICK v, D : v = prog.node[n].x[1] /\ D = DOMAIN DeclSlots(prog, n)
  OBVIOUS
<1>2. n \in LocalDecls(prog) /\ Introduces(prog, n) = {v}
  BY <1>1 DEF LocalDecls, Introduces, Nodes_, Kind
<1>3. \A m \in LocalDecls(prog) : prog.node[m].x[1] = v => m = n
  <2> SUFFICES ASSUME NEW m \in LocalDecls(prog), prog.node[m].x[1] = v
               PROVE  m = n
    OBVIOUS
  <2>1. Introduces(prog, m) = Introduces(prog, n)
    BY <1>2 DEF Introduces
  <2> QED BY <1>2, <2>1, ProgramAssumption DEF ProgOK, IsProgram
<1>4. Shape(prog, v) = D
  <2>1. {m \in LocalDecls(prog) : prog.node[m].x[1] = v} = {n}
    BY <1>1, <1>2, <1>3
  <2> QED BY <1>1, <2>1 DEF Shape
<1>5. \A s \in D : s[1] = v
  BY <1>1, DeclSlotNames
<1>6. D # {}
  <2>1. prog.node[n].x[2] \in Nat
    BY NodeFacts DEF IsNode, Kind
  <2>2. \/ D = {<<v, i>> : i \in 0 .. prog.node[n].x[2] - 1} /\ prog.node[n].x[2] > 0
        \/ D = {<<v>>}
    BY <1>1 DEF DeclSlots
  <2>3. prog.node[n].x[2] > 0 => 0 \in 0 .. prog.node[n].x[2] - 1
    BY <2>1
  <2> QED BY <2>2, <2>3
<1>7. Whole(prog, S \cup D)
  BY <1>4, <1>5 DEF Whole
<1>8. Names(S \cup D) = Names(S) \cup {v}
  BY <1>5, <1>6 DEF Names
<1> QED BY <1>1, <1>2, <1>7, <1>8

\* A call binds all of the parameters, and the body of the function knows no other names.
LEMMA CallWhole ==
  ProgOK => \A f \in DOMAIN prog.fun :
    LET params == prog.fun[f].params
        S == {<<params[i]>> : i \in DOMAIN params}
    IN  Whole(prog, S) /\ InScope(prog, Children(prog.fun[f].body), Names(S))
<1> SUFFICES ASSUME ProgOK, NEW f \in DOMAIN prog.fun
             PROVE  LET params == prog.fun[f].params
                        S == {<<params[i]>> : i \in DOMAIN params}
                    IN  Whole(prog, S) /\ InScope(prog, Children(prog.fun[f].body), Names(S))
  OBVIOUS
<1>1. PICK params : params = prog.fun[f].params
  OBVIOUS
<1> DEFINE S == {<<params[i]>> : i \in DOMAIN params}
<1>2. PICK P : P = {params[i] : i \in DOMAIN params}
  OBVIOUS
<1>3. /\ prog.fun[f].body \in Nodes_
      /\ Kind(prog.fun[f].body) = "block"
      /\ prog.node[prog.fun[f].body].scope \subseteq GlobalNames(prog) \cup P
      /\ \A n \in LocalDecls(prog) : P \cap Introduces(prog, n) = {}
  <2>1. IsProgram(prog)
    BY ProgramAssumption DEF ProgOK
  <2>2. P = {prog.fun[f].params[i] : i \in DOMAIN prog.fun[f].params}
    BY <1>1, <1>2
  <2> HIDE DEF S
  <2>3. /\ prog.fun[f].body \in DOMAIN prog.node \ prog.globals
        /\ prog.node[prog.fun[f].body].k = "block"
        /\ prog.node[prog.fun[f].body].scope \subseteq GlobalNames(prog) \cup P
        /\ \A n \in LocalDecls(prog) : P \cap Introduces(prog, n) = {}
    BY <2>1, <2>2 DEF IsProgram
  <2> QED BY <2>3 DEF Nodes_, Kind
<1>4. \A v \in P : Shape(prog, v) = {<<v>>}
  <2> SUFFICES ASSUME NEW v \in P
               PROVE  Shape(prog, v) = {<<v>>}
    OBVIOUS
  <2>1. \A n \in LocalDecls(prog) : Introduces(prog, n) = {prog.node[n].x[1]}
    BY DEF Introduces
  <2>2. \A n \in LocalDecls(prog) : prog.node[n].x[1] # v
    BY <1>3, <2>1
  <2>3. {n \in LocalDecls(prog) : prog.node[n].x[1] = v} = {}
    BY <2>2
  <2> QED BY <2>3 DEF Shape
<1>5. \A s \in S : \E i \in DOMAIN params : s = <<params[i]>> /\ s[1] = params[i] /\ s[1] \in P
  BY <1>2
<1>6. Whole(prog, S)
  <2> SUFFICES ASSUME NEW s \in S
               PROVE  s \in Shape(prog, s[1]) /\ Shape(prog, s[1]) \subseteq S
    BY DEF Whole
  <2>1. s = <<s[1]>> /\ s[1] \in P
    BY <1>5
  <2>2. Shape(prog, s[1]) = {s}
    BY <1>4, <2>1
  <2> QED BY <2>2
<1>7. Names(S) = P
  <2>1. \A s \in S : s[1] \in P
    BY <1>5
  <2>2. \A v \in P : <<v>> \in S /\ <<v>>[1] = v
    BY <1>2
  <2> HIDE DEF S
  <2> QED BY <2>1, <2>2 DEF Names
<1>8. Known(prog.fun[f].body) \subseteq P
  BY <1>3 DEF Known
<1>9. InScope(prog, Children(prog.fun[f].body), P)
  BY <1>3, <1>8, BodyScope
<1> QED BY <1>1, <1>6, <1>7, <1>9

\* What the task in hand needs is bound in the top frame.
LEMMA HandScope ==
  ProgOK /\ FramesInv /\ ScopeInv /\ Top.work # <<>> /\ Depth > 2 /\ ~Top.returned
  => /\ InScope(prog, Top.work, Names(DOMAIN Top.slot))
     /\ Needs(prog, Task) \subseteq Names(DOMAIN Top.slot)
     /\ Known(Node) \subseteq Names(DOMAIN Top.slot)
<1> SUFFICES ASSUME ProgOK, FramesInv, ScopeInv, Top.work # <<>>, Depth > 2, ~Top.returned
             PROVE  /\ InScope(prog, Top.work, Names(DOMAIN Top.slot))
                    /\ Needs(prog, Task) \subseteq Names(DOMAIN Top.slot)
                    /\ Known(Node) \subseteq Names(DOMAIN Top.slot)
  OBVIOUS
<1>1. Depth \in Nat /\ Top.work \in Seq(Tasks) /\ Task = Top.work[1]
  BY TopFacts, HeadTailProperties DEF FrameInv, FrameOK, Task
<1>2. Depth \in 2 .. Depth
  BY <1>1
<1>3. Planned(prog, Top)
  BY <1>2 DEF ScopeInv, Top
<1>4. InScope(prog, Top.work, Names(DOMAIN Top.slot))
  BY <1>3 DEF Planned
<1>5. Needs(prog, Task) \subseteq Names(DOMAIN Top.slot)
  BY <1>1, <1>4, ScopeRest
<1>6. Known(Node) \subseteq Needs(prog, Task)
  BY DEF Known, Needs, Node
<1> QED BY <1>4, <1>5, <1>6

-----------------------------------------------------------------------------
(* Steps and scopes.                                                       *)

\* What a step of the top function leaves alone in the frames below.
BelowKept ==
  /\ prog' = prog /\ Len(frames') = Depth
  /\ \A i \in 2 .. Depth - 1 : /\ DOMAIN frames'[i].slot = DOMAIN frames[i].slot
                               /\ frames'[i].work = frames[i].work
                               /\ frames'[i].returned = frames[i].returned

\* A step that ends the task in hand and binds nothing.
TaskDone ==
  /\ BelowKept
  /\ DOMAIN frames'[Depth].slot = DOMAIN Top.slot
  /\ frames'[Depth].returned \/ (~Top.returned /\ frames'[Depth].work = Tail(Top.work))

LEMMA SetTopBelow ==
  FramesInv /\ prog' = prog => \A f : SetTop(f) => BelowKept /\ frames'[Depth] = f
<1> SUFFICES ASSUME FramesInv, prog' = prog, NEW f, SetTop(f)
             PROVE  BelowKept /\ frames'[Depth] = f
  OBVIOUS
<1>1. Depth \in Nat /\ Depth >= 2 /\ DOMAIN frames = 1 .. Depth
  BY TopFacts
<1>2. PICK S : frames \in Seq(S)
  BY DEF FramesInv
<1>3. frames' = [frames EXCEPT ![Depth] = f]
  BY DEF SetTop
<1>4. frames'[Depth] = f /\ \A i \in 2 .. Depth - 1 : frames'[i] = frames[i]
  BY <1>1, <1>3
<1>5. Len(frames') = Depth
  BY <1>1, <1>2, <1>3, ExceptSeq DEF Depth
<1> QED BY <1>4, <1>5 DEF BelowKept

LEMMA SetTopDone ==
  FramesInv /\ prog' = prog
  => \A f : /\ SetTop(f) /\ f.slot = Top.slot /\ f.returned = Top.returned
            /\ f.work = Tail(Top.work)
            => TaskDone
<1> SUFFICES ASSUME FramesInv, prog' = prog, NEW f, SetTop(f), f.slot = Top.slot,
                    f.returned = Top.returned, f.work = Tail(Top.work)
             PROVE  TaskDone
  OBVIOUS
<1>1. BelowKept /\ frames'[Depth] = f
  BY SetTopBelow
<1>2. Top.returned \in BOOLEAN
  BY TopFacts DEF FrameInv, FrameOK
<1> QED BY <1>1, <1>2 DEF TaskDone

LEMMA ScopeStep ==
  /\ FramesInv /\ ScopeInv /\ BelowKept
  /\ Whole(prog, DOMAIN frames'[Depth].slot)
  /\ Depth > 2 => Planned(prog, frames'[Depth])
  => ScopeInv'
<1> SUFFICES ASSUME FramesInv, ScopeInv, BelowKept,
                    Whole(prog, DOMAIN frames'[Depth].slot),
                    Depth > 2 => Planned(prog, frames'[Depth])
             PROVE  ScopeInv'
  OBVIOUS
<1>1. Depth \in Nat /\ Depth >= 2 /\ Depth' = Depth /\ prog' = prog
  BY TopFacts DEF Depth, BelowKept
<1>2. ASSUME NEW i \in 2 .. Depth
      PROVE  /\ Whole(prog, DOMAIN frames'[i].slot)
             /\ i > 2 => Planned(prog, frames'[i])
  <2>1. CASE i = Depth
    BY <2>1
  <2>2. CASE i \in 2 .. Depth - 1
    <3>1. /\ DOMAIN frames'[i].slot = DOMAIN frames[i].slot
          /\ frames'[i].work = frames[i].work
          /\ frames'[i].returned = frames[i].returned
      BY <2>2 DEF BelowKept
    <3>2. Whole(prog, DOMAIN frames[i].slot) /\ (i > 2 => Planned(prog, frames[i]))
      BY DEF ScopeInv
    <3> QED BY <3>1, <3>2 DEF Planned
  <2> QED BY <1>1, <2>1, <2>2
<1> QED BY <1>1, <1>2 DEF ScopeInv

\* The end of a task that is not a declaration.
LEMMA DoneScope ==
  /\ ProgOK /\ FramesInv /\ ScopeInv /\ Top.work # <<>> /\ TaskDone
  /\ ~Top.returned => Kind(Node) # "decl"
  => ScopeInv'
<1> SUFFICES ASSUME ProgOK, FramesInv, ScopeInv, Top.work # <<>>, TaskDone,
                    ~Top.returned => Kind(Node) # "decl"
             PROVE  ScopeInv'
  OBVIOUS
<1>1. Depth \in Nat /\ Depth >= 2
  BY TopFacts
<1>2. BelowKept /\ DOMAIN frames'[Depth].slot = DOMAIN Top.slot
  BY DEF TaskDone
<1>3. Whole(prog, DOMAIN Top.slot)
  BY <1>1 DEF ScopeInv, Top
<1>4. ASSUME Depth > 2
      PROVE  Planned(prog, frames'[Depth])
  <2>1. CASE frames'[Depth].returned
    BY <2>1 DEF Planned
  <2>2. CASE ~Top.returned /\ frames'[Depth].work = Tail(Top.work)
    <3>1. Top.work \in Seq(Tasks) /\ Task = Top.work[1] /\ Node \in Nodes_
      BY TopFacts, InHand, HeadTailProperties DEF FrameInv, FrameOK, Task
    <3>2. Gives(prog, Top.work[1]) = {}
      BY <2>2, <3>1, Binds DEF Gives, Node
    <3>3. InScope(prog, Top.work, Names(DOMAIN Top.slot))
      BY <1>4, <2>2, HandScope
    <3>4. InScope(prog, Tail(Top.work), Names(DOMAIN Top.slot) \cup {})
      BY <3>1, <3>2, <3>3, ScopeRest
    <3>5. InScope(prog, Tail(Top.work), Names(DOMAIN Top.slot))
      BY <3>4, ScopeGrows
    <3> QED BY <1>2, <2>2, <3>5 DEF Planned
  <2> QED BY <2>1, <2>2 DEF TaskDone
<1> QED BY <1>2, <1>3, <1>4, ScopeStep

\* The task in hand is replaced by work in scope.
LEMMA BecomesScope ==
  /\ ProgOK /\ FramesInv /\ ScopeInv /\ Top.work # <<>> /\ prog' = prog
  /\ \E todo \in Seq(Tasks) :
       /\ Becomes(todo)
       /\ Depth > 2 /\ ~Top.returned => /\ InScope(prog, todo, Names(DOMAIN Top.slot))
                                        /\ Gives(prog, Task) \subseteq Given(prog, todo)
  => ScopeInv'
<1> SUFFICES ASSUME ProgOK, FramesInv, ScopeInv, Top.work # <<>>, prog' = prog,
                    NEW todo \in Seq(Tasks), Becomes(todo),
                    Depth > 2 /\ ~Top.returned
                      => /\ InScope(prog, todo, Names(DOMAIN Top.slot))
                         /\ Gives(prog, Task) \subseteq Given(prog, todo)
             PROVE  ScopeInv'
  OBVIOUS
<1>1. Depth \in Nat /\ Depth >= 2 /\ IsFrame(Top) /\ Top.work \in Seq(Tasks)
  BY TopFacts DEF FrameInv, FrameOK
<1>2. PICK w : w = todo \o Tail(Top.work)
  OBVIOUS
<1>3. PICK g : g = [Top EXCEPT !.work = w]
  OBVIOUS
<1>4. g.slot = Top.slot /\ g.returned = Top.returned /\ g.work = w
  BY <1>1, <1>3, PutWork
<1>5. BelowKept /\ frames'[Depth] = g
  BY <1>2, <1>3, SetTopBelow DEF Becomes
<1>6. Whole(prog, DOMAIN g.slot)
  BY <1>1, <1>4 DEF ScopeInv, Top
<1>7. ASSUME Depth > 2, ~Top.returned
      PROVE  InScope(prog, w, Names(DOMAIN Top.slot))
  <2>1. InScope(prog, Top.work, Names(DOMAIN Top.slot))
    BY <1>7, HandScope
  <2>2. Task = Top.work[1]
    BY <1>1, HeadTailProperties DEF Task
  <2> QED BY <1>1, <1>2, <1>7, <2>1, <2>2, ScopePut
<1>8. Depth > 2 => Planned(prog, g)
  BY <1>4, <1>7 DEF Planned
<1> QED BY <1>5, <1>6, <1>8, ScopeStep

LEMMA VisitScope == ProgOK /\ FramesInv /\ ScopeInv /\ Visit => ScopeInv'
<1> SUFFICES ASSUME ProgOK, FramesInv, ScopeInv, Visit
             PROVE  ScopeInv'
  OBVIOUS
<1>1. Top.work # <<>> /\ prog' = prog /\ Becomes(Handler(Node)) /\ Task[1] = "visit"
  BY DEF Visit, At
<1>2. PICK n \in Nodes_ : n = Node
  BY <1>1, InHand
<1>3. PICK todo \in Seq(Tasks) : todo = Handler(n)
  BY HandlerOK
<1>4. ASSUME Depth > 2, ~Top.returned
      PROVE  /\ InScope(prog, todo, Names(DOMAIN Top.slot))
             /\ Gives(prog, Task) \subseteq Given(prog, todo)
  <2>1. Known(n) \subseteq Names(DOMAIN Top.slot)
    BY <1>1, <1>2, <1>4, HandScope
  <2>2. Gives(prog, Task) = Introduces(prog, n)
    BY <1>1, <1>2 DEF Gives, Node
  <2> QED BY <1>3, <2>1, <2>2, HandlerScope
<1> QED BY <1>1, <1>2, <1>3, <1>4, BecomesScope

LEMMA BranchesScope == ProgOK /\ FramesInv /\ ScopeInv /\ Branch => ScopeInv'
<1> SUFFICES ASSUME ProgOK, FramesInv, ScopeInv, Branch
             PROVE  ScopeInv'
  OBVIOUS
<1>1. Top.work # <<>> /\ Task[1] = "branch" /\ Kind(Node) = "if" /\ prog' = prog
  BY DEF Branch, At
<1>2. PICK n \in Nodes_ : n = Node
  BY <1>1, InHand
<1>3. PICK v, w : v = Visits(<<Kids(n)[2]>>) /\ w = Visits(SubSeq(Kids(n), 3, Len(Kids(n))))
  OBVIOUS
<1>4. PICK todo \in {v, w} : Becomes(todo)
  <2>1. \E c : Becomes(IF Cut(c) # 0 THEN v ELSE w)
    BY <1>2, <1>3 DEF Branch
  <2> QED BY <2>1
<1>5. v \in Seq(Tasks) /\ w \in Seq(Tasks)
  <2>1. Known(n) \subseteq Known(n)
    OBVIOUS
  <2> QED BY <1>1, <1>2, <1>3, <2>1, BranchScope
<1>6. ASSUME Depth > 2, ~Top.returned
      PROVE  InScope(prog, v, Names(DOMAIN Top.slot)) /\ InScope(prog, w, Names(DOMAIN Top.slot))
  <2>1. Known(n) \subseteq Names(DOMAIN Top.slot)
    BY <1>1, <1>2, <1>6, HandScope
  <2> QED BY <1>1, <1>2, <1>3, <2>1, BranchScope
<1>7. Gives(prog, Task) = {}
  BY <1>1 DEF Gives
<1> QED BY <1>1, <1>4, <1>5, <1>6, <1>7, BecomesScope

LEMMA LoopsScope == ProgOK /\ FramesInv /\ ScopeInv /\ Loop => ScopeInv'
<1> SUFFICES ASSUME ProgOK, FramesInv, ScopeInv, Loop
             PROVE  ScopeInv'
  OBVIOUS
<1>1. Top.work # <<>> /\ Task[1] = "loop" /\ Kind(Node) \in {"while", "for"} /\ prog' = prog
  BY DEF Loop, At
<1>2. PICK n \in Nodes_ : n = Node
  BY <1>1, InHand
<1>3. PICK v \in Seq(Tasks) :
        v = Children(LoopBody(n)) \o Visits(LoopInc(n)) \o Visits(<<LoopCond(n)>>)
            \o <<<<"loop", n>>>>
  BY <1>1, <1>2, LoopWork
<1>4. PICK todo \in Seq(Tasks) : Becomes(todo) /\ (todo = <<>> \/ todo = v)
  <2>1. \E c : Becomes(IF Cut(c) = 0 THEN <<>> ELSE v)
    BY <1>2, <1>3 DEF Loop
  <2>2. <<>> \in Seq(Tasks)
    OBVIOUS
  <2> QED BY <2>1, <2>2
<1>5. ASSUME Depth > 2, ~Top.returned
      PROVE  InScope(prog, todo, Names(DOMAIN Top.slot))
  <2>1. Task = <<"loop", n>>
    BY <1>1, <1>2, InHand DEF Tasks, Node
  <2>2. Needs(prog, <<"loop", n>>) \subseteq Names(DOMAIN Top.slot)
    BY <1>1, <1>5, <2>1, HandScope
  <2>3. InScope(prog, v, Names(DOMAIN Top.slot))
    BY <1>1, <1>2, <1>3, <2>2, LoopScope
  <2> QED BY <1>4, <2>3, ScopeEmpty
<1>6. Gives(prog, Task) = {}
  BY <1>1 DEF Gives
<1> QED BY <1>1, <1>4, <1>5, <1>6, BecomesScope

-----------------------------------------------------------------------------
(* Callers.                                                                *)

\* The slots of the globals are bound in the first frame and in no other.
OwnSlots(slot, p) == \A s \in DOMAIN slot : s[1] \notin GlobalNames(p)
Apart == /\ \A s \in DOMAIN frames[1].slot : s[1] \in GlobalNames(prog)
         /\ \A i \in 2 .. Depth : OwnSlots(frames[i].slot, prog)

\* What CallersUntouched says of a step.
Untouched ==
  \A i \in 2 .. Depth - 1 :
    /\ frames'[i].slot = frames[i].slot
    /\ \A n \in DOMAIN frames[i].expr \ {frames[i].pc} :
         n \in DOMAIN frames'[i].expr /\ frames'[i].expr[n] = frames[i].expr[n]

\* A step that binds nothing new anywhere.
LEMMA NothingNew ==
  /\ FramesInv /\ Apart /\ prog' = prog /\ Len(frames') = Depth
  /\ \A i \in 1 .. Depth : DOMAIN frames'[i].slot = DOMAIN frames[i].slot
  => Apart'
<1> SUFFICES ASSUME FramesInv, Apart, prog' = prog, Len(frames') = Depth,
                    \A i \in 1 .. Depth : DOMAIN frames'[i].slot = DOMAIN frames[i].slot
             PROVE  Apart'
  OBVIOUS
<1>1. Depth \in Nat /\ Depth >= 2 /\ Depth' = Depth
  BY TopFacts DEF Depth
<1>2. \A i \in 2 .. Depth : i \in 1 .. Depth /\ OwnSlots(frames[i].slot, prog)
  BY <1>1 DEF Apart
<1>3. \A i \in 2 .. Depth : OwnSlots(frames'[i].slot, prog)
  BY <1>2 DEF OwnSlots
<1>4. \A s \in DOMAIN frames'[1].slot : s[1] \in GlobalNames(prog)
  BY <1>1 DEF Apart
<1> QED BY <1>1, <1>3, <1>4 DEF Apart

\* A step of the top frame.
LEMMA OnlyTop ==
  /\ FramesInv /\ Apart /\ prog' = prog
  /\ \E f : OwnSlots(f.slot, prog) /\ SetTop(f)
  => Apart' /\ Untouched
<1> SUFFICES ASSUME FramesInv, Apart, prog' = prog, NEW f, OwnSlots(f.slot, prog), SetTop(f)
             PROVE  Apart' /\ Untouched
  OBVIOUS
<1>1. Depth \in Nat /\ Depth >= 2 /\ DOMAIN frames = 1 .. Depth
  BY TopFacts
<1>2. PICK S : frames \in Seq(S)
  BY DEF FramesInv
<1>3. frames' = [frames EXCEPT ![Depth] = f]
  BY DEF SetTop
<1>4. /\ frames'[Depth] = f
      /\ \A i \in 1 .. Depth - 1 : i \in 1 .. Depth /\ frames'[i] = frames[i]
  BY <1>1, <1>3
<1>5. Depth' = Depth
  BY <1>1, <1>2, <1>3, ExceptSeq DEF Depth
<1>6. \A i \in 2 .. Depth : OwnSlots(frames'[i].slot, prog)
  <2> SUFFICES ASSUME NEW i \in 2 .. Depth
               PROVE  OwnSlots(frames'[i].slot, prog)
    OBVIOUS
  <2>1. CASE i = Depth
    BY <1>4, <2>1
  <2>2. CASE i # Depth
    <3>1. i \in 1 .. Depth - 1
      BY <1>1, <2>2
    <3> QED BY <1>4, <3>1 DEF Apart
  <2> QED BY <2>1, <2>2
<1>7. frames'[1] = frames[1]
  BY <1>1, <1>4
<1>8. Apart'
  BY <1>5, <1>6, <1>7 DEF Apart
<1>9. Untouched
  <2>1. \A i \in 2 .. Depth - 1 : frames'[i] = frames[i]
    BY <1>1, <1>4
  <2> QED BY <2>1 DEF Untouched
<1> QED BY <1>8, <1>9

\* The actions that leave the variables of the top frame as they are.
LEMMA KeepsVariables ==
  /\ FramesInv
  /\ \/ Visit \/ SkipVisit \/ Branch \/ Loop \/ Operate
     \/ CastValue \/ Uniop \/ ParenValue \/ MSizeof
     \/ CallInput \/ CallOutput \/ CallMalloc \/ CallFree
  => /\ prog' = prog
     /\ \E f : /\ f.slot = Top.slot /\ f.returned = Top.returned /\ SetTop(f)
               /\ Visit \/ Branch \/ Loop \/ f.work = Tail(Top.work)
<1> SUFFICES ASSUME FramesInv,
                    \/ Visit \/ SkipVisit \/ Branch \/ Loop \/ Operate
                    \/ CastValue \/ Uniop \/ ParenValue \/ MSizeof
                    \/ CallInput \/ CallOutput \/ CallMalloc \/ CallFree
             PROVE  /\ prog' = prog
                    /\ \E f : /\ f.slot = Top.slot /\ f.returned = Top.returned /\ SetTop(f)
                              /\ Visit \/ Branch \/ Loop \/ f.work = Tail(Top.work)
  OBVIOUS
<1> DEFINE Like(f, w) == f.slot = Top.slot /\ f.returned = Top.returned /\ f.work = w
<1>1. IsFrame(Top)
  BY TopFacts DEF FrameInv
<1>2. \A w : Like([Top EXCEPT !.work = w], w)
  BY <1>1 DEF IsFrame
<1>3. \A e, w : Like([[Top EXCEPT !.expr = e] EXCEPT !.work = w], w)
  BY <1>1 DEF IsFrame
<1>4. \A n, w : Like([[Top EXCEPT !.pc = n] EXCEPT !.work = w], w)
  BY <1>1 DEF IsFrame
<1>5. \A n, e, w : Like([[[Top EXCEPT !.pc = n] EXCEPT !.expr = e] EXCEPT !.work = w], w)
  BY <1>1 DEF IsFrame
<1>6. CASE Visit \/ Branch \/ Loop
  <2>1. prog' = prog /\ \E w : SetTop([Top EXCEPT !.work = w])
    BY <1>6 DEF Visit, Branch, Loop, Becomes
  <2> QED BY <1>2, <1>6, <2>1
<1>7. CASE SkipVisit \/ Operate \/ CastValue \/ Uniop \/ ParenValue \/ MSizeof
  <2>1. prog' = prog /\ (Drop \/ \E v : Yield(v))
    BY <1>7 DEF SkipVisit, Operate, CastValue, Uniop, ParenValue, MSizeof
  <2>2. PICK w : w = Tail(Top.work)
    OBVIOUS
  <2>3. \/ SetTop([Top EXCEPT !.work = w])
        \/ \E e : SetTop([[Top EXCEPT !.expr = e] EXCEPT !.work = w])
    BY <2>1, <2>2 DEF Yield, Drop, Done
  <2>4. PICK f : SetTop(f) /\ Like(f, w)
    <3>1. CASE SetTop([Top EXCEPT !.work = w])
      <4>1. PICK f : f = [Top EXCEPT !.work = w]
        OBVIOUS
      <4>2. Like(f, w)
        BY <1>2, <4>1
      <4> QED BY <3>1, <4>1, <4>2
    <3>2. ASSUME NEW e, SetTop([[Top EXCEPT !.expr = e] EXCEPT !.work = w])
          PROVE  \E f : SetTop(f) /\ Like(f, w)
      <4>1. PICK f : f = [[Top EXCEPT !.expr = e] EXCEPT !.work = w]
        OBVIOUS
      <4>2. Like(f, w)
        BY <1>3, <4>1
      <4> QED BY <3>2, <4>1, <4>2
    <3> QED BY <2>3, <3>1, <3>2
  <2> QED BY <2>1, <2>2, <2>4
<1>8. CASE CallInput \/ CallMalloc
  <2>1. prog' = prog /\ \E v : Answer(v)
    BY <1>8 DEF CallInput, CallMalloc
  <2>2. PICK w : w = Tail(Top.work)
    OBVIOUS
  <2>3. \E n, e : SetTop([[[Top EXCEPT !.pc = n] EXCEPT !.expr = e] EXCEPT !.work = w])
    BY <2>1, <2>2 DEF Answer, Done, Called
  <2>4. PICK f : SetTop(f) /\ Like(f, w)
    <3>1. PICK n, e : SetTop([[[Top EXCEPT !.pc = n] EXCEPT !.expr = e] EXCEPT !.work = w])
      BY <2>3
    <3>2. PICK f : f = [[[Top EXCEPT !.pc = n] EXCEPT !.expr = e] EXCEPT !.work = w]
      OBVIOUS
    <3>3. Like(f, w)
      BY <1>5, <3>2
    <3> QED BY <3>1, <3>2, <3>3
  <2> QED BY <2>1, <2>2, <2>4
<1>9. CASE CallOutput \/ CallFree
  <2>1. prog' = prog /\ SetTop(Done(Called))
    BY <1>9 DEF CallOutput, CallFree
  <2>2. PICK w : w = Tail(Top.work)
    OBVIOUS
  <2>3. \E n : SetTop([[Top EXCEPT !.pc = n] EXCEPT !.work = w])
    BY <2>1, <2>2 DEF Done, Called
  <2>4. PICK f : SetTop(f) /\ Like(f, w)
    <3>1. PICK n : SetTop([[Top EXCEPT !.pc = n] EXCEPT !.work = w])
      BY <2>3
    <3>2. PICK f : f = [[Top EXCEPT !.pc = n] EXCEPT !.work = w]
      OBVIOUS
    <3>3. Like(f, w)
      BY <1>4, <3>2
    <3> QED BY <3>1, <3>2, <3>3
  <2> QED BY <2>1, <2>2, <2>4
<1> QED BY <1>6, <1>7, <1>8, <1>9

LEMMA DeclareApart == ProgOK /\ FramesInv /\ Apart /\ Declare => Apart' /\ Untouched
<1> SUFFICES ASSUME ProgOK, FramesInv, Apart, Declare
             PROVE  Apart' /\ Untouched
  OBVIOUS
<1>1. Top.work # <<>> /\ Kind(Node) = "decl" /\ prog' = prog
  BY DEF Declare, At
<1>2. Node \in Nodes_ /\ IsFrame(Top) /\ Depth \in Nat /\ Depth >= 2
  BY <1>1, InHand, TopFacts DEF FrameInv
<1>3. prog.node[Node].x[1] \notin GlobalNames(prog)
  BY <1>1, <1>2, ProgramAssumption DEF ProgOK, IsProgram, Nodes_, Kind
<1>4. OwnSlots(DeclSlots(prog, Node), prog)
  BY <1>3, DeclSlotNames DEF OwnSlots
<1>5. OwnSlots(Top.slot, prog)
  BY <1>2 DEF Apart, Top
<1>6. PICK slot : slot = Merge(Top.slot, DeclSlots(prog, Node))
  OBVIOUS
<1>7. OwnSlots(slot, prog)
  BY <1>4, <1>5, <1>6 DEF OwnSlots, Merge
<1>8. SetTop([[Top EXCEPT !.slot = slot] EXCEPT !.work = Tail(Top.work)])
  BY <1>6 DEF Declare, Done
<1>9. [[Top EXCEPT !.slot = slot] EXCEPT !.work = Tail(Top.work)].slot = slot
  BY <1>2 DEF IsFrame
<1> QED BY <1>1, <1>7, <1>8, <1>9, OnlyTop

\* A variable in scope is found at the top or among the globals: never in a caller.
LEMMA PlacesInScope ==
  FramesInv /\ Apart
  => \A l : (\A s \in Slots(l) :
               Holders(s) # {} => s \in DOMAIN Top.slot \cup DOMAIN frames[1].slot)
            => \A p \in Places(l) : /\ p[1] = 1 \/ p[1] = Depth
                                    /\ p[1] \in DOMAIN frames
                                    /\ p[2] \in DOMAIN frames[p[1]].slot
<1> SUFFICES ASSUME FramesInv, Apart, NEW l,
                    \A s \in Slots(l) :
                      Holders(s) # {} => s \in DOMAIN Top.slot \cup DOMAIN frames[1].slot,
                    NEW p \in Places(l)
             PROVE  /\ p[1] = 1 \/ p[1] = Depth
                    /\ p[1] \in DOMAIN frames
                    /\ p[2] \in DOMAIN frames[p[1]].slot
  OBVIOUS
<1>1. Depth \in Nat /\ Depth >= 2 /\ DOMAIN frames = 1 .. Depth /\ Depth \in DOMAIN frames
  BY TopFacts
<1>2. PICK i \in DOMAIN frames, s \in Slots(l) : i = p[1] /\ s = p[2] /\ i \in Innermost(s)
  BY DEF Places
<1>3. s \in DOMAIN frames[i].slot /\ i \in Holders(s) /\ \A j \in Holders(s) : j <= i
  BY <1>2 DEF Innermost, Holders
<1>4. CASE s \in DOMAIN Top.slot
  <2>1. Depth \in Holders(s)
    BY <1>1, <1>4 DEF Holders, Top
  <2> QED BY <1>1, <1>2, <1>3, <2>1
<1>5. CASE s \in DOMAIN frames[1].slot
  <2>1. s[1] \in GlobalNames(prog)
    BY <1>5 DEF Apart
  <2>2. ~(i \in 2 .. Depth)
    BY <1>3, <2>1 DEF Apart, OwnSlots
  <2> QED BY <1>1, <1>2, <1>3, <2>2
<1> QED BY <1>2, <1>3, <1>4, <1>5

LEMMA AssignApart ==
  ProgOK /\ FramesInv /\ Apart /\ AssignsInScope /\ Assign
  => Apart' /\ Untouched /\ TaskDone
<1> SUFFICES ASSUME ProgOK, FramesInv, Apart, AssignsInScope, Assign
             PROVE  Apart' /\ Untouched /\ TaskDone
  OBVIOUS
<1>1. prog' = prog /\ At("finish", {"asg"})
  BY DEF Assign
<1>2. /\ Depth \in Nat /\ Depth >= 2 /\ DOMAIN frames = 1 .. Depth /\ Depth \in DOMAIN frames
      /\ IsFrame(Top) /\ OwnSlots(Top.slot, prog)
  BY TopFacts DEF FrameInv, Apart, Top
<1>3. PICK l : l = Kids(Node)[1]
  OBVIOUS
<1>4. PICK v : \/ \E p \in Places(l) :
                    frames' = [[frames EXCEPT ![p[1]] =
                                  [frames[p[1]] EXCEPT !.slot = Bind(frames[p[1]].slot, p[2], v)]]
                               EXCEPT ![Depth] =
                                 Done([frames EXCEPT ![p[1]] =
                                  [frames[p[1]] EXCEPT !.slot = Bind(frames[p[1]].slot, p[2], v)]][Depth])]
               \/ Drop
               \/ SetTop(Done([Top EXCEPT !.expr = Bind(Top.expr, l, v)]))
  BY <1>3 DEF Assign
<1>5. ASSUME NEW p \in Places(l),
             frames' = [[frames EXCEPT ![p[1]] =
                           [frames[p[1]] EXCEPT !.slot = Bind(frames[p[1]].slot, p[2], v)]]
                        EXCEPT ![Depth] =
                          Done([frames EXCEPT ![p[1]] =
                           [frames[p[1]] EXCEPT !.slot = Bind(frames[p[1]].slot, p[2], v)]][Depth])]
      PROVE  Apart' /\ Untouched /\ TaskDone
  <2>1. PICK i \in DOMAIN frames : /\ i = p[1] /\ (i = 1 \/ i = Depth)
                                   /\ p[2] \in DOMAIN frames[i].slot
    BY <1>1, <1>3, PlacesInScope DEF AssignsInScope
  <2>2. PICK s : s = Bind(frames[i].slot, p[2], v)
    OBVIOUS
  <2>3. DOMAIN s = DOMAIN frames[i].slot
    BY <2>1, <2>2 DEF Bind
  <2>4. PICK g : g = [frames[i] EXCEPT !.slot = s]
    OBVIOUS
  <2>5. IsFrame(frames[i])
    BY DEF FramesInv, FrameInv
  <2>6. IsFrame(g) /\ g.slot = s /\ g.returned = frames[i].returned
    BY <2>4, <2>5, PutSlot DEF IsFrame
  <2>7. PICK one : one = [frames EXCEPT ![i] = g]
    OBVIOUS
  <2>8. one[Depth] = IF i = Depth THEN g ELSE Top
    BY <1>2, <2>7 DEF Top
  <2>9. IsFrame(one[Depth]) /\ one[Depth].returned = Top.returned
    BY <1>2, <2>6, <2>8 DEF Top
  <2>10. DOMAIN one[Depth].slot = DOMAIN Top.slot
    BY <2>3, <2>6, <2>8 DEF Top
  <2>11. PICK h : h = Done(one[Depth])
    OBVIOUS
  <2>12. h.slot = one[Depth].slot /\ h.returned = Top.returned /\ h.work = Tail(Top.work)
    BY <2>9, <2>11 DEF Done, IsFrame
  <2>13. frames' = [one EXCEPT ![Depth] = h]
    BY <1>5, <2>1, <2>2, <2>4, <2>7, <2>11
  <2>14. \A j \in 1 .. Depth : frames'[j] = IF j = Depth THEN h ELSE IF j = i THEN g ELSE frames[j]
    BY <1>2, <2>7, <2>13
  <2>15. Len(frames') = Depth
    <3>1. PICK S : frames \in Seq(S)
      BY DEF FramesInv
    <3>2. frames \in Seq(S \cup {g, h}) /\ Len(frames) = Depth
      BY <3>1 DEF Depth
    <3>3. one \in Seq(S \cup {g, h}) /\ Len(one) = Depth
      BY <1>2, <2>7, <3>2, ExceptSeq
    <3> QED BY <1>2, <2>13, <3>3, ExceptSeq
  <2>16. \A j \in 1 .. Depth : DOMAIN frames'[j].slot = DOMAIN frames[j].slot
    BY <1>2, <2>3, <2>6, <2>10, <2>12, <2>14 DEF Top
  <2>17. Apart'
    BY <1>1, <2>15, <2>16, NothingNew
  <2>18. \A j \in 2 .. Depth - 1 : frames'[j] = frames[j]
    BY <1>2, <2>1, <2>14
  <2>19. BelowKept
    BY <1>1, <2>15, <2>18 DEF BelowKept
  <2>20. frames'[Depth] = h /\ DOMAIN h.slot = DOMAIN Top.slot /\ Top.returned \in BOOLEAN
    BY <1>2, <2>10, <2>12, <2>14, TopFacts DEF FrameInv, FrameOK
  <2>21. TaskDone
    BY <2>12, <2>19, <2>20 DEF TaskDone
  <2> QED BY <2>17, <2>18, <2>21 DEF Untouched
<1>6. CASE Drop
  <2>1. PICK f : f = [Top EXCEPT !.work = Tail(Top.work)] /\ SetTop(f)
    BY <1>6 DEF Drop, Done
  <2>2. f.slot = Top.slot /\ f.returned = Top.returned /\ f.work = Tail(Top.work)
    BY <1>2, <2>1 DEF IsFrame
  <2> QED BY <1>1, <1>2, <2>1, <2>2, OnlyTop, SetTopDone
<1>7. CASE SetTop(Done([Top EXCEPT !.expr = Bind(Top.expr, l, v)]))
  <2>1. PICK f : f = Done([Top EXCEPT !.expr = Bind(Top.expr, l, v)]) /\ SetTop(f)
    BY <1>7
  <2>2. f.slot = Top.slot /\ f.returned = Top.returned /\ f.work = Tail(Top.work)
    BY <1>2, <2>1 DEF IsFrame, Done
  <2> QED BY <1>1, <1>2, <2>1, <2>2, OnlyTop, SetTopDone
<1> QED BY <1>4, <1>5, <1>6, <1>7

LEMMA CallApart == ProgOK /\ FramesInv /\ Apart /\ CallFunction => Apart' /\ Untouched
<1> SUFFICES ASSUME ProgOK, FramesInv, Apart, CallFunction
             PROVE  Apart' /\ Untouched
  OBVIOUS
<1>1. prog' = prog /\ Data(Node) \in DOMAIN prog.fun
  BY DEF CallFunction, AtCall, At
<1>2. /\ Depth \in Nat /\ Depth >= 2 /\ DOMAIN frames = 1 .. Depth /\ Depth \in DOMAIN frames
      /\ IsFrame(Top) /\ OwnSlots(Top.slot, prog)
  BY TopFacts DEF FrameInv, Apart, Top
<1>3. PICK params : params = prog.fun[Data(Node)].params
  OBVIOUS
<1>4. params \in Seq(STRING \ GlobalNames(prog))
  BY <1>1, <1>3, ProgramAssumption DEF ProgOK, IsProgram
<1>5. PICK work, arg : frames' = Append([frames EXCEPT ![Depth] = Done(Called)],
                                   NewFrame([s \in {<<params[i]>> : i \in DOMAIN params} |-> arg[s]],
                                            work, Node))
  <2> DEFINE f == prog.fun[Data(Node)]
             Arg(i) == CHOOSE v \in ExactVal(Kids(Node)[i]) : TRUE
             Param(s) == CHOOSE i \in DOMAIN f.params : <<f.params[i]>> = s
             S == {<<f.params[i]>> : i \in DOMAIN f.params}
  <2>1. frames' = Append([frames EXCEPT ![Depth] = Done(Called)],
                         NewFrame([s \in S |-> Arg(Param(s))], Children(f.body), Node))
    BY DEF CallFunction
  <2> HIDE DEF S, Arg, Param
  <2>2. PICK arg : arg = [s \in S |-> Arg(Param(s))]
    OBVIOUS
  <2>3. [s \in S |-> Arg(Param(s))] = [s \in S |-> arg[s]]
    BY <2>2
  <2>4. S = {<<params[i]>> : i \in DOMAIN params}
    BY <1>3 DEF S
  <2> QED BY <2>1, <2>3, <2>4
<1>6. PICK slot : slot = [s \in {<<params[i]>> : i \in DOMAIN params} |-> arg[s]]
  OBVIOUS
<1>7. OwnSlots(slot, prog)
  <2>1. \A i \in DOMAIN params : params[i] \notin GlobalNames(prog)
    BY <1>4
  <2> QED BY <1>6, <2>1 DEF OwnSlots
<1>8. PICK g : g = NewFrame(slot, work, Node)
  OBVIOUS
<1>9. g.slot = slot
  BY <1>8 DEF NewFrame
<1>10. PICK h : h = Done(Called)
  OBVIOUS
<1>11. h.slot = Top.slot
  BY <1>2, <1>10 DEF Done, Called, IsFrame
<1>12. frames' = Append([frames EXCEPT ![Depth] = h], g)
  BY <1>5, <1>6, <1>8, <1>10
<1>13. PICK S : frames \in Seq(S)
  BY DEF FramesInv
<1> DEFINE base == [frames EXCEPT ![Depth] = h]
<1>14. base \in Seq(S \cup {g, h}) /\ Len(base) = Depth
  <2>1. frames \in Seq(S \cup {g, h}) /\ Len(frames) = Depth
    BY <1>13 DEF Depth
  <2> QED BY <1>2, <2>1, ExceptSeq
<1>15. \A i \in 1 .. Depth : base[i] = IF i = Depth THEN h ELSE frames[i]
  BY <1>2
<1> HIDE DEF base
<1>16. /\ Len(frames') = Depth + 1 /\ frames'[Depth + 1] = g
       /\ \A i \in 1 .. Depth : frames'[i] = base[i]
  BY <1>2, <1>12, <1>14 DEF base
<1>17. Depth' = Depth + 1
  BY <1>16 DEF Depth
<1>18. \A i \in 2 .. Depth + 1 : OwnSlots(frames'[i].slot, prog)
  <2> SUFFICES ASSUME NEW i \in 2 .. Depth + 1
               PROVE  OwnSlots(frames'[i].slot, prog)
    OBVIOUS
  <2>1. CASE i = Depth + 1
    BY <1>7, <1>9, <1>16, <2>1
  <2>2. CASE i = Depth
    BY <1>2, <1>11, <1>15, <1>16, <2>2
  <2>3. CASE i \in 2 .. Depth /\ i # Depth
    <3>1. i \in 1 .. Depth
      BY <1>2, <2>3
    <3>2. frames'[i] = frames[i]
      BY <1>15, <1>16, <2>3, <3>1
    <3> QED BY <2>3, <3>2 DEF Apart
  <2> QED BY <1>2, <2>1, <2>2, <2>3
<1>19. frames'[1] = frames[1]
  BY <1>2, <1>15, <1>16
<1>20. \A i \in 2 .. Depth - 1 : frames'[i] = frames[i]
  BY <1>2, <1>15, <1>16
<1> QED BY <1>1, <1>17, <1>18, <1>19, <1>20 DEF Apart, Untouched

LEMMA ReturnApart == ProgOK /\ FramesInv /\ Apart /\ Return
  => Apart' /\ Untouched /\ TaskDone
<1> SUFFICES ASSUME ProgOK, FramesInv, Apart, Return
             PROVE  Apart' /\ Untouched /\ TaskDone
  OBVIOUS
<1>1. PICK b : b = Depth - 1
  OBVIOUS
<1>2. PICK below : below = frames[b]
  OBVIOUS
<1>3. PICK v : IF below.pc = 0 THEN Drop
               ELSE frames' = [frames EXCEPT
                      ![b] = [below EXCEPT !.expr = Bind(below.expr, below.pc, v)],
                      ![Depth] = [Done(Top) EXCEPT !.returned = TRUE]]
  BY <1>1, <1>2 DEF Return
<1>4. /\ Depth \in Nat /\ Depth >= 2 /\ DOMAIN frames = 1 .. Depth /\ Depth \in DOMAIN frames
      /\ IsFrame(Top) /\ OwnSlots(Top.slot, prog)
      /\ b \in DOMAIN frames /\ b # Depth /\ IsFrame(below)
  BY <1>1, <1>2, TopFacts DEF FramesInv, FrameInv, Apart, Top
<1>5. prog' = prog
  BY DEF Return
<1>6. CASE below.pc = 0
  <2>1. PICK f : f = [Top EXCEPT !.work = Tail(Top.work)] /\ SetTop(f)
    BY <1>3, <1>6 DEF Drop, Done
  <2>2. f.slot = Top.slot /\ f.returned = Top.returned /\ f.work = Tail(Top.work)
    BY <1>4, <2>1 DEF IsFrame
  <2> QED BY <1>4, <1>5, <2>1, <2>2, OnlyTop, SetTopDone
<1>7. CASE below.pc # 0
  <2>1. PICK g : g = [below EXCEPT !.expr = Bind(below.expr, below.pc, v)]
    OBVIOUS
  <2>2. /\ g.slot = below.slot /\ g.expr = Bind(below.expr, below.pc, v)
        /\ g.work = below.work /\ g.returned = below.returned
    BY <1>4, <2>1 DEF IsFrame
  <2>3. PICK h : h = [Done(Top) EXCEPT !.returned = TRUE]
    OBVIOUS
  <2>4. h.slot = Top.slot /\ h.returned
    BY <1>4, <2>3 DEF Done, IsFrame
  <2>5. frames' = [[frames EXCEPT ![b] = g] EXCEPT ![Depth] = h]
    BY <1>3, <1>7, <2>1, <2>3
  <2>6. \A i \in 1 .. Depth : frames'[i] = IF i = Depth THEN h ELSE IF i = b THEN g ELSE frames[i]
    BY <1>4, <2>5
  <2>7. Len(frames') = Depth
    <3>1. PICK S : frames \in Seq(S)
      BY DEF FramesInv
    <3>2. PICK one : one = [frames EXCEPT ![b] = g]
      OBVIOUS
    <3>3. frames \in Seq(S \cup {g, h}) /\ Len(frames) = Depth
      BY <3>1 DEF Depth
    <3>4. one \in Seq(S \cup {g, h}) /\ Len(one) = Depth
      BY <1>4, <3>2, <3>3, ExceptSeq
    <3> QED BY <1>4, <2>5, <3>2, <3>4, ExceptSeq
  <2>8. \A i \in 1 .. Depth : frames'[i].slot = frames[i].slot
    BY <1>2, <2>2, <2>4, <2>6 DEF Top
  <2>9. Apart'
    BY <1>5, <2>7, <2>8, NothingNew
  <2>10. ASSUME NEW i \in 2 .. Depth - 1
         PROVE  /\ frames'[i].slot = frames[i].slot
                /\ \A n \in DOMAIN frames[i].expr \ {frames[i].pc} :
                     n \in DOMAIN frames'[i].expr /\ frames'[i].expr[n] = frames[i].expr[n]
    <3>1. i \in 1 .. Depth /\ i # Depth
      BY <1>4
    <3>2. CASE i = b
      BY <1>2, <2>2, <2>6, <2>8, <3>1, <3>2 DEF Bind
    <3>3. CASE i # b
      BY <2>6, <2>8, <3>1, <3>3
    <3> QED BY <3>2, <3>3
  <2>11. BelowKept
    <3>1. ASSUME NEW i \in 2 .. Depth - 1
          PROVE  frames'[i].work = frames[i].work /\ frames'[i].returned = frames[i].returned
      <4>1. i \in 1 .. Depth /\ i # Depth
        BY <1>4
      <4> QED BY <1>2, <2>2, <2>6, <4>1
    <3>2. \A i \in 2 .. Depth - 1 : i \in 1 .. Depth
      BY <1>4
    <3> QED BY <1>5, <2>7, <2>8, <3>1, <3>2 DEF BelowKept
  <2>12. TaskDone
    BY <1>4, <2>4, <2>6, <2>11 DEF TaskDone
  <2> QED BY <2>9, <2>10, <2>12 DEF Untouched
<1> QED BY <1>6, <1>7

LEMMA LeaveApart == FramesInv /\ Apart /\ LeaveFunction => Apart' /\ Untouched
<1> SUFFICES ASSUME FramesInv, Apart, LeaveFunction
             PROVE  Apart' /\ Untouched
  OBVIOUS
<1>1. prog' = prog /\ Depth > 2 /\ frames' = SubSeq(frames, 1, Depth - 1)
  BY DEF LeaveFunction
<1>2. Depth \in Nat
  BY TopFacts
<1>3. PICK S : frames \in Seq(S)
  BY DEF FramesInv
<1>4. Depth' = Depth - 1 /\ \A i \in 1 .. Depth - 1 : frames'[i] = frames[i]
  BY <1>1, <1>2, <1>3 DEF Depth
<1>5. frames'[1] = frames[1] /\ \A i \in 2 .. Depth - 1 : i \in 2 .. Depth /\ frames'[i] = frames[i]
  BY <1>1, <1>2, <1>4
<1> QED BY <1>1, <1>4, <1>5 DEF Apart, Untouched

LEMMA StutterApart == Apart /\ UNCHANGED <<prog, frames>> => Apart'
  BY DEF Apart, Depth

LEMMA InitApart == Init => Apart
<1> SUFFICES ASSUME Init
             PROVE  Apart
  OBVIOUS
<1> DEFINE decls == {DeclSlots(prog, n) : n \in prog.globals}
           slots == UNION {DOMAIN d : d \in decls}
           Global(s) == CHOOSE d \in decls : s \in DOMAIN d
           slot == [s \in slots |-> Global(s)[s]]
<1>1. \A s \in slots : s[1] \in GlobalNames(prog)
  BY DeclSlotNames DEF GlobalNames
<1>2. DOMAIN slot = slots
  OBVIOUS
<1>3. frames = <<NewFrame(slot, <<>>, 0),
                 NewFrame(NoValues, Children(prog.fun["main"].body), 0)>>
  BY DEF Init
<1> HIDE DEF slot, slots
<1>4. Depth = 2 /\ frames[1].slot = slot /\ frames[2].slot = NoValues
  BY <1>3 DEF Depth, NewFrame
<1>5. OwnSlots(NoValues, prog)
  BY DEF OwnSlots, NoValues
<1>6. \A i \in 2 .. Depth : i = 2
  BY <1>4
<1> QED BY <1>1, <1>2, <1>4, <1>5, <1>6 DEF Apart

-----------------------------------------------------------------------------
(* Every step keeps the scopes.                                            *)

LEMMA DeclareScope == ProgOK /\ FramesInv /\ ScopeInv /\ Declare => ScopeInv'
<1> SUFFICES ASSUME ProgOK, FramesInv, ScopeInv, Declare
             PROVE  ScopeInv'
  OBVIOUS
<1>1. Top.work # <<>> /\ Task[1] = "finish" /\ Kind(Node) = "decl" /\ prog' = prog
  BY DEF Declare, At
<1>2. PICK n \in Nodes_ : n = Node
  BY <1>1, InHand
<1>3. IsFrame(Top) /\ Depth \in Nat /\ Depth >= 2 /\ Top.work \in Seq(Tasks) /\ Task = Top.work[1]
  BY <1>1, TopFacts, HeadTailProperties DEF FrameInv, FrameOK, Task
<1>4. PICK w : w = Tail(Top.work)
  OBVIOUS
<1>5. PICK slot : slot = Merge(Top.slot, DeclSlots(prog, n))
  OBVIOUS
<1>6. DOMAIN slot = DOMAIN Top.slot \cup DOMAIN DeclSlots(prog, n)
  BY <1>5 DEF Merge
<1>7. PICK f : f = [[Top EXCEPT !.slot = slot] EXCEPT !.work = w] /\ SetTop(f)
  BY <1>2, <1>4, <1>5 DEF Declare, Done
<1>8. f.slot = slot /\ f.work = w /\ f.returned = Top.returned
  BY <1>3, <1>7 DEF IsFrame
<1>9. BelowKept /\ frames'[Depth] = f
  BY <1>1, <1>7, SetTopBelow
<1>10. Whole(prog, DOMAIN Top.slot)
  BY <1>3 DEF ScopeInv, Top
<1>11. /\ Whole(prog, DOMAIN slot)
       /\ Names(DOMAIN slot) = Names(DOMAIN Top.slot) \cup Introduces(prog, n)
  BY <1>1, <1>2, <1>6, <1>10, DeclareWhole
<1>12. ASSUME Depth > 2, ~Top.returned
       PROVE  InScope(prog, w, Names(DOMAIN slot))
  <2>1. InScope(prog, Top.work, Names(DOMAIN Top.slot))
    BY <1>1, <1>12, HandScope
  <2>2. Gives(prog, Top.work[1]) = Introduces(prog, n)
    BY <1>1, <1>2, <1>3 DEF Gives, Node
  <2> QED BY <1>1, <1>3, <1>4, <1>11, <2>1, <2>2, ScopeRest
<1>13. Depth > 2 => Planned(prog, f)
  BY <1>8, <1>12 DEF Planned
<1> QED BY <1>8, <1>9, <1>11, <1>13, ScopeStep

LEMMA CallScope == ProgOK /\ FramesInv /\ ScopeInv /\ CallFunction => ScopeInv'
<1> SUFFICES ASSUME ProgOK, FramesInv, ScopeInv, CallFunction
             PROVE  ScopeInv'
  OBVIOUS
<1>1. /\ prog' = prog /\ Data(Node) \in DOMAIN prog.fun
      /\ Top.work # <<>> /\ Kind(Node) = "call" /\ Task[1] = "finish"
  BY DEF CallFunction, AtCall, At
<1>2. /\ Depth \in Nat /\ Depth >= 2 /\ DOMAIN frames = 1 .. Depth /\ Depth \in DOMAIN frames
      /\ IsFrame(Top) /\ Top.work \in Seq(Tasks) /\ Task = Top.work[1]
  BY <1>1, TopFacts, HeadTailProperties DEF FrameInv, FrameOK, Task
<1>3. PICK fun \in DOMAIN prog.fun : fun = Data(Node)
  BY <1>1
<1>4. PICK S : S = {<<prog.fun[fun].params[i]>> : i \in DOMAIN prog.fun[fun].params}
  OBVIOUS
<1>5. PICK work : work = Children(prog.fun[fun].body)
  OBVIOUS
<1>6. Whole(prog, S) /\ InScope(prog, work, Names(S))
  BY <1>4, <1>5, CallWhole
<1>7. PICK slot : /\ DOMAIN slot = S
                  /\ frames' = Append([frames EXCEPT ![Depth] = Done(Called)],
                                      NewFrame(slot, work, Node))
  <2> DEFINE f == prog.fun[Data(Node)]
             Arg(i) == CHOOSE v \in ExactVal(Kids(Node)[i]) : TRUE
             Param(s) == CHOOSE i \in DOMAIN f.params : <<f.params[i]>> = s
             T == {<<f.params[i]>> : i \in DOMAIN f.params}
  <2>1. frames' = Append([frames EXCEPT ![Depth] = Done(Called)],
                         NewFrame([s \in T |-> Arg(Param(s))], Children(f.body), Node))
    BY DEF CallFunction
  <2>2. T = S
    BY <1>3, <1>4
  <2> HIDE DEF T, Arg, Param
  <2>3. PICK slot : slot = [s \in T |-> Arg(Param(s))]
    OBVIOUS
  <2>4. DOMAIN slot = T
    BY <2>3
  <2> QED BY <1>3, <1>5, <2>1, <2>2, <2>3, <2>4
<1>8. PICK g : g = NewFrame(slot, work, Node)
  OBVIOUS
<1>9. g.slot = slot /\ g.work = work
  BY <1>8 DEF NewFrame
<1>10. PICK h : h = Done(Called)
  OBVIOUS
<1>11. h.slot = Top.slot /\ h.work = Tail(Top.work) /\ h.returned = Top.returned
  BY <1>2, <1>10 DEF Done, Called, IsFrame
<1>12. PICK R : frames \in Seq(R)
  BY DEF FramesInv
<1>13. PICK base : base = [frames EXCEPT ![Depth] = h]
  OBVIOUS
<1>14. base \in Seq(R \cup {g, h}) /\ Len(base) = Depth
  <2>1. frames \in Seq(R \cup {g, h}) /\ Len(frames) = Depth
    BY <1>12 DEF Depth
  <2> QED BY <1>2, <1>13, <2>1, ExceptSeq
<1>15. base[Depth] = h /\ \A i \in 2 .. Depth - 1 : base[i] = frames[i]
  BY <1>2, <1>13
<1>16. frames' = Append(base, g)
  BY <1>7, <1>8, <1>10, <1>13
<1>17. /\ Len(frames') = Depth + 1 /\ frames'[Depth + 1] = g
       /\ \A i \in 1 .. Depth : frames'[i] = base[i]
  BY <1>2, <1>14, <1>16
<1>18. Depth' = Depth + 1
  BY <1>17 DEF Depth
<1>19. ASSUME NEW i \in 2 .. Depth + 1
       PROVE  /\ Whole(prog, DOMAIN frames'[i].slot)
              /\ i > 2 => Planned(prog, frames'[i])
  <2>1. CASE i = Depth + 1
    BY <1>6, <1>7, <1>9, <1>17, <2>1 DEF Planned
  <2>2. CASE i = Depth
    <3>1. frames'[i] = h
      BY <1>2, <1>15, <1>17, <2>2
    <3>2. Whole(prog, DOMAIN Top.slot)
      BY <1>2 DEF ScopeInv, Top
    <3>3. ASSUME Depth > 2, ~Top.returned
          PROVE  InScope(prog, h.work, Names(DOMAIN h.slot))
      <4>1. InScope(prog, Top.work, Names(DOMAIN Top.slot))
        BY <1>1, <3>3, HandScope
      <4>2. Gives(prog, Top.work[1]) = {}
        BY <1>1, <1>2, InHand, Binds DEF Gives, Node
      <4>3. InScope(prog, Tail(Top.work), Names(DOMAIN Top.slot) \cup {})
        BY <1>1, <1>2, <4>1, <4>2, ScopeRest
      <4> QED BY <1>11, <4>3, ScopeGrows
    <3>4. Depth > 2 => Planned(prog, h)
      BY <1>11, <3>3 DEF Planned
    <3> QED BY <1>11, <2>2, <3>1, <3>2, <3>4
  <2>3. CASE i \in 2 .. Depth - 1
    <3>1. frames'[i] = frames[i] /\ i \in 2 .. Depth
      BY <1>2, <1>15, <1>17, <2>3
    <3> QED BY <3>1 DEF ScopeInv
  <2> QED BY <1>2, <2>1, <2>2, <2>3
<1> QED BY <1>1, <1>18, <1>19 DEF ScopeInv

LEMMA LeaveScope == FramesInv /\ ScopeInv /\ LeaveFunction => ScopeInv'
<1> SUFFICES ASSUME FramesInv, ScopeInv, LeaveFunction
             PROVE  ScopeInv'
  OBVIOUS
<1>1. prog' = prog /\ Depth > 2 /\ frames' = SubSeq(frames, 1, Depth - 1)
  BY DEF LeaveFunction
<1>2. Depth \in Nat
  BY TopFacts
<1>3. PICK S : frames \in Seq(S)
  BY DEF FramesInv
<1>4. Depth' = Depth - 1 /\ \A i \in 1 .. Depth - 1 : frames'[i] = frames[i]
  BY <1>1, <1>2, <1>3 DEF Depth
<1>5. \A i \in 2 .. Depth - 1 : i \in 2 .. Depth /\ frames'[i] = frames[i]
  BY <1>1, <1>2, <1>4
<1> QED BY <1>1, <1>4, <1>5 DEF ScopeInv

LEMMA StutterScope == ScopeInv /\ UNCHANGED <<prog, frames>> => ScopeInv'
  BY DEF ScopeInv, Depth

LEMMA InitScope == Init => ScopeInv
<1> SUFFICES ASSUME Init
             PROVE  ScopeInv
  OBVIOUS
<1>1. PICK g : frames = <<g, NewFrame(NoValues, Children(prog.fun["main"].body), 0)>>
  BY DEF Init
<1>2. Depth = 2 /\ frames[2].slot = NoValues
  BY <1>1 DEF Depth, NewFrame
<1>3. DOMAIN NoValues = {}
  BY DEF NoValues
<1>4. Whole(prog, {})
  BY DEF Whole
<1>5. \A i \in 2 .. Depth : i = 2
  BY <1>2
<1> QED BY <1>2, <1>3, <1>4, <1>5 DEF ScopeInv

\* The variable an assignment names is one the node knows.
LEMMA AssignedName ==
  ProgOK => \A n \in Nodes_ : \A s \in Slots(Kids(n)[1]) :
    Kind(n) = "asg" => s[1] \in GlobalNames(prog) \cup Known(n)
<1> SUFFICES ASSUME ProgOK, NEW n \in Nodes_, Kind(n) = "asg", NEW s \in Slots(Kids(n)[1])
             PROVE  s[1] \in GlobalNames(prog) \cup Known(n)
  OBVIOUS
<1> DEFINE G == GlobalNames(prog)
<1>1. \A m \in Nodes_ : Kind(m) \in {"asg", "bin", "sub"} => 1 \in DOMAIN Kids(m)
  <2> SUFFICES ASSUME NEW m \in Nodes_, Kind(m) \in {"asg", "bin", "sub"}
               PROVE  1 \in DOMAIN Kids(m)
    OBVIOUS
  <2>1. Len(Kids(m)) \in 2 .. 2
    BY NodeFacts DEF IsNode, Kind, Kids
  <2> QED BY <2>1, KidFacts
<1>2. \A m \in Nodes_ : Kind(m) = "cast" => 1 \in DOMAIN Kids(m)
  <2> SUFFICES ASSUME NEW m \in Nodes_, Kind(m) = "cast"
               PROVE  1 \in DOMAIN Kids(m)
    OBVIOUS
  <2>1. Len(Kids(m)) \in 1 .. 1
    BY NodeFacts DEF IsNode, Kind, Kids
  <2> QED BY <2>1, KidFacts
<1>3. PICK l \in Nodes_ : l = Kids(n)[1] /\ Known(l) \subseteq Known(n)
  <2>1. 1 \in DOMAIN Kids(n)
    BY <1>1
  <2>2. Kids(n)[1] \in Nodes_
    BY <2>1, KidScope
  <2> QED BY <2>1, <2>2, PlainKid
<1>4. \A m \in Nodes_ : Kind(m) = "ref" => Data(m) \in G \cup Known(m)
  BY KidScope DEF Known
<1>5. CASE Kind(l) = "ref"
  <2>1. s = <<Data(l)>>
    BY <1>3, <1>5 DEF Slots
  <2> QED BY <1>3, <1>4, <1>5, <2>1
<1>6. CASE Kind(l) = "sub"
  <2>1. PICK base \in Nodes_ : base = Kids(l)[1] /\ Known(base) \subseteq Known(l)
    <3>1. 1 \in DOMAIN Kids(l)
      BY <1>1, <1>6
    <3>2. Kids(l)[1] \in Nodes_
      BY <3>1, KidScope
    <3> QED BY <1>6, <3>1, <3>2, PlainKid
  <2>2. PICK decl : decl = IF Kind(base) = "cast" THEN Kids(base)[1] ELSE base
    OBVIOUS
  <2>3. decl \in Nodes_ /\ Known(decl) \subseteq Known(base)
    <3>1. CASE Kind(base) = "cast"
      <4>1. 1 \in DOMAIN Kids(base)
        BY <1>2, <3>1
      <4>2. Kids(base)[1] \in Nodes_
        BY <4>1, KidScope
      <4> QED BY <2>2, <3>1, <4>1, <4>2, PlainKid
    <3>2. CASE Kind(base) # "cast"
      BY <2>2, <3>2
    <3> QED BY <3>1, <3>2
  <2>4. Kind(decl) = "ref" /\ \E i : s = <<Data(decl), Cut(i)>>
    BY <1>3, <1>6, <2>1, <2>2 DEF Slots
  <2>5. s[1] = Data(decl)
    BY <2>4
  <2> QED BY <1>3, <1>4, <2>1, <2>3, <2>4, <2>5
<1>7. Kind(l) \in {"ref", "sub"}
  BY <1>3 DEF Slots
<1> QED BY <1>5, <1>6, <1>7

LEMMA ScopeAssigns == ProgOK /\ FramesInv /\ Apart /\ ScopeInv => AssignsInScope
<1> SUFFICES ASSUME ProgOK, FramesInv, Apart, ScopeInv, At("finish", {"asg"}),
                    NEW s \in Slots(Kids(Node)[1]), NEW h \in Holders(s)
             PROVE  s \in DOMAIN Top.slot \cup DOMAIN frames[1].slot
  BY DEF AssignsInScope
<1>1. Top.work # <<>> /\ Task[1] = "finish" /\ Kind(Node) = "asg"
  BY DEF At
<1>2. /\ Depth \in Nat /\ Depth >= 2 /\ DOMAIN frames = 1 .. Depth
      /\ Node \in Nodes_ /\ ~Top.returned
  BY <1>1, TopFacts, InHand
<1>3. h \in 1 .. Depth /\ s \in DOMAIN frames[h].slot
  BY <1>2 DEF Holders
<1>4. CASE h = 1 \/ h = Depth
  BY <1>3, <1>4 DEF Top
<1>5. CASE h # 1 /\ h # Depth
  <2>1. Depth > 2 /\ h \in 2 .. Depth /\ Depth \in 2 .. Depth
    BY <1>2, <1>3, <1>5
  <2>2. s[1] \in GlobalNames(prog) \cup Known(Node)
    BY <1>1, <1>2, AssignedName
  <2>3. s[1] \notin GlobalNames(prog)
    BY <1>3, <2>1 DEF Apart, OwnSlots
  <2>4. Known(Node) \subseteq Names(DOMAIN Top.slot)
    BY <1>1, <1>2, <2>1, HandScope
  <2>5. PICK t \in DOMAIN Top.slot : t[1] = s[1]
    BY <2>2, <2>3, <2>4 DEF Names
  <2>6. Whole(prog, DOMAIN Top.slot) /\ Whole(prog, DOMAIN frames[h].slot)
    BY <2>1 DEF ScopeInv, Top
  <2>7. s \in Shape(prog, s[1]) /\ Shape(prog, s[1]) \subseteq DOMAIN Top.slot
    BY <1>3, <2>5, <2>6 DEF Whole
  <2> QED BY <2>7
<1> QED BY <1>4, <1>5

-----------------------------------------------------------------------------
(* The theorems about callers.                                             *)

LEMMA CallersStep ==
  IInv /\ Apart /\ ScopeInv /\ [Next]_vars => Apart' /\ ScopeInv' /\ [Untouched]_vars
<1> SUFFICES ASSUME IInv, Apart, ScopeInv, [Next]_vars
             PROVE  Apart' /\ ScopeInv' /\ [Untouched]_vars
  OBVIOUS
<1>1. ProgOK /\ FramesInv /\ AssignsInScope
  BY ScopeAssigns DEF IInv
<1>2. CASE \/ Visit \/ SkipVisit \/ Branch \/ Loop \/ Operate
           \/ CastValue \/ Uniop \/ ParenValue \/ MSizeof
           \/ CallInput \/ CallOutput \/ CallMalloc \/ CallFree
  <2>2. /\ prog' = prog
        /\ \E f : /\ f.slot = Top.slot /\ f.returned = Top.returned /\ SetTop(f)
                  /\ Visit \/ Branch \/ Loop \/ f.work = Tail(Top.work)
    BY <1>1, <1>2, KeepsVariables
  <2>1. PICK f : /\ f.slot = Top.slot /\ f.returned = Top.returned /\ SetTop(f)
                 /\ Visit \/ Branch \/ Loop \/ f.work = Tail(Top.work)
    BY <2>2
  <2>3. OwnSlots(f.slot, prog)
    BY <1>1, <2>1, TopFacts DEF Apart, Top
  <2>4. Apart' /\ Untouched
    BY <1>1, <2>1, <2>2, <2>3, OnlyTop
  <2>5. ASSUME ~Visit, ~Branch, ~Loop
        PROVE  ScopeInv'
    <3>1. TaskDone
      BY <1>1, <2>1, <2>2, <2>5, SetTopDone
    <3>2. Top.work # <<>> /\ (~Top.returned => Kind(Node) # "decl")
      BY <1>2, <2>5 DEF SkipVisit, Operate, CastValue, Uniop, ParenValue, MSizeof,
                        CallInput, CallOutput, CallMalloc, CallFree, AtCall, At
    <3> QED BY <1>1, <3>1, <3>2, DoneScope
  <2> QED BY <1>1, <2>4, <2>5, VisitScope, BranchesScope, LoopsScope
<1>3. CASE Assign
  <2>1. Top.work # <<>> /\ Kind(Node) # "decl"
    BY <1>3 DEF Assign, At
  <2> QED BY <1>1, <1>3, <2>1, AssignApart, DoneScope
<1>4. CASE Declare
  BY <1>1, <1>4, DeclareApart, DeclareScope
<1>5. CASE CallFunction
  BY <1>1, <1>5, CallApart, CallScope
<1>6. CASE Return
  <2>1. Top.work # <<>> /\ Kind(Node) # "decl"
    BY <1>6 DEF Return, At
  <2> QED BY <1>1, <1>6, <2>1, ReturnApart, DoneScope
<1>7. CASE LeaveFunction
  BY <1>1, <1>7, LeaveApart, LeaveScope
<1>8. CASE Finish \/ Abort \/ Stopped \/ UNCHANGED vars
  <2>1. UNCHANGED <<prog, frames>>
    BY <1>8 DEF Finish, Abort, Stopped, vars
  <2>2. Untouched
    BY <2>1 DEF Untouched
  <2> QED BY <2>1, <2>2, StutterApart, StutterScope
<1> QED BY <1>2, <1>3, <1>4, <1>5, <1>6, <1>7, <1>8 DEF Next

\* A variable that is assigned to is found in the frame of the function at hand or among
\* the globals, although the search goes through the frames of all the callers: what a
\* function has still to do names only what it has bound, or binds before.
THEOREM AssignsStayInScope == Spec => []AssignsInScope
<1>1. IInv /\ Apart /\ ScopeInv => AssignsInScope
  BY ScopeAssigns DEF IInv
<1> QED BY Induction, InitApart, InitScope, CallersStep, <1>1, PTL DEF Spec

\* A call leaves the variables and the half evaluated expressions of all the functions
\* that wait for it alone: although getDeclVal and bindDecl search the frames of the
\* callers, an assignment finds nothing there.
THEOREM CallersKept == Spec => CallersUntouched
<1>1. CallersUntouched <=> [][Untouched]_vars
  BY PTL DEF CallersUntouched, Untouched
<1> QED BY Induction, InitApart, InitScope, CallersStep, <1>1, PTL DEF Spec
=============================================================================
