-------------------------- MODULE FuncPtrSoundProofs --------------------------
(***************************************************************************)
(* The callees the analysis lists at a call are all a run can call there,  *)
(* for every module, every order of the analysis and every run, when one   *)
(* site stands for one object (OneObjectPerSite) and the analysis stays    *)
(* within what it is sound for (WithinReach).                              *)
(*                                                                         *)
(* The solver's facts change with every activation, so that no state of it *)
(* describes a run. The proof keeps a history: a set of summaries, one for *)
(* each activation that has ended, with the facts it found before every    *)
(* instruction and the calls it was entered from. What a call took from    *)
(* a summary stays true of it. Then a run is followed through summaries:   *)
(* each invocation of the run has one, and all the run holds anywhere is   *)
(* known where it stands in its latest one.                                *)
(***************************************************************************)
EXTENDS FuncPtrProofs, FuncPtrSound, Iteration

\* The points-to facts of a module.
FactsOf(p) == [p.value -> SUBSET p.value]

\* No value, or none but x, loses what it points to.
AllKept(p, S, T) == \A v \in p.value : S[v] \subseteq T[v]
OthersKept(p, x, S, T) == \A v \in p.value \ {x} : S[v] \subseteq T[v]

\* The allocation v has a site, and the facts T have it.
SiteKnown(A, v, T) == v \in DOMAIN A /\ A[v] \in T[v]

\* What a called value may be, by the facts S: itself, or what it points to.
Finds(p, S, v, g) == g \in FuncsOf(p) /\ (v = g \/ (v \notin FuncsOf(p) /\ g \in S[v]))

\* The position after a block's last instruction.
End(p, b) == Len(p.code[b]) + 1

(***************************************************************************)
(* A call i hands its facts S to a callee g whose entry has the facts E:   *)
(* all but what the parameters of the callees it is linked to had before.  *)
(***************************************************************************)
Safe(p, C, i, x) ==
    \A h \in C[i.dst] \ {"malloc"} : \A j \in DOMAIN p.param[h] : p.param[h][j] # x
Given(p, C, i, S, E, g) ==
    /\ \A x \in p.value : Safe(p, C, i, x) => S[x] \subseteq E[x]
    /\ \A j \in DOMAIN i.src : Safe(p, C, i, i.src[j]) /\ p.param[g][j] \in p.value
                                 => S[i.src[j]] \subseteq E[p.param[g][j]]

(***************************************************************************)
(* A summary s of a function: the facts at.[b][k] before the k-th          *)
(* instruction of block b, as they are when an activation of the function  *)
(* ends, and the calls it was entered from (callers). The next activation  *)
(* may change the facts; what the caller took from this one stays true of  *)
(* the summary.                                                            *)
(***************************************************************************)
Gives(p, s, T) ==
    p.exit[s.fn] # NoBlock => AllKept(p, s.at[p.exit[s.fn]][End(p, p.exit[s.fn])], T)
Summarised(p, C, H, i, S, T, g) ==
    \E s \in H : /\ s.fn = g /\ i.dst \in s.callers
                 /\ Given(p, C, i, S, s.at[p.entry[g]][1], g)
                 /\ Gives(p, s, T)

\* The call i takes the facts S to T, as far as the callee g is concerned.
Answered(p, C, A, H, i, S, T, g) ==
    /\ g \in C[i.dst]
    /\ g = "malloc" => OthersKept(p, i.dst, S, T) /\ SiteKnown(A, i.dst, T)
    /\ g # "malloc" => Summarised(p, C, H, i, S, T, g)
CallAnswered(p, C, A, H, i, S, T) ==
    \A g : Finds(p, S, Called(i), g) => Answered(p, C, A, H, i, S, T, g)

\* The instruction i, in a function entered from the calls R, takes the facts S to T.
Assigns(p, X, x, S, T) ==
    OthersKept(p, x, S, T) /\ \A v \in X : S[v] \subseteq T[x]
StepOK(p, C, A, H, R, i, S, T) ==
    /\ i.op = "alloca" => OthersKept(p, i.dst, S, T) /\ SiteKnown(A, i.dst, T)
    /\ i.op = "load" => Assigns(p, S[i.src[1]] \ {i.dst}, i.dst, S, T)
    /\ i.op = "store" => \A x \in p.value : /\ S[i.dst] # {x} => S[x] \subseteq T[x]
                                            /\ x \in S[i.dst] => S[i.src[1]] \subseteq T[x]
    /\ i.op \in {"cast", "gep"} => Assigns(p, {i.src[1]}, i.dst, S, T)
    /\ i.op = "phi" => Assigns(p, {i.src[j] : j \in DOMAIN i.src} \ {i.dst}, i.dst, S, T)
    /\ i.op = "ret" => /\ AllKept(p, S, T)
                       /\ i.src # <<>> => \A c \in R : S[i.src[1]] \subseteq T[c]
    /\ i.op = "call" => CallAnswered(p, C, A, H, i, S, T)

\* The first n facts of a block.
Runs(p, C, A, H, R, b, tr, n) ==
    /\ tr \in [1 .. n -> FactsOf(p)]
    /\ \A k \in 1 .. n - 1 : StepOK(p, C, A, H, R, p.code[b][k], tr[k], tr[k + 1])

SummaryOK(p, C, A, H, s) ==
    /\ s.fn \in FuncsOf(p) /\ p.block[s.fn] # {}
    /\ \A b \in p.block[s.fn] :
          /\ Runs(p, C, A, H, s.callers, b, s.at[b], End(p, b))
          /\ \A c \in p.succ[b] : AllKept(p, s.at[b][End(p, b)], s.at[c][1])
    /\ \A g \in FuncsOf(p) : g \in s.at[p.entry[s.fn]][1][g]

HistoryOK(p, C, A, H) == \A s \in H : SummaryOK(p, C, A, H, s)

(***************************************************************************)
(* The loop over the callees of the call i, which began with the facts S:  *)
(* a callee is waiting, or in hand (a member of G, its activation on top), *)
(* or its exit is merged. r is the result map.                             *)
(***************************************************************************)
Handled(p, C, A, H, r, fr, i, S, G, g) ==
    \/ g \in fr.todo
    \/ g = "malloc" /\ SiteKnown(A, i.dst, fr.dfval)
    \/ g # "malloc" /\ g \in G /\ Given(p, C, i, S, r[p.entry[g]].first, g)
    \/ g # "malloc" /\ Summarised(p, C, H, i, S, fr.out, g)
LoopOK(p, C, A, H, r, fr, i, S, G) ==
    /\ \A x \in p.value : Safe(p, C, i, x) /\ (x # i.dst \/ "malloc" \notin C[i.dst])
                            => S[x] \subseteq fr.dfval[x]
    /\ fr.out = [v \in p.value |-> {}] \/ ~(C[i.dst] \subseteq {"malloc"})
    /\ \A g : Finds(p, S, Called(i), g) =>
                 g \in C[i.dst] /\ Handled(p, C, A, H, r, fr, i, S, G, g)

\* An activation fr, entered from the calls R, has solved a block, and the block in hand
\* as far as it has come.
Solved(p, C, A, H, r, R, b) ==
    \E tr : /\ Runs(p, C, A, H, R, b, tr, End(p, b))
            /\ tr[1] = r[b].first /\ tr[End(p, b)] = r[b].second
SolvedSoFar(p, C, A, H, r, R, fr, G) ==
    \E tr : /\ Runs(p, C, A, H, R, fr.bb, tr, fr.ii)
            /\ tr[1] = r[fr.bb].first
            /\ ~fr.calling => tr[fr.ii] = fr.dfval
            /\ fr.calling => LoopOK(p, C, A, H, r, fr, InstOf(p, fr), tr[fr.ii], G)
ActivationOf(p, C, A, H, r, R, fr, G) ==
    /\ fr.bb # NoBlock => SolvedSoFar(p, C, A, H, r, R, fr, G)
    /\ \A b \in p.block[fr.fn] \ (fr.worklist \cup {fr.bb}) : Solved(p, C, A, H, r, R, b)

\* The call the k-th activation was entered from, and the function entered from it.
From(p, st, k) == IF k = 1 THEN {} ELSE {InstOf(p, st[k - 1]).dst}
Into(st, k) == IF k = Len(st) THEN {} ELSE {st[k + 1].fn}

\* The functions the loop of runOnModule has come past have been solved.
Past(H) ==
    \A n \in 1 .. next - 1 : prog.block[prog.fun[n]] # {} =>
        \/ Running /\ stack[1].fn = prog.fun[n]
        \/ \E s \in H : s.fn = prog.fun[n]

Activations(H) ==
    \A k \in DOMAIN stack :
        ActivationOf(prog, CalleeMap, AllocMap, H, result, From(prog, stack, k), stack[k], Into(stack, k))

History(H) == HistoryOK(prog, CalleeMap, AllocMap, H) /\ Activations(H) /\ Past(H)

\* Both directions of a link are known.
Mirrored == \A c \in CallSites : \A f \in CalleeMap[c] : c \in CallerMap[f]

\* A position is one of the block or the one after it.
InBounds == \A k \in DOMAIN stack : stack[k].bb # NoBlock => stack[k].ii <= End(prog, stack[k].bb)

Steps == EdgeInv /\ CallInv /\ NestInv /\ SiteInv /\ InBounds /\ Mirrored
Sound == Steps /\ \E H : History(H)

\* When the theorem holds.
Tractable == OneObjectPerSite(prog) /\ WithinReach

\* What every step below starts from.
Ready == Steps /\ Tractable

-----------------------------------------------------------------------------
(***************************************************************************)
(* All this stays true when more calls are linked, more sites given and    *)
(* more summaries known.                                                   *)
(***************************************************************************)
MoreLinks(p, C, D) == \A i \in InstsOf(p) : i.op = "call" => C[i.dst] \subseteq D[i.dst]
Prolongs(A, B) == DOMAIN A \subseteq DOMAIN B /\ \A v \in DOMAIN A : B[v] = A[v]
Later(p, C, A, H, D, B, K) == MoreLinks(p, C, D) /\ Prolongs(A, B) /\ H \subseteq K

LEMMA SafeLess ==
  ASSUME NEW p, NEW C, NEW D, MoreLinks(p, C, D), NEW i \in InstsOf(p), i.op = "call",
         NEW x, Safe(p, D, i, x)
  PROVE  Safe(p, C, i, x)
  BY DEF Safe, MoreLinks

LEMMA GivenMore ==
  ASSUME NEW p, NEW C, NEW D, MoreLinks(p, C, D), NEW i \in InstsOf(p), i.op = "call",
         NEW S, NEW E, NEW g, Given(p, C, i, S, E, g)
  PROVE  Given(p, D, i, S, E, g)
  <1>1. \A x : Safe(p, D, i, x) => Safe(p, C, i, x)
    BY SafeLess
  <1> QED
    BY <1>1 DEF Given

LEMMA SummarisedMore ==
  ASSUME NEW p, NEW C, NEW A, NEW H, NEW D, NEW B, NEW K, Later(p, C, A, H, D, B, K),
         NEW i \in InstsOf(p), i.op = "call", NEW S, NEW T, NEW g,
         Summarised(p, C, H, i, S, T, g)
  PROVE  Summarised(p, D, K, i, S, T, g)
  <1>1. PICK s \in H : /\ s.fn = g /\ i.dst \in s.callers
                       /\ Given(p, C, i, S, s.at[p.entry[g]][1], g)
                       /\ Gives(p, s, T)
    BY DEF Summarised
  <1>2. Given(p, D, i, S, s.at[p.entry[g]][1], g) /\ s \in K
    BY <1>1, GivenMore DEF Later
  <1> QED
    BY <1>1, <1>2 DEF Summarised

LEMMA SiteMore ==
  ASSUME NEW A, NEW B, Prolongs(A, B), NEW v, NEW T, SiteKnown(A, v, T)
  PROVE  SiteKnown(B, v, T)
  BY DEF Prolongs, SiteKnown

LEMMA StepMore ==
  ASSUME NEW p, NEW C, NEW A, NEW H, NEW D, NEW B, NEW K, Later(p, C, A, H, D, B, K),
         NEW i \in InstsOf(p), NEW R, NEW S, NEW T,
         StepOK(p, C, A, H, R, i, S, T)
  PROVE  StepOK(p, D, B, K, R, i, S, T)
  <1>1. \A v : SiteKnown(A, v, T) => SiteKnown(B, v, T)
    BY SiteMore DEF Later
  <1>2. CASE i.op = "call"
    <2>1. ASSUME NEW g, Finds(p, S, Called(i), g) PROVE Answered(p, D, B, K, i, S, T, g)
      <3>1. Answered(p, C, A, H, i, S, T, g)
        BY <1>2, <2>1 DEF StepOK, CallAnswered
      <3>2. g \in D[i.dst]
        BY <1>2, <3>1 DEF Answered, Later, MoreLinks
      <3>3. CASE g = "malloc"
        BY <1>1, <3>1, <3>2, <3>3 DEF Answered
      <3>4. CASE g # "malloc"
        <4>1. Summarised(p, C, H, i, S, T, g)
          BY <3>1, <3>4 DEF Answered
        <4>2. Summarised(p, D, K, i, S, T, g)
          BY <1>2, <4>1, SummarisedMore
        <4> QED
          BY <3>2, <3>4, <4>2 DEF Answered
      <3> QED
        BY <3>3, <3>4
    <2>2. CallAnswered(p, D, B, K, i, S, T)
      BY <2>1 DEF CallAnswered
    <2> QED
      BY <1>2, <2>2 DEF StepOK
  <1>3. CASE i.op # "call"
    BY <1>1, <1>3 DEF StepOK
  <1> QED
    BY <1>2, <1>3

\* The instructions of a block are instructions of the module.
LEMMA BlockInsts ==
  ASSUME NEW p, IsModule(p), NEW b \in BlocksOf(p)
  PROVE  /\ Len(p.code[b]) \in Nat /\ DOMAIN p.code[b] = 1 .. Len(p.code[b])
         /\ \A k \in 1 .. Len(p.code[b]) : p.code[b][k] \in InstsOf(p)
  BY DEF IsModule

LEMMA RunsMore ==
  ASSUME NEW p, IsModule(p), NEW C, NEW A, NEW H, NEW D, NEW B, NEW K, Later(p, C, A, H, D, B, K),
         NEW b \in BlocksOf(p), NEW R, NEW tr, NEW n \in Nat, n <= End(p, b),
         Runs(p, C, A, H, R, b, tr, n)
  PROVE  Runs(p, D, B, K, R, b, tr, n)
  <1>1. ASSUME NEW k \in 1 .. n - 1
        PROVE  StepOK(p, D, B, K, R, p.code[b][k], tr[k], tr[k + 1])
    <2>1. Len(p.code[b]) \in Nat /\ \A j \in 1 .. Len(p.code[b]) : p.code[b][j] \in InstsOf(p)
      BY BlockInsts
    <2>2. k \in 1 .. Len(p.code[b])
      BY <2>1 DEF End
    <2>3. p.code[b][k] \in InstsOf(p)
      BY <2>1, <2>2
    <2>4. StepOK(p, C, A, H, R, p.code[b][k], tr[k], tr[k + 1])
      BY DEF Runs
    <2> QED
      BY <2>3, <2>4, StepMore
  <1> QED
    BY <1>1 DEF Runs

LEMMA SummaryMore ==
  ASSUME NEW p, IsModule(p), NEW C, NEW A, NEW H, NEW D, NEW B, NEW K, Later(p, C, A, H, D, B, K),
         NEW s, SummaryOK(p, C, A, H, s)
  PROVE  SummaryOK(p, D, B, K, s)
  <1>1. ASSUME NEW b \in p.block[s.fn]
        PROVE  Runs(p, D, B, K, s.callers, b, s.at[b], End(p, b))
    <2>1. b \in BlocksOf(p)
      BY DEF SummaryOK, BlocksOf
    <2>2. End(p, b) \in Nat /\ End(p, b) <= End(p, b)
      BY <2>1, BlockInsts DEF End
    <2>3. Runs(p, C, A, H, s.callers, b, s.at[b], End(p, b))
      BY DEF SummaryOK
    <2> QED
      BY <2>1, <2>2, <2>3, RunsMore
  <1> QED
    BY <1>1 DEF SummaryOK

LEMMA SolvedMore ==
  ASSUME NEW p, IsModule(p), NEW C, NEW A, NEW H, NEW D, NEW B, NEW K, Later(p, C, A, H, D, B, K),
         NEW b \in BlocksOf(p), NEW R, NEW r, NEW q, q[b] = r[b],
         Solved(p, C, A, H, r, R, b)
  PROVE  Solved(p, D, B, K, q, R, b)
  <1>1. PICK tr : /\ Runs(p, C, A, H, R, b, tr, End(p, b))
                  /\ tr[1] = r[b].first /\ tr[End(p, b)] = r[b].second
    BY DEF Solved
  <1>2. End(p, b) \in Nat /\ End(p, b) <= End(p, b)
    BY BlockInsts DEF End
  <1>3. Runs(p, D, B, K, R, b, tr, End(p, b))
    BY <1>1, <1>2, RunsMore
  <1> QED
    BY <1>1, <1>3 DEF Solved

LEMMA GivenOn ==
  ASSUME NEW p, NEW C, NEW i, NEW S, NEW E, NEW F, NEW g,
         Given(p, C, i, S, E, g), AllKept(p, E, F)
  PROVE  Given(p, C, i, S, F, g)
  BY DEF Given, AllKept

\* The entries of the functions in G only get more facts.
EntriesMore(p, r, q, G) ==
    \A g \in G \ {"malloc"} : AllKept(p, r[p.entry[g]].first, q[p.entry[g]].first)

LEMMA LoopMore ==
  ASSUME NEW p, NEW C, NEW A, NEW H, NEW D, NEW B, NEW K, Later(p, C, A, H, D, B, K),
         NEW r, NEW q, NEW G, EntriesMore(p, r, q, G),
         NEW fr, NEW i \in InstsOf(p), i.op = "call", NEW S,
         LoopOK(p, C, A, H, r, fr, i, S, G)
  PROVE  LoopOK(p, D, B, K, q, fr, i, S, G)
  <1>1. \A x : Safe(p, D, i, x) => Safe(p, C, i, x)
    BY SafeLess DEF Later
  <1>2. C[i.dst] \subseteq D[i.dst]
    BY DEF Later, MoreLinks
  <1>3. ASSUME NEW g, Finds(p, S, Called(i), g) PROVE g \in D[i.dst] /\ Handled(p, D, B, K, q, fr, i, S, G, g)
    <2>1. g \in C[i.dst] /\ Handled(p, C, A, H, r, fr, i, S, G, g)
      BY <1>3 DEF LoopOK
    <2>2. CASE g = "malloc" /\ SiteKnown(A, i.dst, fr.dfval)
      BY <1>2, <2>1, <2>2, SiteMore DEF Handled, Later
    <2>3. CASE g # "malloc" /\ g \in G /\ Given(p, C, i, S, r[p.entry[g]].first, g)
      <3>1. Given(p, D, i, S, r[p.entry[g]].first, g)
        BY <2>3, GivenMore DEF Later
      <3>2. AllKept(p, r[p.entry[g]].first, q[p.entry[g]].first)
        BY <2>3 DEF EntriesMore
      <3>3. Given(p, D, i, S, q[p.entry[g]].first, g)
        BY <3>1, <3>2, GivenOn
      <3> QED
        BY <1>2, <2>1, <2>3, <3>3 DEF Handled
    <2>4. CASE g # "malloc" /\ Summarised(p, C, H, i, S, fr.out, g)
      <3>1. Summarised(p, D, K, i, S, fr.out, g)
        BY <2>4, SummarisedMore
      <3> QED
        BY <1>2, <2>1, <2>4, <3>1 DEF Handled
    <2> QED
      BY <1>2, <2>1, <2>2, <2>3, <2>4 DEF Handled
  <1>4. \A x \in p.value : Safe(p, D, i, x) /\ (x # i.dst \/ "malloc" \notin D[i.dst])
                                => S[x] \subseteq fr.dfval[x]
    BY <1>1, <1>2 DEF LoopOK
  <1>5. fr.out = [v \in p.value |-> {}] \/ ~(D[i.dst] \subseteq {"malloc"})
    BY <1>2 DEF LoopOK
  <1> QED
    BY <1>3, <1>4, <1>5 DEF LoopOK

\* An activation whose blocks nobody writes to and that stands at a call, if it is in one.
StandsAt(p, fr) ==
    /\ p.block[fr.fn] \subseteq BlocksOf(p)
    /\ fr.bb # NoBlock => fr.bb \in p.block[fr.fn] /\ fr.ii \in Nat \ {0} /\ fr.ii <= End(p, fr.bb)
    /\ fr.calling => fr.bb # NoBlock /\ InstOf(p, fr) \in InstsOf(p) /\ InstOf(p, fr).op = "call"

LEMMA ActivationMore ==
  ASSUME NEW p, IsModule(p), NEW C, NEW A, NEW H, NEW D, NEW B, NEW K, Later(p, C, A, H, D, B, K),
         NEW fr, StandsAt(p, fr), NEW R, NEW r, NEW q, \A b \in p.block[fr.fn] : q[b] = r[b],
         NEW G, EntriesMore(p, r, q, G),
         ActivationOf(p, C, A, H, r, R, fr, G)
  PROVE  ActivationOf(p, D, B, K, q, R, fr, G)
  <1>1. ASSUME NEW b \in p.block[fr.fn] \ (fr.worklist \cup {fr.bb})
        PROVE  Solved(p, D, B, K, q, R, b)
    <2>1. Solved(p, C, A, H, r, R, b) /\ b \in BlocksOf(p) /\ q[b] = r[b]
      BY DEF ActivationOf, StandsAt
    <2> QED
      BY <2>1, SolvedMore
  <1>2. CASE fr.bb # NoBlock
    <2>1. PICK tr : /\ Runs(p, C, A, H, R, fr.bb, tr, fr.ii)
                    /\ tr[1] = r[fr.bb].first
                    /\ ~fr.calling => tr[fr.ii] = fr.dfval
                    /\ fr.calling => LoopOK(p, C, A, H, r, fr, InstOf(p, fr), tr[fr.ii], G)
      BY <1>2 DEF ActivationOf, SolvedSoFar
    <2>2. fr.bb \in BlocksOf(p) /\ fr.ii \in Nat /\ fr.ii <= End(p, fr.bb) /\ q[fr.bb] = r[fr.bb]
      BY <1>2 DEF StandsAt
    <2>3. Runs(p, D, B, K, R, fr.bb, tr, fr.ii)
      BY <2>1, <2>2, RunsMore
    <2>4. fr.calling => LoopOK(p, D, B, K, q, fr, InstOf(p, fr), tr[fr.ii], G)
      BY <2>1, LoopMore DEF StandsAt
    <2>5. SolvedSoFar(p, D, B, K, q, R, fr, G)
      BY <2>1, <2>2, <2>3, <2>4 DEF SolvedSoFar
    <2> QED
      BY <1>1, <2>5 DEF ActivationOf
  <1>3. CASE fr.bb = NoBlock
    BY <1>1, <1>3 DEF ActivationOf
  <1> QED
    BY <1>2, <1>3

-----------------------------------------------------------------------------
(***************************************************************************)
(* What the instructions do.                                               *)
(***************************************************************************)
LEMMA UpdateAssigns ==
  ASSUME NEW S \in Facts, NEW dst \in prog.value, NEW src \in prog.value
  PROVE  Assigns(prog, {src}, dst, S, Update(S, dst, src, TRUE))
  BY DEF Update, Assigns, OthersKept, Facts

LEMMA FirstStrongAssigns ==
  ASSUME NEW S \in Facts, NEW dst \in prog.value, NEW first \in prog.value, NEW rest \in SUBSET prog.value
  PROVE  Assigns(prog, ({first} \cup rest) \ {dst}, dst, S, UpdateFirstStrong(S, dst, first, rest))
  <1> DEFINE T == Update(S, dst, first, TRUE)
             U == [T EXCEPT ![dst] = T[dst] \cup UNION {T[v] : v \in rest}]
  <1>1. T \in Facts /\ Assigns(prog, {first}, dst, S, T)
    BY UpdateOK, UpdateAssigns
  <1>2. UpdateFirstStrong(S, dst, first, rest) = U
    BY DEF UpdateFirstStrong
  <1>3. U[dst] = T[dst] \cup UNION {T[v] : v \in rest} /\ \A v \in prog.value \ {dst} : U[v] = T[v]
    <2> HIDE DEF T
    <2> QED
      BY <1>1 DEF Facts
  <1>4. OthersKept(prog, dst, S, T) /\ S[first] \subseteq T[dst]
    BY <1>1 DEF Assigns
  <1> HIDE DEF T, U
  <1>5. \A v \in rest \ {dst} : S[v] \subseteq U[dst]
    BY <1>3, <1>4 DEF OthersKept
  <1>6. OthersKept(prog, dst, S, U)
    BY <1>3, <1>4 DEF OthersKept
  <1> QED
    BY <1>2, <1>3, <1>4, <1>5, <1>6 DEF Assigns

LEMMA OutcomesStep ==
  ASSUME NEW S \in Facts, NEW i, IsInstr(prog, i), i.op \notin {"alloca", "call", "memcpy"},
         NEW callers, NEW R \in SUBSET callers, R \subseteq prog.value, NEW T \in Outcomes(S, i, callers),
         NEW C, NEW A, NEW H
  PROVE  StepOK(prog, C, A, H, R, i, S, T)
  <1>1. CASE i.op = "load"
    <2>1. i.dst \in prog.value /\ i.src[1] \in prog.value
      BY <1>1 DEF IsInstr
    <2>2. T \in LoadOutcomes(S, i.dst, i.src[1])
      BY <1>1 DEF Outcomes
    <2>3. CASE S[i.src[1]] = {}
      <3>1. T = S
        BY <2>2, <2>3 DEF LoadOutcomes
      <3>2. Assigns(prog, S[i.src[1]] \ {i.dst}, i.dst, S, T)
        BY <2>3, <3>1 DEF Assigns, OthersKept
      <3> QED
        BY <1>1, <3>2 DEF StepOK
    <2>4. CASE S[i.src[1]] # {}
      <3>1. PICK v \in S[i.src[1]] : T = UpdateFirstStrong(S, i.dst, v, S[i.src[1]] \ {v})
        BY <2>2, <2>4 DEF LoadOutcomes
      <3>2. S[i.src[1]] \subseteq prog.value
        BY <2>1 DEF Facts
      <3>3. Assigns(prog, ({v} \cup (S[i.src[1]] \ {v})) \ {i.dst}, i.dst, S, T)
        BY <2>1, <3>1, <3>2, FirstStrongAssigns
      <3>4. ({v} \cup (S[i.src[1]] \ {v})) = S[i.src[1]]
        OBVIOUS
      <3>5. Assigns(prog, S[i.src[1]] \ {i.dst}, i.dst, S, T)
        BY <3>3, <3>4
      <3> QED
        BY <1>1, <3>5 DEF StepOK
    <2> QED
      BY <2>3, <2>4
  <1>2. CASE i.op = "store"
    <2>1. i.dst \in prog.value /\ i.src[1] \in prog.value
      BY <1>2 DEF IsInstr
    <2>2. T = StoreOutcome(S, i.dst, i.src[1])
      BY <1>2 DEF Outcomes
    <2>3. ASSUME NEW x, S[i.dst] = {x}
          PROVE  T = Update(S, x, i.src[1], TRUE)
      BY <2>2, <2>3 DEF StoreOutcome
    <2>4. ASSUME ~\E x \in S[i.dst] : S[i.dst] = {x}
          PROVE  T = [x \in DOMAIN S |-> IF x \in S[i.dst] THEN S[x] \cup S[i.src[1]] ELSE S[x]]
      BY <2>2, <2>4 DEF StoreOutcome
    <2>5. ASSUME NEW x \in prog.value
          PROVE  /\ S[i.dst] # {x} => S[x] \subseteq T[x]
                 /\ x \in S[i.dst] => S[i.src[1]] \subseteq T[x]
      <3>1. CASE \E y \in S[i.dst] : S[i.dst] = {y}
        <4>1. PICK y \in S[i.dst] : S[i.dst] = {y}
          BY <3>1
        <4>2. T = Update(S, y, i.src[1], TRUE)
          BY <2>3, <4>1
        <4>3. T[y] = (IF S[i.src[1]] = {} THEN S[y] ELSE S[i.src[1]]) \/ y \notin prog.value
          BY <4>2 DEF Update, Facts
        <4>4. x # y => T[x] = S[x]
          BY <4>2 DEF Update, Facts
        <4> QED
          BY <4>1, <4>3, <4>4
      <3>2. CASE ~\E y \in S[i.dst] : S[i.dst] = {y}
        BY <2>4, <3>2 DEF Facts
      <3> QED
        BY <3>1, <3>2
    <2> QED
      BY <1>2, <2>5 DEF StepOK
  <1>3. CASE i.op \in {"cast", "gep"}
    <2>1. i.dst \in prog.value /\ i.src[1] \in prog.value
      BY <1>3 DEF IsInstr
    <2>2. T = Update(S, i.dst, i.src[1], TRUE)
      BY <1>3 DEF Outcomes
    <2>3. Assigns(prog, {i.src[1]}, i.dst, S, T)
      BY <2>1, <2>2, UpdateAssigns
    <2> QED
      BY <1>3, <2>3 DEF StepOK
  <1>4. CASE i.op = "phi"
    <2>1. i.src \in Seq(prog.value) /\ i.src # <<>> /\ i.dst \in prog.value
      BY <1>4 DEF IsInstr
    <2> DEFINE rest == {i.src[j] : j \in 2 .. Len(i.src)}
    <2>2. i.src[1] \in prog.value /\ rest \in SUBSET prog.value
      BY <2>1
    <2>3. T = UpdateFirstStrong(S, i.dst, i.src[1], rest)
      BY <1>4 DEF Outcomes, PhiOutcome
    <2>4. {i.src[j] : j \in DOMAIN i.src} \subseteq {i.src[1]} \cup rest
      <3>1. \A j \in DOMAIN i.src : j = 1 \/ j \in 2 .. Len(i.src)
        BY <2>1
      <3> QED
        BY <3>1
    <2> HIDE DEF rest
    <2>5. Assigns(prog, ({i.src[1]} \cup rest) \ {i.dst}, i.dst, S, T)
      BY <2>1, <2>2, <2>3, FirstStrongAssigns
    <2>6. Assigns(prog, {i.src[j] : j \in DOMAIN i.src} \ {i.dst}, i.dst, S, T)
      BY <2>4, <2>5 DEF Assigns
    <2> QED
      BY <1>4, <2>6 DEF StepOK
  <1>5. CASE i.op = "ret"
    <2>1. CASE i.src = <<>>
      <3>1. T = S
        BY <1>5, <2>1 DEF Outcomes
      <3> QED
        BY <1>5, <2>1, <3>1 DEF StepOK, AllKept
    <2>2. CASE i.src # <<>>
      <3>1. T = ReturnOutcome(S, callers, i.src[1])
        BY <1>5, <2>2 DEF Outcomes
      <3>2. \A x \in prog.value : T[x] = IF x \in callers THEN S[x] \cup S[i.src[1]] ELSE S[x]
        BY <3>1 DEF ReturnOutcome, Facts
      <3> QED
        BY <1>5, <2>2, <3>2 DEF StepOK, AllKept
    <2> QED
      BY <2>1, <2>2
  <1> QED
    BY <1>1, <1>2, <1>3, <1>4, <1>5 DEF IsInstr

-----------------------------------------------------------------------------
\* The actions on the stack that the invariants below need to know of.
LEMMA ReadyShape ==
  ASSUME Ready
  PROVE  /\ TInv /\ AnalysedOnce /\ prog \in Program /\ IsModule(prog) /\ IsRunnable(prog)
         /\ \A k \in DOMAIN stack : StandsAt(prog, stack[k])
  <1>1. TInv /\ AnalysedOnce /\ prog \in Program /\ IsModule(prog) /\ IsRunnable(prog)
    BY TwiceIsCircle, ModuleShape, RunnableAssumption
       DEF Ready, Steps, EdgeInv, Tractable, WithinReach, TInv, TypeOK
  <1>2. ASSUME NEW k \in DOMAIN stack PROVE StandsAt(prog, stack[k])
    <2>1. stack[k] \in Frame /\ FrameOK(stack[k])
      BY <1>1, <1>2, StackShape
    <2>2. stack[k].fn \in Func /\ prog.block[stack[k].fn] \subseteq Blocks
      BY <1>1, <2>1, ModuleShape DEF Frame
    <2>3. ASSUME stack[k].bb # NoBlock
          PROVE  /\ stack[k].bb \in prog.block[stack[k].fn] /\ stack[k].ii \in Nat \ {0}
                 /\ stack[k].ii <= End(prog, stack[k].bb)
      BY <2>1, <2>3 DEF Frame, FrameOK, Ready, Steps, InBounds
    <2>4. ASSUME stack[k].calling
          PROVE  /\ stack[k].bb # NoBlock
                 /\ InstOf(prog, stack[k]) \in InstsOf(prog) /\ InstOf(prog, stack[k]).op = "call"
      <3>1. InstOf(prog, stack[k]).op \in {"call", "memcpy"}
        BY <1>1, <2>1, <2>4, CallShape
      <3>2. /\ stack[k].bb # NoBlock /\ stack[k].bb \in Blocks
            /\ stack[k].ii \in Nat \ {0} /\ stack[k].ii <= Len(prog.code[stack[k].bb])
        BY <2>1, <2>2, <2>4 DEF FrameOK, Frame
      <3>3. /\ InstOf(prog, stack[k]) \in InstsOf(prog)
            /\ InstOf(prog, stack[k]) \in CodeOf(prog, stack[k].bb)
        <4>1. DOMAIN prog.code[stack[k].bb] = 1 .. Len(prog.code[stack[k].bb])
          BY <1>1, <3>2, BlockInsts DEF Blocks
        <4>2. stack[k].ii \in DOMAIN prog.code[stack[k].bb]
          BY <3>2, <4>1
        <4> QED
          BY <1>1, <3>2, <4>2, InstShape DEF InstOf, CodeOf
      <3>4. InstOf(prog, stack[k]).op # "memcpy"
        BY <3>2, <3>3 DEF Ready, Tractable, WithinReach, OneObjectPerSite, Blocks
      <3> QED
        BY <3>1, <3>2, <3>3, <3>4
    <2> QED
      BY <2>2, <2>3, <2>4 DEF StandsAt, Blocks
  <1> QED
    BY <1>1, <1>2

\* Calls and functions entered are those of the activations as they were.
LEMMA SameCalls ==
  ASSUME Ready, TInv', Running, NEW fr, Replaced(fr), fr.fn = Top.fn
  PROVE  \A k \in DOMAIN stack : From(prog, stack', k) = From(prog, stack, k) /\ Into(stack', k) = Into(stack, k)
  <1>1. /\ stack \in Seq(Frame) /\ Len(stack) \in Nat \ {0} /\ Top = stack[Len(stack)]
        /\ DOMAIN stack = 1 .. Len(stack)
    <2>1. TInv
      BY ReadyShape
    <2> QED
      BY <2>1, TopOK, TopInStack DEF TInv, TypeOK
  <1>2. Len(stack') = Len(stack)
    <2>1. stack' \in Seq(Frame')
      BY DEF TInv, TypeOK
    <2> QED
      BY <1>1, <2>1 DEF Replaced
  <1>3. \A k \in DOMAIN stack : stack'[k].fn = stack[k].fn
    BY <1>1 DEF Replaced
  <1>4. \A k \in DOMAIN stack : k # 1 => k - 1 \in DOMAIN stack /\ k - 1 # Len(stack)
    BY <1>1
  <1>5. \A k \in DOMAIN stack : k # Len(stack) => k + 1 \in DOMAIN stack
    BY <1>1
  <1>6. \A k \in DOMAIN stack : k # 1 => InstOf(prog, stack'[k - 1]) = InstOf(prog, stack[k - 1])
    BY <1>4 DEF Replaced
  <1> QED
    BY <1>2, <1>3, <1>5, <1>6 DEF From, Into

\* An activation whose blocks are not written to goes on as it is.
LEMMA FrameActive ==
  ASSUME Ready, NEW H, History(H), NEW K, Later(prog, CalleeMap, AllocMap, H, CalleeMap', AllocMap', K),
         Kept, NEW k \in DOMAIN stack, \A b \in prog.block[stack[k].fn] : result'[b] = result[b]
  PROVE  ActivationOf(prog, CalleeMap', AllocMap', K, result', From(prog, stack, k), stack[k], Into(stack, k))
  <1>1. TInv /\ IsModule(prog) /\ StandsAt(prog, stack[k]) /\ stack \in Seq(Frame)
    BY ReadyShape DEF TInv, TypeOK
  <1>2. EntriesMore(prog, result, result', Into(stack, k))
    <2>1. CASE k = Len(stack)
      BY <2>1 DEF EntriesMore, Into
    <2>2. CASE k # Len(stack)
      <3>1. k + 1 \in DOMAIN stack /\ Into(stack, k) = {stack[k + 1].fn}
        BY <1>1, <2>2 DEF Into
      <3>2. ASSUME stack[k + 1].fn # "malloc"
            PROVE  prog.entry[stack[k + 1].fn] \in DOMAIN result
        <4>1. stack[k + 1] \in Frame /\ FrameOK(stack[k + 1]) /\ prog \in Program
          BY <1>1, <3>1, StackShape
        <4> QED
          BY <3>2, <4>1, ModuleShape DEF Frame, FrameOK
      <3> QED
        BY <3>1, <3>2 DEF EntriesMore, Kept, Grows, AllKept
    <2> QED
      BY <2>1, <2>2
  <1>3. ActivationOf(prog, CalleeMap, AllocMap, H, result, From(prog, stack, k), stack[k], Into(stack, k))
    BY DEF History, Activations
  <1> QED
    BY <1>1, <1>2, <1>3, ActivationMore

\* The activations of other functions than the running one, so all of them.
LEMMA OtherBlocks ==
  ASSUME Ready, Running, \A b \in DOMAIN result \ prog.block[Top.fn] : result'[b] = result[b],
         NEW k \in DOMAIN stack, k # Len(stack)
  PROVE  \A b \in prog.block[stack[k].fn] : result'[b] = result[b]
  <1>1. /\ TInv /\ AnalysedOnce /\ prog \in Program
        /\ stack[k] \in Frame /\ FrameOK(stack[k]) /\ stack[k].fn \in Func
    BY ReadyShape, StackShape DEF Frame
  <1>2. Len(stack) \in DOMAIN stack /\ Top = stack[Len(stack)] /\ Top.fn \in Func
    BY <1>1, TopOK, TopInStack DEF Frame
  <1>3. stack[k].fn # Top.fn
    BY <1>1, <1>2 DEF AnalysedOnce
  <1>4. prog.block[stack[k].fn] \cap prog.block[Top.fn] = {}
    BY <1>1, <1>2, <1>3, BlocksApart
  <1> QED
    BY <1>1, <1>4 DEF FrameOK

\* When only the running activation changes.
LEMMA HistoryReplaced ==
  ASSUME Ready, TInv', Running, prog' = prog, next' = next, NEW fr, Replaced(fr), fr.fn = Top.fn,
         NEW H, History(H), Later(prog, CalleeMap, AllocMap, H, CalleeMap', AllocMap', H),
         Kept, \A b \in DOMAIN result \ prog.block[Top.fn] : result'[b] = result[b],
         ActivationOf(prog, CalleeMap', AllocMap', H, result', From(prog, stack, Len(stack)), fr, {})
  PROVE  History(H)'
  <1>1. TInv /\ IsModule(prog) /\ Len(stack) \in DOMAIN stack /\ Top = stack[Len(stack)] /\ stack \in Seq(Frame)
    BY ReadyShape, TopInStack DEF TInv, TypeOK
  <1>2. HistoryOK(prog, CalleeMap', AllocMap', H)
    BY <1>1, SummaryMore DEF History, HistoryOK
  <1>3. ASSUME NEW k \in DOMAIN stack
        PROVE  ActivationOf(prog, CalleeMap', AllocMap', H, result', From(prog, stack', k), stack'[k], Into(stack', k))
    <2>1. CASE k = Len(stack)
      <3>1. Into(stack', k) = {} /\ From(prog, stack', k) = From(prog, stack, k) /\ stack'[k] = fr
        BY <2>1, SameCalls DEF Into, Replaced
      <3> QED
        BY <2>1, <3>1
    <2>2. CASE k # Len(stack)
      <3>1. \A b \in prog.block[stack[k].fn] : result'[b] = result[b]
        BY <2>2, OtherBlocks
      <3>2. stack'[k] = stack[k] /\ From(prog, stack', k) = From(prog, stack, k) /\ Into(stack', k) = Into(stack, k)
        BY <2>2, SameCalls DEF Replaced
      <3> QED
        BY <3>1, <3>2, FrameActive
    <2> QED
      BY <2>1, <2>2
  <1>4. Activations(H)'
    BY <1>3 DEF Activations, Replaced
  <1>5. Past(H)'
    <2>1. Running'
      BY <1>1 DEF Replaced, Running
    <2>2. stack'[1].fn = stack[1].fn
      <3>1. 1 \in DOMAIN stack
        BY <1>1
      <3> QED
        BY <1>1, <3>1 DEF Replaced
    <2> QED
      BY <2>1, <2>2 DEF Past, History
  <1> QED
    BY <1>2, <1>4, <1>5 DEF History

\* The running activation moves on in its block or in its call.
LEMMA HistoryMoves ==
  ASSUME Ready, TInv', Running, prog' = prog, next' = next, result' = result,
         NEW fr, Replaced(fr), fr.fn = Top.fn, fr.worklist = Top.worklist, fr.bb = Top.bb,
         NEW H, History(H), Later(prog, CalleeMap, AllocMap, H, CalleeMap', AllocMap', H),
         Top.bb # NoBlock,
         SolvedSoFar(prog, CalleeMap', AllocMap', H, result, From(prog, stack, Len(stack)), fr, {})
  PROVE  History(H)'
  <1>1. TInv /\ IsModule(prog) /\ Len(stack) \in DOMAIN stack /\ Top = stack[Len(stack)] /\ Top \in Frame /\ FrameOK(Top)
    BY ReadyShape, TopInStack, TopOK
  <1> DEFINE R == From(prog, stack, Len(stack))
  <1>2. ASSUME NEW b \in prog.block[fr.fn] \ (fr.worklist \cup {fr.bb})
        PROVE  Solved(prog, CalleeMap', AllocMap', H, result', R, b)
    <2>1. Solved(prog, CalleeMap, AllocMap, H, result, R, b)
      BY <1>1 DEF History, Activations, ActivationOf
    <2>2. b \in BlocksOf(prog)
      BY <1>1, ModuleShape DEF Frame, Blocks, Func, BlocksOf
    <2> QED
      BY <1>1, <2>1, <2>2, SolvedMore
  <1>3. ActivationOf(prog, CalleeMap', AllocMap', H, result', R, fr, {})
    BY <1>2 DEF ActivationOf
  <1>4. Kept /\ \A b \in DOMAIN result : result'[b] = result[b]
    BY DEF Kept, Grows
  <1> QED
    BY <1>3, <1>4, HistoryReplaced

\* What the running activation has done so far.
LEMMA TopSoFar ==
  ASSUME Ready, Running, NEW H, History(H), Top.bb # NoBlock
  PROVE  /\ SolvedSoFar(prog, CalleeMap, AllocMap, H, result, From(prog, stack, Len(stack)), Top, {})
         /\ Top.bb \in BlocksOf(prog) /\ Top.ii \in Nat \ {0} /\ Top.ii <= End(prog, Top.bb)
         /\ TInv /\ IsModule(prog) /\ Top \in Frame /\ FrameOK(Top)
  <1>1. TInv /\ IsModule(prog) /\ Len(stack) \in DOMAIN stack /\ Top = stack[Len(stack)]
        /\ Top \in Frame /\ FrameOK(Top) /\ StandsAt(prog, Top)
    BY ReadyShape, TopInStack, TopOK
  <1>2. Into(stack, Len(stack)) = {}
    BY DEF Into
  <1>3. ActivationOf(prog, CalleeMap, AllocMap, H, result, From(prog, stack, Len(stack)), Top, {})
    BY <1>1, <1>2 DEF History, Activations
  <1> QED
    BY <1>1, <1>3 DEF ActivationOf, StandsAt

\* One more instruction.
LEMMA RunsOn ==
  ASSUME NEW p, NEW C, NEW A, NEW H, NEW R, NEW b, NEW tr, NEW n \in Nat \ {0},
         Runs(p, C, A, H, R, b, tr, n), NEW T \in FactsOf(p),
         StepOK(p, C, A, H, R, p.code[b][n], tr[n], T)
  PROVE  \E t : Runs(p, C, A, H, R, b, t, n + 1) /\ t[1] = tr[1] /\ t[n + 1] = T
  <1> DEFINE t == [k \in 1 .. n + 1 |-> IF k = n + 1 THEN T ELSE tr[k]]
  <1>1. tr \in [1 .. n -> FactsOf(p)]
    BY DEF Runs
  <1>2. \A k \in 1 .. n : k \in 1 .. n + 1 /\ k # n + 1 /\ t[k] = tr[k]
    OBVIOUS
  <1>3. t[n + 1] = T /\ 1 \in 1 .. n
    OBVIOUS
  <1>4. t \in [1 .. n + 1 -> FactsOf(p)]
    <2>1. \A k \in 1 .. n + 1 : k = n + 1 \/ k \in 1 .. n
      OBVIOUS
    <2>2. \A k \in 1 .. n + 1 : (IF k = n + 1 THEN T ELSE tr[k]) \in FactsOf(p)
      BY <1>1, <2>1
    <2> QED
      BY <2>2
  <1> HIDE DEF t
  <1>5. ASSUME NEW k \in 1 .. (n + 1) - 1
        PROVE  StepOK(p, C, A, H, R, p.code[b][k], t[k], t[k + 1])
    <2>1. CASE k = n
      BY <1>2, <1>3, <2>1
    <2>2. CASE k # n
      <3>1. k \in 1 .. n - 1 /\ k \in 1 .. n /\ k + 1 \in 1 .. n
        BY <2>2
      <3> QED
        BY <1>2, <3>1 DEF Runs
    <2> QED
      BY <2>1, <2>2
  <1> QED
    BY <1>2, <1>3, <1>4, <1>5 DEF Runs

\* The running activation has processed an instruction.
LEMMA HistoryStep ==
  ASSUME Ready, TInv', Running, prog' = prog, next' = next, result' = result,
         ~Top.calling, Top.bb # NoBlock,
         NEW fr, Replaced(fr), fr.fn = Top.fn, fr.worklist = Top.worklist, fr.bb = Top.bb,
         fr.ii = Top.ii + 1, ~fr.calling, fr.dfval \in Facts,
         NEW H, History(H), Later(prog, CalleeMap, AllocMap, H, CalleeMap', AllocMap', H),
         StepOK(prog, CalleeMap', AllocMap', H, From(prog, stack, Len(stack)), Inst, Top.dfval, fr.dfval)
  PROVE  History(H)'
  <1> DEFINE R == From(prog, stack, Len(stack))
  <1>1. /\ SolvedSoFar(prog, CalleeMap, AllocMap, H, result, R, Top, {})
        /\ Top.bb \in BlocksOf(prog) /\ Top.ii \in Nat \ {0} /\ Top.ii <= End(prog, Top.bb)
        /\ IsModule(prog)
    BY TopSoFar
  <1>2. PICK tr : /\ Runs(prog, CalleeMap, AllocMap, H, R, Top.bb, tr, Top.ii)
                  /\ tr[1] = result[Top.bb].first /\ tr[Top.ii] = Top.dfval
    BY <1>1 DEF SolvedSoFar
  <1>3. Runs(prog, CalleeMap', AllocMap', H, R, Top.bb, tr, Top.ii)
    BY <1>1, <1>2, RunsMore
  <1>4. fr.dfval \in FactsOf(prog)
    BY DEF Facts, FactsOf
  <1>5. PICK t : /\ Runs(prog, CalleeMap', AllocMap', H, R, Top.bb, t, Top.ii + 1)
                 /\ t[1] = tr[1] /\ t[Top.ii + 1] = fr.dfval
    BY <1>1, <1>2, <1>3, <1>4, RunsOn DEF Inst
  <1>6. SolvedSoFar(prog, CalleeMap', AllocMap', H, result, R, fr, {})
    BY <1>2, <1>5 DEF SolvedSoFar
  <1> QED
    BY <1>6, HistoryMoves

-----------------------------------------------------------------------------
(***************************************************************************)
(* The steps of the running activation.                                    *)
(***************************************************************************)
LEMMA CalledOK ==
  ASSUME Ready, AtInst, Inst.op = "call"
  PROVE  Called(Inst) \in prog.value
  <1>1. IsRunnable(prog) /\ TInv /\ Running /\ Top \in Frame /\ FrameOK(Top) /\ IsModule(prog)
    BY ReadyShape, TopOK DEF AtInst, InBlock
  <1>2. Top.bb \in BlocksOf(prog) /\ Top.ii \in DOMAIN prog.code[Top.bb]
    <2>1. Top.bb \in Blocks /\ Top.ii \in Nat \ {0} /\ Top.ii <= Len(prog.code[Top.bb])
      BY <1>1 DEF AtInst, InBlock, Frame, FrameOK
    <2> QED
      BY <1>1, <2>1, BlockInsts DEF Blocks
  <1>3. \A k \in DOMAIN prog.code[Top.bb] : prog.code[Top.bb][k].op = "call" => Called(prog.code[Top.bb][k]) \in prog.value
    BY <1>1, <1>2 DEF IsRunnable
  <1> QED
    BY <1>2, <1>3 DEF Inst

\* getCallees finds what a called value may be.
LEMMA FindsSearched ==
  ASSUME Ready, NEW S \in Facts, NEW v \in prog.value, NEW g, Finds(prog, S, v, g)
  PROVE  g \in SearchedFrom(S, Func, v) \cap Func
  <1> DEFINE R == SearchedFrom(S, Func, v)
  <1>1. IsFiniteSet(prog.value) /\ DOMAIN S = prog.value /\ S \in [prog.value -> SUBSET prog.value]
    BY ReadyShape DEF IsRunnable, Facts
  <1>2. R = Searched(prog.value, S, Func, v)
    BY <1>1 DEF SearchedFrom, Searched
  <1>3. v \in R /\ \A u \in R \ Func : S[u] \subseteq R
    BY <1>1, <1>2, SearchedLeast
  <1> HIDE DEF R
  <1> QED
    BY <1>3 DEF Finds, Func, R

\* The call the running activation was entered from is known to its returns.
LEMMA OwnCaller ==
  ASSUME Ready, Running
  PROVE  LET R == From(prog, stack, Len(stack))
         IN  R \subseteq CallerMap[Top.fn] /\ R \subseteq prog.value
  <1>1. /\ TInv /\ stack \in Seq(Frame) /\ Len(stack) \in Nat \ {0} /\ Top = stack[Len(stack)]
        /\ Top.fn \in Func /\ CallerMap \in [Func -> SUBSET CallSites] /\ prog \in Program
    BY ReadyShape, TopOK, TopInStack DEF TInv, TypeOK, Frame
  <1>2. CASE Len(stack) = 1
    BY <1>2 DEF From
  <1>3. CASE Len(stack) # 1
    <2>1. PICK n \in Nat : n + 1 = Len(stack) /\ n = Len(stack) - 1 /\ n \in 1 .. Len(stack) - 1
                           /\ n \in DOMAIN stack
      <3>1. Len(stack) - 1 \in Nat /\ (Len(stack) - 1) + 1 = Len(stack)
            /\ Len(stack) - 1 \in 1 .. Len(stack) - 1 /\ Len(stack) - 1 \in DOMAIN stack
        <4>1. DOMAIN stack = 1 .. Len(stack)
          BY <1>1
        <4>2. PICK m \in Nat \ {0, 1} : m = Len(stack)
          BY <1>1, <1>3
        <4>3. m - 1 \in Nat /\ (m - 1) + 1 = m /\ m - 1 \in 1 .. m - 1 /\ m - 1 \in 1 .. m
          OBVIOUS
        <4> QED
          BY <4>1, <4>2, <4>3
      <3> QED
        BY <3>1, Zenon
    <2>2. Calls(prog, CalleeMap, stack[n], Top.fn)
      BY <1>1, <2>1 DEF Ready, Steps, NestInv, CallersCall
    <2>3. stack[n] \in Frame /\ FrameOK(stack[n])
      BY <1>1, <2>1, StackShape
    <2>4. InstOf(prog, stack[n]).dst \in CallSites
      BY <1>1, <2>2, <2>3, CallShape DEF Calls
    <2>5. InstOf(prog, stack[n]).dst \in CallerMap[Top.fn]
      BY <1>1, <2>2, <2>4 DEF Calls, Ready, Steps, Mirrored
    <2>6. InstOf(prog, stack[n]).dst \in prog.value
      <3>1. \A i \in InstsOf(prog) : i.op = "call" => i.dst \in prog.value
        BY <1>1, ModuleShape DEF IsModule, IsInstr
      <3> QED
        BY <2>4, <3>1 DEF CallSites
    <2> QED
      BY <1>3, <2>1, <2>5, <2>6 DEF From
  <1> QED
    BY <1>2, <1>3

LEMMA SameLater ==
  ASSUME CalleeMap' = CalleeMap, AllocMap' = AllocMap, NEW H
  PROVE  Later(prog, CalleeMap, AllocMap, H, CalleeMap', AllocMap', H)
  BY DEF Later, MoreLinks, Prolongs

LEMMA HistoryProcessInst ==
  ASSUME Ready, TInv', ProcessInst, NEW H, History(H)
  PROVE  History(H)'
  <1>1. /\ Running /\ ~Top.calling /\ Top.bb # NoBlock /\ prog' = prog /\ next' = next /\ result' = result
        /\ CalleeMap' = CalleeMap /\ AllocMap' = AllocMap /\ TInv /\ Top \in Frame
    BY ReadyShape, TopOK DEF ProcessInst, AtInst, InBlock
  <1>2. PICK S \in Outcomes(Top.dfval, Inst, CallerMap[Top.fn]) :
          SetTop([Top EXCEPT !.dfval = S, !.ii = @ + 1])
    BY Zenon DEF ProcessInst
  <1>3. IsInstr(prog, Inst) /\ Inst.op \notin {"alloca", "call", "memcpy"} /\ Top.dfval \in Facts
    BY <1>1, InstOK DEF ProcessInst, Frame
  <1>4. S \in Facts
    BY <1>2, <1>3, OutcomesOK
  <1> DEFINE fr == [Top EXCEPT !.dfval = S, !.ii = @ + 1]
  <1>5. /\ fr.fn = Top.fn /\ fr.worklist = Top.worklist /\ fr.bb = Top.bb /\ fr.ii = Top.ii + 1
        /\ fr.calling = Top.calling /\ fr.dfval = S
    BY <1>1 DEF Frame
  <1>6. SetTop(fr)
    BY <1>2
  <1> HIDE DEF fr
  <1>7. Replaced(fr)
    BY <1>1, <1>6, SetTopReplaces
  <1>8. StepOK(prog, CalleeMap, AllocMap, H, From(prog, stack, Len(stack)), Inst, Top.dfval, S)
    BY <1>1, <1>2, <1>3, OwnCaller, OutcomesStep
  <1> QED
    BY <1>1, <1>4, <1>5, <1>7, <1>8, SameLater, HistoryStep

\* mapAllocSite only adds.
LEMMA AllocLater ==
  ASSUME CalleeMap' = CalleeMap, NEW v, MapAllocSite(v), NEW H
  PROVE  /\ Later(prog, CalleeMap, AllocMap, H, CalleeMap', AllocMap', H)
         /\ v \in DOMAIN AllocMap' /\ AllocMap'[v] = SiteOf(v)
  BY DEF Later, MoreLinks, Prolongs, MapAllocSite, SiteOf

LEMMA HistoryProcessAlloca ==
  ASSUME Ready, TInv', ProcessAlloca, NEW H, History(H)
  PROVE  History(H)'
  <1>1. /\ Running /\ ~Top.calling /\ Top.bb # NoBlock /\ prog' = prog /\ next' = next /\ result' = result
        /\ CalleeMap' = CalleeMap /\ TInv /\ Top \in Frame /\ MapAllocSite(Inst.dst) /\ Inst.op = "alloca"
        /\ AtInst
    BY ReadyShape, TopOK DEF ProcessAlloca, AtInst, InBlock
  <1>2. PICK s : s = SiteOf(Inst.dst)
    OBVIOUS
  <1>3. IsInstr(prog, Inst) /\ Inst.dst \in Allocations(prog) /\ Inst.dst \in prog.value /\ Top.dfval \in Facts
    BY <1>1, InstOK DEF Frame, IsInstr
  <1>4. s \in prog.value
    BY <1>1, <1>2, <1>3, AllocOK
  <1>5. PICK S : S = [Top.dfval EXCEPT ![Inst.dst] = {s}]
    OBVIOUS
  <1>6. S \in Facts /\ S[Inst.dst] = {s} /\ \A x \in prog.value \ {Inst.dst} : S[x] = Top.dfval[x]
    BY <1>3, <1>4, <1>5 DEF Facts
  <1> DEFINE fr == [Top EXCEPT !.dfval[Inst.dst] = {s}, !.ii = @ + 1]
  <1>7. /\ fr.fn = Top.fn /\ fr.worklist = Top.worklist /\ fr.bb = Top.bb /\ fr.ii = Top.ii + 1
        /\ fr.calling = Top.calling /\ fr.dfval = S
    BY <1>1, <1>5 DEF Frame
  <1>8. SetTop(fr)
    BY <1>2 DEF ProcessAlloca
  <1> HIDE DEF fr
  <1>9. Replaced(fr)
    BY <1>1, <1>8, SetTopReplaces
  <1>10. SiteKnown(AllocMap', Inst.dst, S)
    BY <1>1, <1>2, <1>6, AllocLater DEF SiteKnown
  <1>11. StepOK(prog, CalleeMap', AllocMap', H, From(prog, stack, Len(stack)), Inst, Top.dfval, S)
    BY <1>1, <1>6, <1>10 DEF StepOK, OthersKept
  <1> QED
    BY <1>1, <1>6, <1>7, <1>9, <1>11, AllocLater, HistoryStep

LEMMA HistoryBeginCall ==
  ASSUME Ready, TInv', BeginCall, NEW H, History(H)
  PROVE  History(H)'
  <1>1. /\ Running /\ ~Top.calling /\ Top.bb # NoBlock /\ prog' = prog /\ next' = next /\ result' = result
        /\ AllocMap' = AllocMap /\ TInv /\ Top \in Frame /\ Inst.op = "call" /\ AtInst
        /\ CalleeMap' = [CalleeMap EXCEPT ![Inst.dst] = @ \cup Linked(Inst)]
    BY ReadyShape, TopOK DEF BeginCall, AtInst, InBlock
  <1>2. /\ IsInstr(prog, Inst) /\ Inst \in InstsOf(prog) /\ Inst.dst \in CallSites /\ Top.dfval \in Facts
        /\ CalleeMap \in [CallSites -> SUBSET Func]
    BY <1>1, InstOK DEF Frame, TInv, TypeOK
  <1>3. PICK L : L = Linked(Inst)
    OBVIOUS
  <1>4. CalleeMap'[Inst.dst] = CalleeMap[Inst.dst] \cup L /\ \A c \in CallSites \ {Inst.dst} : CalleeMap'[c] = CalleeMap[c]
    BY <1>1, <1>2, <1>3
  <1>5. Later(prog, CalleeMap, AllocMap, H, CalleeMap', AllocMap', H)
    <2>1. \A i \in InstsOf(prog) : i.op = "call" => i.dst \in CallSites
      BY DEF CallSites
    <2>2. MoreLinks(prog, CalleeMap, CalleeMap')
      BY <1>4, <2>1 DEF MoreLinks
    <2> QED
      BY <1>1, <2>2 DEF Later, Prolongs
  <1>6. \A g : Finds(prog, Top.dfval, Called(Inst), g) => g \in CalleeMap'[Inst.dst]
    <2>1. Called(Inst) \in prog.value
      BY <1>1, ReadyShape, CalledOK
    <2> QED
      BY <1>2, <1>3, <1>4, <2>1, FindsSearched DEF Linked
  <1> DEFINE R == From(prog, stack, Len(stack))
             C == CalleeMap'
             skip == [Top EXCEPT !.ii = @ + 1]
             begin == [Top EXCEPT !.calling = TRUE, !.todo = C[Inst.dst], !.out = NoFacts]
  <1>7. CASE CalleeMap'[Inst.dst] = {}
    <2>1. SetTop(skip)
      BY <1>7 DEF BeginCall
    <2>2. /\ skip.fn = Top.fn /\ skip.worklist = Top.worklist /\ skip.bb = Top.bb /\ skip.ii = Top.ii + 1
          /\ skip.calling = Top.calling /\ skip.dfval = Top.dfval
      BY <1>1 DEF Frame
    <2> HIDE DEF skip, C
    <2>3. Replaced(skip)
      BY <1>1, <2>1, SetTopReplaces
    <2>4. CallAnswered(prog, CalleeMap', AllocMap', H, Inst, Top.dfval, Top.dfval)
      BY <1>6, <1>7 DEF CallAnswered
    <2>5. StepOK(prog, CalleeMap', AllocMap', H, R, Inst, Top.dfval, Top.dfval)
      BY <1>1, <2>4 DEF StepOK
    <2> QED
      BY <1>1, <1>2, <1>5, <2>2, <2>3, <2>5, HistoryStep
  <1>8. CASE CalleeMap'[Inst.dst] # {}
    <2>1. SetTop(begin)
      BY <1>8 DEF BeginCall
    <2>2. /\ begin.fn = Top.fn /\ begin.worklist = Top.worklist /\ begin.bb = Top.bb /\ begin.ii = Top.ii
          /\ begin.calling = TRUE /\ begin.dfval = Top.dfval /\ begin.todo = C[Inst.dst] /\ begin.out = NoFacts
      BY <1>1 DEF Frame
    <2> HIDE DEF begin
    <2>3. Replaced(begin)
      BY <1>1, <2>1, SetTopReplaces
    <2>4. /\ SolvedSoFar(prog, CalleeMap, AllocMap, H, result, R, Top, {})
          /\ Top.bb \in BlocksOf(prog) /\ Top.ii \in Nat \ {0} /\ Top.ii <= End(prog, Top.bb)
          /\ IsModule(prog)
      BY <1>1, TopSoFar
    <2>5. PICK tr : /\ Runs(prog, CalleeMap, AllocMap, H, R, Top.bb, tr, Top.ii)
                    /\ tr[1] = result[Top.bb].first /\ tr[Top.ii] = Top.dfval
      BY <1>1, <2>4 DEF SolvedSoFar
    <2>6. Runs(prog, CalleeMap', AllocMap', H, R, Top.bb, tr, Top.ii)
      BY <1>5, <2>4, <2>5, RunsMore
    <2>7. InstOf(prog, begin) = Inst
      BY <2>2 DEF InstOf, Inst
    <2>8. LoopOK(prog, CalleeMap', AllocMap', H, result, begin, Inst, Top.dfval, {})
      BY <1>6, <2>2 DEF LoopOK, Handled, NoFacts
    <2>9. SolvedSoFar(prog, CalleeMap', AllocMap', H, result, R, begin, {})
      BY <2>2, <2>5, <2>6, <2>7, <2>8 DEF SolvedSoFar
    <2> QED
      BY <1>1, <1>5, <2>2, <2>3, <2>9, HistoryMoves
  <1> QED
    BY <1>7, <1>8

\* The loop over the callees of the call the running activation is at.
LEMMA LoopSoFar ==
  ASSUME Ready, Running, Top.calling, NEW H, History(H)
  PROVE  /\ TInv /\ IsModule(prog) /\ Top \in Frame /\ FrameOK(Top) /\ Top.bb # NoBlock
         /\ Top.bb \in BlocksOf(prog) /\ Top.ii \in Nat \ {0} /\ Top.ii <= End(prog, Top.bb)
         /\ Inst \in InstsOf(prog) /\ IsInstr(prog, Inst) /\ Inst.op = "call" /\ Inst.dst \in CallSites
         /\ Inst.dst \in prog.value /\ InstOf(prog, Top) = Inst
         /\ Top.todo \subseteq CalleeMap[Inst.dst] /\ CalleeMap[Inst.dst] \subseteq Func
         /\ \E tr : /\ Runs(prog, CalleeMap, AllocMap, H, From(prog, stack, Len(stack)), Top.bb, tr, Top.ii)
                    /\ tr[1] = result[Top.bb].first /\ tr[Top.ii] \in Facts
                    /\ LoopOK(prog, CalleeMap, AllocMap, H, result, Top, Inst, tr[Top.ii], {})
  <1>1. TInv /\ Len(stack) \in DOMAIN stack /\ Top = stack[Len(stack)] /\ StandsAt(prog, Top)
    BY ReadyShape, TopInStack
  <1>2. Top.bb # NoBlock /\ InstOf(prog, Top) = Inst /\ Inst.op = "call"
    BY <1>1 DEF StandsAt, InstOf, Inst
  <1>3. IsInstr(prog, Inst) /\ Inst \in InstsOf(prog) /\ Inst.dst \in CallSites /\ Inst.dst \in prog.value
    BY <1>1, <1>2, CallingOK DEF IsInstr
  <1>4. /\ SolvedSoFar(prog, CalleeMap, AllocMap, H, result, From(prog, stack, Len(stack)), Top, {})
        /\ Top.bb \in BlocksOf(prog) /\ Top.ii \in Nat \ {0} /\ Top.ii <= End(prog, Top.bb)
        /\ IsModule(prog) /\ Top \in Frame /\ FrameOK(Top)
    BY <1>2, TopSoFar
  <1>5. Top.todo \subseteq CalleeMap[Inst.dst] /\ CalleeMap[Inst.dst] \subseteq Func
    <2>1. Loops(prog, CalleeMap, Top)
      BY <1>1 DEF Ready, Steps, NestInv
    <2>2. CalleeMap \in [CallSites -> SUBSET Func]
      BY <1>1 DEF TInv, TypeOK
    <2> QED
      BY <1>2, <1>3, <2>1, <2>2 DEF Loops
  <1>6. PICK tr : /\ Runs(prog, CalleeMap, AllocMap, H, From(prog, stack, Len(stack)), Top.bb, tr, Top.ii)
                  /\ tr[1] = result[Top.bb].first
                  /\ LoopOK(prog, CalleeMap, AllocMap, H, result, Top, Inst, tr[Top.ii], {})
    BY <1>2, <1>4 DEF SolvedSoFar
  <1>7. tr[Top.ii] \in Facts
    BY <1>4, <1>6 DEF Runs, Facts, FactsOf
  <1> QED
    BY <1>1, <1>2, <1>3, <1>4, <1>5, <1>6, <1>7

LEMMA HistoryCallMalloc ==
  ASSUME Ready, TInv', CallMalloc, NEW H, History(H)
  PROVE  History(H)'
  <1>1. /\ Running /\ Top.calling /\ prog' = prog /\ next' = next /\ result' = result
        /\ CalleeMap' = CalleeMap /\ MapAllocSite(Inst.dst) /\ "malloc" \in Top.todo
    BY DEF CallMalloc, Calling
  <1> DEFINE R == From(prog, stack, Len(stack))
  <1>2. /\ TInv /\ IsModule(prog) /\ Top \in Frame /\ Top.bb # NoBlock
        /\ Top.bb \in BlocksOf(prog) /\ Top.ii \in Nat \ {0} /\ Top.ii <= End(prog, Top.bb)
        /\ Inst.dst \in prog.value /\ InstOf(prog, Top) = Inst /\ Inst.op = "call"
        /\ Top.todo \subseteq CalleeMap[Inst.dst] /\ Top.dfval \in Facts
    BY <1>1, LoopSoFar DEF Frame
  <1>3. PICK tr : /\ Runs(prog, CalleeMap, AllocMap, H, R, Top.bb, tr, Top.ii)
                  /\ tr[1] = result[Top.bb].first
                  /\ LoopOK(prog, CalleeMap, AllocMap, H, result, Top, Inst, tr[Top.ii], {})
    BY <1>1, LoopSoFar
  <1>4. PICK s : s = SiteOf(Inst.dst)
    OBVIOUS
  <1>5. PICK S : S = [Top.dfval EXCEPT ![Inst.dst] = {s}]
    OBVIOUS
  <1>6. S[Inst.dst] = {s} /\ \A x \in prog.value \ {Inst.dst} : S[x] = Top.dfval[x]
    BY <1>2, <1>5 DEF Facts
  <1> DEFINE fr == [Top EXCEPT !.dfval[Inst.dst] = {s}, !.todo = @ \ {"malloc"}]
  <1>7. /\ fr.fn = Top.fn /\ fr.worklist = Top.worklist /\ fr.bb = Top.bb /\ fr.ii = Top.ii
        /\ fr.calling = Top.calling /\ fr.dfval = S /\ fr.todo = Top.todo \ {"malloc"} /\ fr.out = Top.out
    BY <1>2, <1>5 DEF Frame
  <1>8. SetTop(fr)
    BY <1>4 DEF CallMalloc
  <1> HIDE DEF fr
  <1>9. Replaced(fr)
    BY <1>1, <1>2, <1>8, SetTopReplaces
  <1>10. SiteKnown(AllocMap', Inst.dst, S)
    BY <1>1, <1>4, <1>6, AllocLater DEF SiteKnown
  <1>11. Later(prog, CalleeMap, AllocMap, H, CalleeMap', AllocMap', H)
    BY <1>1, AllocLater
  <1>12. Runs(prog, CalleeMap', AllocMap', H, R, Top.bb, tr, Top.ii)
    BY <1>2, <1>3, <1>11, RunsMore
  <1>13. LoopOK(prog, CalleeMap, AllocMap', H, result, fr, Inst, tr[Top.ii], {})
    <2>1. ASSUME NEW g, Finds(prog, tr[Top.ii], Called(Inst), g)
          PROVE  g \in CalleeMap[Inst.dst] /\ Handled(prog, CalleeMap, AllocMap', H, result, fr, Inst, tr[Top.ii], {}, g)
      <3>1. g \in CalleeMap[Inst.dst] /\ Handled(prog, CalleeMap, AllocMap, H, result, Top, Inst, tr[Top.ii], {}, g)
        BY <1>3, <2>1 DEF LoopOK
      <3> QED
        BY <1>7, <1>10, <3>1 DEF Handled
    <2>2. \A x \in prog.value : x # Inst.dst \/ "malloc" \notin CalleeMap[Inst.dst] => fr.dfval[x] = Top.dfval[x]
      BY <1>1, <1>2, <1>6, <1>7
    <2> QED
      BY <1>3, <1>7, <2>1, <2>2 DEF LoopOK
  <1>14. InstOf(prog, fr) = Inst
    BY <1>7 DEF InstOf, Inst
  <1>15. SolvedSoFar(prog, CalleeMap', AllocMap', H, result, R, fr, {})
    BY <1>1, <1>3, <1>7, <1>12, <1>13, <1>14 DEF SolvedSoFar
  <1> QED
    BY <1>1, <1>2, <1>7, <1>9, <1>11, <1>15, HistoryMoves

\* When the loop ends, every callee has answered.
LEMMA LoopEnds ==
  ASSUME MallocAlone, NEW i, i.dst \in CallSites, CalleeMap[i.dst] \subseteq Func, NEW A, NEW H,
         NEW fr, fr.dfval \in Facts, fr.out \in Facts, fr.todo = {}, NEW S \in Facts,
         LoopOK(prog, CalleeMap, A, H, result, fr, i, S, {}),
         NEW T, T = IF fr.out = NoFacts THEN fr.dfval ELSE fr.out
  PROVE  CallAnswered(prog, CalleeMap, A, H, i, S, T)
  <1> SUFFICES ASSUME NEW g, Finds(prog, S, Called(i), g)
               PROVE  Answered(prog, CalleeMap, A, H, i, S, T, g)
    BY DEF CallAnswered
  <1>1. g \in CalleeMap[i.dst] /\ Handled(prog, CalleeMap, A, H, result, fr, i, S, {}, g)
    BY DEF LoopOK
  <1>2. CASE g = "malloc"
    <2>1. CalleeMap[i.dst] = {"malloc"}
      BY <1>1, <1>2 DEF MallocAlone
    <2>2. fr.out = NoFacts
      BY <2>1 DEF LoopOK, NoFacts
    <2>3. \A x : Safe(prog, CalleeMap, i, x)
      BY <2>1 DEF Safe
    <2>4. OthersKept(prog, i.dst, S, T)
      BY <2>2, <2>3 DEF OthersKept, LoopOK
    <2>5. SiteKnown(A, i.dst, T)
      BY <1>1, <1>2, <2>2 DEF Handled
    <2> QED
      BY <1>1, <1>2, <2>4, <2>5 DEF Answered
  <1>3. CASE g # "malloc"
    <2>1. Summarised(prog, CalleeMap, H, i, S, fr.out, g)
      BY <1>1, <1>3 DEF Handled
    <2>2. AllKept(prog, fr.out, T)
      BY DEF AllKept, NoFacts
    <2>3. Summarised(prog, CalleeMap, H, i, S, T, g)
      BY <2>1, <2>2 DEF Summarised, Gives, AllKept
    <2> QED
      BY <1>1, <1>3, <2>3 DEF Answered
  <1> QED
    BY <1>2, <1>3

LEMMA HistoryEndCall ==
  ASSUME Ready, TInv', EndCall, NEW H, History(H)
  PROVE  History(H)'
  <1>1. /\ Running /\ Top.calling /\ prog' = prog /\ next' = next /\ result' = result
        /\ CalleeMap' = CalleeMap /\ AllocMap' = AllocMap /\ Top.todo = {}
    BY DEF EndCall
  <1> DEFINE R == From(prog, stack, Len(stack))
  <1>2. /\ TInv /\ IsModule(prog) /\ Top \in Frame /\ Top.bb # NoBlock
        /\ Top.bb \in BlocksOf(prog) /\ Top.ii \in Nat \ {0} /\ Top.ii <= End(prog, Top.bb)
        /\ Inst.op = "call" /\ Inst.dst \in CallSites /\ CalleeMap[Inst.dst] \subseteq Func
        /\ Top.dfval \in Facts /\ Top.out \in Facts
    BY <1>1, LoopSoFar DEF Frame
  <1>3. PICK tr : /\ Runs(prog, CalleeMap, AllocMap, H, R, Top.bb, tr, Top.ii)
                  /\ tr[1] = result[Top.bb].first /\ tr[Top.ii] \in Facts
                  /\ LoopOK(prog, CalleeMap, AllocMap, H, result, Top, Inst, tr[Top.ii], {})
    BY <1>1, LoopSoFar
  <1>4. PICK T : T = AfterCall
    OBVIOUS
  <1>5. T \in FactsOf(prog) /\ T = IF Top.out = NoFacts THEN Top.dfval ELSE Top.out
    BY <1>2, <1>4 DEF AfterCall, Facts, FactsOf
  <1>6. CallAnswered(prog, CalleeMap, AllocMap, H, Inst, tr[Top.ii], T)
    BY <1>1, <1>2, <1>3, <1>5, LoopEnds DEF Ready, Tractable, WithinReach
  <1>7. StepOK(prog, CalleeMap, AllocMap, H, R, Inst, tr[Top.ii], T)
    BY <1>2, <1>6 DEF StepOK
  <1>8. PICK t : /\ Runs(prog, CalleeMap, AllocMap, H, R, Top.bb, t, Top.ii + 1)
                 /\ t[1] = tr[1] /\ t[Top.ii + 1] = T
    BY <1>2, <1>3, <1>5, <1>7, RunsOn DEF Inst
  <1> DEFINE fr == [Top EXCEPT !.dfval = T, !.calling = FALSE, !.ii = @ + 1, !.out = NoFacts]
  <1>9. /\ fr.fn = Top.fn /\ fr.worklist = Top.worklist /\ fr.bb = Top.bb /\ fr.ii = Top.ii + 1
        /\ fr.calling = FALSE /\ fr.dfval = T
    BY <1>2 DEF Frame
  <1>10. SetTop(fr)
    BY <1>4 DEF EndCall
  <1> HIDE DEF fr
  <1>11. Replaced(fr)
    BY <1>1, <1>2, <1>10, SetTopReplaces
  <1>12. SolvedSoFar(prog, CalleeMap', AllocMap', H, result, R, fr, {})
    BY <1>1, <1>3, <1>8, <1>9 DEF SolvedSoFar
  <1> QED
    BY <1>1, <1>2, <1>9, <1>11, <1>12, SameLater, HistoryMoves

\* A block is taken up again: it is neither waiting nor solved.
LEMMA HistoryTakeBlock ==
  ASSUME Ready, TInv', NEW b \in Blocks, TakeBlock(b), NEW H, History(H)
  PROVE  History(H)'
  <1>1. /\ TInv /\ IsModule(prog) /\ Running /\ prog' = prog /\ next' = next /\ CalleeMap' = CalleeMap /\ AllocMap' = AllocMap
        /\ Top \in Frame /\ FrameOK(Top) /\ Top.bb = NoBlock /\ b \in Top.worklist
        /\ Len(stack) \in DOMAIN stack /\ Top = stack[Len(stack)]
    BY ReadyShape, TopOK, TopInStack DEF TakeBlock
  <1> DEFINE R == From(prog, stack, Len(stack))
  <1>2. PICK E : E = MergePreds(b)
    OBVIOUS
  <1> DEFINE fr == [Top EXCEPT !.worklist = @ \ {b}, !.bb = b, !.ii = 1, !.dfval = E]
  <1>3. /\ fr.fn = Top.fn /\ fr.bb = b /\ fr.worklist = Top.worklist \ {b} /\ fr.ii = 1
        /\ fr.calling = Top.calling /\ fr.dfval = E
    BY <1>1 DEF Frame
  <1>4. SetTop(fr)
    BY <1>2 DEF TakeBlock
  <1> HIDE DEF fr
  <1>5. Replaced(fr)
    BY <1>1, <1>4, SetTopReplaces
  <1>6. /\ b \in DOMAIN result /\ DOMAIN result' = DOMAIN result
        /\ \A c \in DOMAIN result \ {b} : result'[c] = result[c]
    BY <1>1, TakeResult
  <1>7. result'[b].first = E
    <2>1. result \in [DOMAIN result -> Entry]
      BY <1>1 DEF TInv, TypeOK, Entry
    <2>2. result' = [result EXCEPT ![b].first = E]
      BY <1>2 DEF TakeBlock
    <2> QED
      BY <1>6, <2>1, <2>2 DEF Entry
  <1>8. b \in prog.block[Top.fn] /\ prog.block[Top.fn] \subseteq DOMAIN result /\ prog.block[Top.fn] \subseteq BlocksOf(prog)
    BY <1>1, ModuleShape DEF FrameOK, Frame, TInv, TypeOK, Blocks
  <1>9. E \in FactsOf(prog)
    <2>1. MergePreds(b) \in Facts
      BY <1>1, <1>8, MergePredsOK DEF Frame
    <2> QED
      BY <1>2, <2>1 DEF Facts, FactsOf
  <1>10. SolvedSoFar(prog, CalleeMap', AllocMap', H, result', R, fr, {})
    <2> DEFINE tr == [k \in 1 .. 1 |-> E]
    <2>1. tr \in [1 .. 1 -> FactsOf(prog)] /\ tr[1] = E /\ 1 .. 1 - 1 = {}
      BY <1>9
    <2> HIDE DEF tr
    <2>2. Runs(prog, CalleeMap', AllocMap', H, R, b, tr, 1)
      BY <2>1 DEF Runs
    <2>3. ~fr.calling
      BY <1>1, <1>3 DEF FrameOK
    <2> QED
      BY <1>3, <1>7, <2>1, <2>2, <2>3 DEF SolvedSoFar
  <1>11. ASSUME NEW c \in prog.block[fr.fn] \ (fr.worklist \cup {fr.bb})
         PROVE  Solved(prog, CalleeMap', AllocMap', H, result', R, c)
    <2>1. c \in prog.block[Top.fn] \ (Top.worklist \cup {Top.bb}) /\ c # b /\ c \in BlocksOf(prog) /\ c \in DOMAIN result
      <3>1. c # NoBlock
        BY <1>1, <1>3, <1>8, ModuleShape DEF TInv, TypeOK, Blocks
      <3> QED
        BY <1>1, <1>3, <1>8, <3>1
    <2>2. Solved(prog, CalleeMap, AllocMap, H, result, R, c)
      <3>1. Into(stack, Len(stack)) = {}
        BY DEF Into
      <3>2. ActivationOf(prog, CalleeMap, AllocMap, H, result, R, Top, {})
        BY <1>1, <3>1 DEF History, Activations
      <3> QED
        BY <2>1, <3>2 DEF ActivationOf
    <2>3. result'[c] = result[c]
      BY <1>6, <2>1
    <2> QED
      BY <1>1, <2>1, <2>2, <2>3, SameLater, SolvedMore
  <1>12. ActivationOf(prog, CalleeMap', AllocMap', H, result', R, fr, {})
    BY <1>10, <1>11 DEF ActivationOf
  <1>13. Kept
    BY <1>1, StepKept DEF Next
  <1>14. \A c \in DOMAIN result \ prog.block[Top.fn] : result'[c] = result[c]
    BY <1>6, <1>8
  <1> QED
    BY <1>1, <1>3, <1>5, <1>12, <1>13, <1>14, SameLater, HistoryReplaced

LEMMA HistoryFinishBlock ==
  ASSUME Ready, TInv', FinishBlock, NEW H, History(H)
  PROVE  History(H)'
  <1>1. /\ TInv /\ IsModule(prog) /\ Running /\ prog' = prog /\ next' = next /\ CalleeMap' = CalleeMap /\ AllocMap' = AllocMap
        /\ Top \in Frame /\ FrameOK(Top) /\ Top.bb # NoBlock /\ ~Top.calling /\ Top.ii > Len(prog.code[Top.bb])
        /\ Len(stack) \in DOMAIN stack /\ Top = stack[Len(stack)]
    BY ReadyShape, TopOK, TopInStack DEF FinishBlock, InBlock
  <1> DEFINE R == From(prog, stack, Len(stack))
             quiet == [Top EXCEPT !.bb = NoBlock, !.dfval = NoFacts]
             more == [Top EXCEPT !.worklist = @ \cup Requeue(Top.bb),
                                 !.bb = NoBlock, !.dfval = NoFacts]
             Passed(g) == /\ g.fn = Top.fn /\ g.bb = NoBlock /\ ~g.calling
                          /\ Top.worklist \subseteq g.worklist
  <1>2. Passed(quiet) /\ Passed(more)
    BY <1>1 DEF Frame
  <1>3. \/ SetTop(quiet) /\ result' = result /\ ~Changed
        \/ SetTop(more) /\ result' = [result EXCEPT ![Top.bb].second = Top.dfval]
    BY DEF FinishBlock
  <1> HIDE DEF quiet, more
  <1>4. PICK fr : SetTop(fr) /\ Passed(fr)
    BY <1>2, <1>3
  <1>5. Replaced(fr) /\ fr.fn = Top.fn /\ fr.bb = NoBlock /\ Top.worklist \subseteq fr.worklist
    BY <1>1, <1>4, SetTopReplaces
  <1>6. /\ Top.bb \in DOMAIN result /\ DOMAIN result' = DOMAIN result
        /\ \A c \in DOMAIN result : result'[c].first = result[c].first
        /\ \A c \in DOMAIN result \ {Top.bb} : result'[c] = result[c]
    BY <1>1, FinishResult
  <1>7. result'[Top.bb].second = Top.dfval
    <2>1. result \in [DOMAIN result -> Entry]
      BY <1>1 DEF TInv, TypeOK, Entry
    <2>2. CASE result' = result /\ ~Changed
      BY <2>2 DEF Changed
    <2>3. CASE result' = [result EXCEPT ![Top.bb].second = Top.dfval]
      BY <1>6, <2>1, <2>3 DEF Entry
    <2> QED
      BY <1>3, <2>2, <2>3
  <1>8. /\ SolvedSoFar(prog, CalleeMap, AllocMap, H, result, R, Top, {})
        /\ Top.bb \in BlocksOf(prog) /\ Top.ii \in Nat \ {0} /\ Top.ii <= End(prog, Top.bb)
    BY <1>1, TopSoFar
  <1>9. Top.ii = End(prog, Top.bb)
    <2>1. Len(prog.code[Top.bb]) \in Nat
      BY <1>1, <1>8, BlockInsts
    <2> QED
      BY <1>1, <1>8, <2>1 DEF End
  <1>10. Solved(prog, CalleeMap', AllocMap', H, result', R, Top.bb)
    <2>1. PICK tr : /\ Runs(prog, CalleeMap, AllocMap, H, R, Top.bb, tr, Top.ii)
                    /\ tr[1] = result[Top.bb].first /\ tr[Top.ii] = Top.dfval
      BY <1>1, <1>8 DEF SolvedSoFar
    <2> QED
      BY <1>1, <1>6, <1>7, <1>9, <2>1 DEF Solved
  <1>11. ASSUME NEW c \in prog.block[fr.fn] \ (fr.worklist \cup {fr.bb})
         PROVE  Solved(prog, CalleeMap', AllocMap', H, result', R, c)
    <2>1. CASE c = Top.bb
      BY <1>10, <2>1
    <2>2. CASE c # Top.bb
      <3>1. c \in prog.block[Top.fn] \ (Top.worklist \cup {Top.bb}) /\ c \in BlocksOf(prog) /\ c \in DOMAIN result
        BY <1>1, <1>5, <2>2, ModuleShape DEF Frame, FrameOK, Blocks, TInv, TypeOK
      <3>2. Solved(prog, CalleeMap, AllocMap, H, result, R, c)
        <4>1. Into(stack, Len(stack)) = {}
          BY DEF Into
        <4>2. ActivationOf(prog, CalleeMap, AllocMap, H, result, R, Top, {})
          BY <1>1, <4>1 DEF History, Activations
        <4> QED
          BY <3>1, <4>2 DEF ActivationOf
      <3>3. result'[c] = result[c]
        BY <1>6, <2>2, <3>1
      <3> QED
        BY <1>1, <3>1, <3>2, <3>3, SameLater, SolvedMore
    <2> QED
      BY <2>1, <2>2
  <1>12. ActivationOf(prog, CalleeMap', AllocMap', H, result', R, fr, {})
    BY <1>5, <1>11 DEF ActivationOf
  <1>13. Kept
    BY <1>1, StepKept DEF Next
  <1>14. \A c \in DOMAIN result \ prog.block[Top.fn] : result'[c] = result[c]
    BY <1>1, <1>6 DEF FrameOK
  <1> QED
    BY <1>1, <1>5, <1>12, <1>13, <1>14, SameLater, HistoryReplaced

-----------------------------------------------------------------------------
(***************************************************************************)
(* A callee is entered and left.                                           *)
(***************************************************************************)
\* What is passed: a value that is no parameter of the callee keeps what it points to, a
\* parameter gets what its argument points to.
LEMMA PassGives ==
  ASSUME NEW S \in Facts, NEW f, NEW args \in Seq(prog.value), DOMAIN args \subseteq DOMAIN prog.param[f],
         NEW P, P = PassArguments(S, f, args)
  PROVE  /\ \A x \in prog.value : (\A j \in DOMAIN prog.param[f] : prog.param[f][j] # x) => P[x] = S[x]
         /\ \A j \in DOMAIN args : prog.param[f][j] \in prog.value => S[args[j]] \subseteq P[prog.param[f][j]]
  <1> DEFINE passed(v) == UNION {S[args[i]] : i \in {j \in DOMAIN args : prog.param[f][j] = v}}
  <1>1. P = [v \in prog.value |-> IF passed(v) = {} THEN S[v] ELSE passed(v)]
    BY DEF PassArguments, Facts
  <1>2. ASSUME NEW x \in prog.value, \A j \in DOMAIN prog.param[f] : prog.param[f][j] # x
        PROVE  P[x] = S[x]
    <2>1. {j \in DOMAIN args : prog.param[f][j] = x} = {}
      BY <1>2
    <2>2. passed(x) = {}
      BY <2>1
    <2> HIDE DEF passed
    <2> QED
      BY <1>1, <2>2
  <1>3. ASSUME NEW j \in DOMAIN args, prog.param[f][j] \in prog.value
        PROVE  S[args[j]] \subseteq P[prog.param[f][j]]
    <2>1. S[args[j]] \subseteq passed(prog.param[f][j])
      OBVIOUS
    <2> HIDE DEF passed
    <2> QED
      BY <1>1, <1>3, <2>1
  <1> QED
    BY <1>2, <1>3

\* The facts at a call reach the entry of the callee.
LEMMA GivenEntered ==
  ASSUME NEW C, NEW i, NEW f \in C[i.dst], f # "malloc", "malloc" \notin C[i.dst],
         i.src \in Seq(prog.value), DOMAIN i.src \subseteq DOMAIN prog.param[f],
         NEW S, NEW U \in Facts, \A x \in prog.value : Safe(prog, C, i, x) => S[x] \subseteq U[x],
         NEW E, AllKept(prog, PassArguments(U, f, i.src), E)
  PROVE  /\ Given(prog, C, i, S, E, f)
         /\ \A x \in prog.value : Safe(prog, C, i, x) => S[x] \subseteq PassArguments(U, f, i.src)[x]
  <1>1. PICK P : P = PassArguments(U, f, i.src)
    OBVIOUS
  <1>2. /\ \A x \in prog.value : (\A j \in DOMAIN prog.param[f] : prog.param[f][j] # x) => P[x] = U[x]
        /\ \A j \in DOMAIN i.src : prog.param[f][j] \in prog.value => U[i.src[j]] \subseteq P[prog.param[f][j]]
    BY <1>1, PassGives
  <1>3. \A x \in prog.value : Safe(prog, C, i, x) => P[x] = U[x]
    BY <1>2 DEF Safe
  <1>4. \A j \in DOMAIN i.src : i.src[j] \in prog.value
    OBVIOUS
  <1>5. \A j \in DOMAIN i.src : Safe(prog, C, i, i.src[j]) /\ prog.param[f][j] \in prog.value
                                  => S[i.src[j]] \subseteq P[prog.param[f][j]]
    BY <1>2, <1>4
  <1> QED
    BY <1>1, <1>3, <1>5 DEF Given, AllKept

LEMMA HistoryEnterCallee ==
  ASSUME Ready, Ready', NEW f \in Func, EnterCallee(f), NEW H, History(H)
  PROVE  History(H)'
  <1>1. /\ Running /\ Top.calling /\ f \in Top.todo /\ f # "malloc" /\ prog' = prog /\ next' = next
        /\ CalleeMap' = CalleeMap /\ AllocMap' = AllocMap
    BY DEF EnterCallee, Calling
  <1>2. /\ TInv /\ IsModule(prog) /\ prog \in Program /\ AnalysedOnce /\ AnalysedOnce' /\ Top \in Frame /\ FrameOK(Top) /\ Top.bb # NoBlock
        /\ Top.bb \in BlocksOf(prog) /\ Top.ii \in Nat \ {0} /\ Top.ii <= End(prog, Top.bb)
        /\ Inst \in InstsOf(prog) /\ IsInstr(prog, Inst) /\ Inst.op = "call" /\ Inst.dst \in CallSites
        /\ Inst.dst \in prog.value /\ InstOf(prog, Top) = Inst
        /\ Top.todo \subseteq CalleeMap[Inst.dst] /\ CalleeMap[Inst.dst] \subseteq Func
        /\ Top.dfval \in Facts /\ Top.fn \in Func
    <2>1. AnalysedOnce'
      BY TwiceIsCircle, PTL DEF Ready, Steps, Tractable, WithinReach
    <2> QED
      BY <1>1, <2>1, ReadyShape, LoopSoFar DEF Frame
  <1> DEFINE R == From(prog, stack, Len(stack))
  <1>3. PICK tr : /\ Runs(prog, CalleeMap, AllocMap, H, R, Top.bb, tr, Top.ii)
                  /\ tr[1] = result[Top.bb].first /\ tr[Top.ii] \in Facts
                  /\ LoopOK(prog, CalleeMap, AllocMap, H, result, Top, Inst, tr[Top.ii], {})
    BY <1>1, LoopSoFar
  <1>4. PICK n \in Nat \ {0}, fr \in Frame :
            /\ n = Len(stack) /\ DOMAIN stack = 1 .. n
            /\ fr.fn = Top.fn /\ fr.worklist = Top.worklist /\ fr.bb = Top.bb
            /\ fr.ii = Top.ii /\ fr.calling = Top.calling /\ fr.out = Top.out
            /\ fr.todo = Top.todo \ {f}
            /\ fr.dfval = PassArguments(Top.dfval, f, Inst.src)
            /\ stack' \in Seq(Frame) /\ DOMAIN stack' = 1 .. n + 1
            /\ \A i \in 1 .. n - 1 : stack'[i] = stack[i]
            /\ stack'[n] = fr
            /\ stack'[n + 1] = Activation(f)
    BY <1>2, EnterStack
  <1>5. /\ Len(stack') = n + 1 /\ (n + 1) - 1 = n /\ n \in 1 .. n + 1 /\ n + 1 \in 1 .. n + 1 /\ n + 1 # 1
        /\ \A i \in 1 .. n : (i \in 1 .. n - 1 \/ i = n) /\ i \in 1 .. n + 1 /\ i # n + 1
        /\ \A i \in 1 .. n + 1 : i \in 1 .. n - 1 \/ i = n \/ i = n + 1
        /\ \A i \in 1 .. n - 1 : i \in 1 .. n /\ i + 1 \in 1 .. n /\ i # n /\ i # n + 1
        /\ \A i \in 1 .. n : i # 1 => i - 1 \in 1 .. n - 1
        /\ 1 \in 1 .. n
    BY <1>4
  <1>6. Top = stack[n]
    BY <1>4 DEF Top
  <1>7. \A i \in 1 .. n : stack'[i].fn = stack[i].fn /\ stack'[i].bb = stack[i].bb /\ stack'[i].ii = stack[i].ii
    BY <1>4, <1>5, <1>6
  <1>8. stack'[n + 1].fn = f /\ stack'[n + 1].bb = NoBlock /\ stack'[n + 1].worklist = prog.block[f]
    BY <1>4 DEF Activation
  <1>9. \A i \in 1 .. n : stack[i].fn # f
    <2>1. \A i, j \in 1 .. n + 1 : stack'[i].fn = stack'[j].fn => i = j
      BY <1>2, <1>4 DEF AnalysedOnce
    <2>2. \A i \in 1 .. n : stack'[i].fn # stack'[n + 1].fn
      BY <1>5, <2>1
    <2> QED
      BY <1>7, <1>8, <2>2
  <1>10. PICK e \in prog.block[f] :
            /\ e = prog.entry[f]
            /\ DOMAIN result' = DOMAIN result \cup prog.block[f]
            /\ \A b \in DOMAIN result \ {e} : result'[b] = result[b]
            /\ AllKept(prog, fr.dfval, result'[e].first)
    <2>1. PICK e \in prog.block[f] :
            /\ e = prog.entry[f]
            /\ DOMAIN result' = DOMAIN result \cup prog.block[f]
            /\ \A b \in DOMAIN result \ {e} : result'[b] = result[b]
            /\ \A v \in prog.value :
                  PassArguments(Top.dfval, f, Inst.src)[v] \subseteq result'[e].first[v]
      BY <1>2, EnterResult
    <2>2. AllKept(prog, fr.dfval, result'[e].first)
      BY <1>4, <2>1 DEF AllKept
    <2> QED
      BY <2>1, <2>2
  <1>11. \A k \in 1 .. n : \A b \in prog.block[stack[k].fn] : result'[b] = result[b] /\ b \in DOMAIN result
    <2>1. \A k \in 1 .. n : stack[k] \in Frame /\ FrameOK(stack[k]) /\ stack[k].fn \in Func
      BY <1>2, <1>4, StackShape DEF Frame
    <2>2. \A k \in 1 .. n : prog.block[stack[k].fn] \cap prog.block[f] = {}
      BY <1>2, <1>9, <2>1, BlocksApart
    <2> QED
      BY <1>10, <2>1, <2>2 DEF FrameOK
  <1>12. Kept
    BY <1>2, StepKept DEF Next
  <1>13. Later(prog, CalleeMap, AllocMap, H, CalleeMap', AllocMap', H)
    BY <1>1, SameLater
  <1>14. \A k \in 1 .. n : From(prog, stack', k) = From(prog, stack, k)
    <2>1. \A k \in 1 .. n : k # 1 => stack'[k - 1] = stack[k - 1]
      BY <1>4, <1>5
    <2> QED
      BY <2>1 DEF From
  <1>15. ASSUME NEW k \in 1 .. n - 1
         PROVE  ActivationOf(prog, CalleeMap', AllocMap', H, result', From(prog, stack', k), stack'[k], Into(stack', k))
    <2>1. ActivationOf(prog, CalleeMap', AllocMap', H, result', From(prog, stack, k), stack[k], Into(stack, k))
      BY <1>4, <1>5, <1>11, <1>12, <1>13, FrameActive
    <2>2. Into(stack', k) = Into(stack, k)
      BY <1>4, <1>5, <1>7 DEF Into
    <2> QED
      BY <1>4, <1>5, <1>14, <2>1, <2>2
  <1>16. LoopOK(prog, CalleeMap, AllocMap, H, result', fr, Inst, tr[Top.ii], {f})
    <2>1. f \in CalleeMap[Inst.dst] /\ "malloc" \notin CalleeMap[Inst.dst]
      BY <1>1, <1>2 DEF Ready, Tractable, WithinReach, MallocAlone
    <2>2. /\ Inst.src \in Seq(prog.value) /\ DOMAIN Inst.src \subseteq DOMAIN prog.param[f]
      BY <1>1, <1>2, <2>1 DEF IsInstr, Ready, Tractable, WithinReach, ArgumentsFit
    <2>3. \A x \in prog.value : Safe(prog, CalleeMap, Inst, x) => tr[Top.ii][x] \subseteq Top.dfval[x]
      BY <1>3, <2>1 DEF LoopOK
    <2>4. AllKept(prog, PassArguments(Top.dfval, f, Inst.src), result'[e].first)
      BY <1>4, <1>10
    <2>5. /\ Given(prog, CalleeMap, Inst, tr[Top.ii], result'[e].first, f)
          /\ \A x \in prog.value : Safe(prog, CalleeMap, Inst, x) => tr[Top.ii][x] \subseteq fr.dfval[x]
      <3>1. /\ Given(prog, CalleeMap, Inst, tr[Top.ii], result'[e].first, f)
            /\ \A x \in prog.value : Safe(prog, CalleeMap, Inst, x) =>
                  tr[Top.ii][x] \subseteq PassArguments(Top.dfval, f, Inst.src)[x]
        BY <1>1, <1>2, <2>1, <2>2, <2>3, <2>4, GivenEntered
      <3> QED
        BY <1>4, <3>1
    <2>6. ASSUME NEW g, Finds(prog, tr[Top.ii], Called(Inst), g)
          PROVE  g \in CalleeMap[Inst.dst] /\ Handled(prog, CalleeMap, AllocMap, H, result', fr, Inst, tr[Top.ii], {f}, g)
      <3>1. g \in CalleeMap[Inst.dst] /\ Handled(prog, CalleeMap, AllocMap, H, result, Top, Inst, tr[Top.ii], {}, g)
        BY <1>3, <2>6 DEF LoopOK
      <3>2. CASE g = f
        BY <1>1, <1>10, <2>5, <3>1, <3>2 DEF Handled
      <3>3. CASE g # f
        BY <1>4, <2>1, <3>1, <3>3 DEF Handled
      <3> QED
        BY <3>2, <3>3
    <2> QED
      BY <1>3, <1>4, <2>5, <2>6 DEF LoopOK
  <1>17. ActivationOf(prog, CalleeMap', AllocMap', H, result', From(prog, stack', n), stack'[n], Into(stack', n))
    <2>1. From(prog, stack', n) = R /\ stack'[n] = fr /\ Into(stack', n) = {f}
      BY <1>4, <1>5, <1>8, <1>14 DEF Into
    <2>2. InstOf(prog, fr) = Inst
      BY <1>4 DEF InstOf, Inst
    <2>3. result'[fr.bb] = result[fr.bb]
      BY <1>2, <1>4, <1>5, <1>6, <1>11 DEF FrameOK
    <2>4. SolvedSoFar(prog, CalleeMap', AllocMap', H, result', R, fr, {f})
      BY <1>1, <1>3, <1>4, <1>16, <2>2, <2>3 DEF SolvedSoFar
    <2>5. ASSUME NEW c \in prog.block[fr.fn] \ (fr.worklist \cup {fr.bb})
          PROVE  Solved(prog, CalleeMap', AllocMap', H, result', R, c)
      <3>1. Into(stack, Len(stack)) = {}
        BY DEF Into
      <3>2. ActivationOf(prog, CalleeMap, AllocMap, H, result, R, Top, {})
        BY <1>1, <1>2, <3>1, TopInStack DEF History, Activations
      <3>3. Solved(prog, CalleeMap, AllocMap, H, result, R, c)
        BY <1>4, <3>2 DEF ActivationOf
      <3>4. result'[c] = result[c] /\ c \in BlocksOf(prog)
        BY <1>2, <1>4, <1>5, <1>6, <1>11 DEF BlocksOf, Func
      <3> QED
        BY <1>2, <1>13, <3>3, <3>4, SolvedMore
    <2> QED
      BY <2>1, <2>4, <2>5 DEF ActivationOf
  <1>18. ActivationOf(prog, CalleeMap', AllocMap', H, result', From(prog, stack', n + 1), stack'[n + 1], Into(stack', n + 1))
    BY <1>8 DEF ActivationOf
  <1>19. Activations(H)'
    BY <1>1, <1>4, <1>5, <1>15, <1>17, <1>18 DEF Activations
  <1>20. Past(H)'
    <2>1. Running' /\ stack'[1].fn = stack[1].fn
      BY <1>4, <1>5, <1>7 DEF Running
    <2> QED
      BY <1>1, <2>1 DEF History, Past
  <1>21. HistoryOK(prog, CalleeMap', AllocMap', H)
    BY <1>1 DEF History
  <1> QED
    BY <1>1, <1>19, <1>20, <1>21 DEF History

\* An activation that has nothing left to do leaves a summary.
Left(s) ==
    /\ s.fn = Top.fn /\ s.callers = From(prog, stack, Len(stack))
    /\ \A b \in prog.block[Top.fn] : /\ s.at[b][1] = result[b].first
                                     /\ s.at[b][End(prog, b)] = result[b].second

LEMMA TopSummary ==
  ASSUME Ready, Running, Top.bb = NoBlock, Top.worklist = {}, prog.block[Top.fn] # {},
         NEW H, History(H)
  PROVE  \E s : SummaryOK(prog, CalleeMap, AllocMap, H, s) /\ Left(s)
  <1> DEFINE R == From(prog, stack, Len(stack))
             B == prog.block[Top.fn]
             IsRun(b, tr) == /\ Runs(prog, CalleeMap, AllocMap, H, R, b, tr, End(prog, b))
                             /\ tr[1] = result[b].first /\ tr[End(prog, b)] = result[b].second
             s == [fn |-> Top.fn, callers |-> R, at |-> [b \in B |-> CHOOSE tr : IsRun(b, tr)]]
  <1>1. /\ TInv /\ IsModule(prog) /\ AnalysedOnce /\ prog \in Program /\ Top \in Frame /\ FrameOK(Top) /\ Top.fn \in Func
        /\ Len(stack) \in DOMAIN stack /\ Top = stack[Len(stack)] /\ NoBlock \notin Blocks
    BY ReadyShape, TopOK, TopInStack, ModuleShape DEF Frame
  <1>2. B \subseteq Blocks /\ B \subseteq DOMAIN result
    BY <1>1, ModuleShape DEF FrameOK
  <1>3. ASSUME NEW b \in B PROVE IsRun(b, s.at[b])
    <2>1. Into(stack, Len(stack)) = {}
      BY DEF Into
    <2>2. ActivationOf(prog, CalleeMap, AllocMap, H, result, R, Top, {})
      BY <1>1, <2>1 DEF History, Activations
    <2>3. Solved(prog, CalleeMap, AllocMap, H, result, R, b)
      <3>1. b \in B \ (Top.worklist \cup {Top.bb})
        BY <1>1, <1>2
      <3> QED
        BY <2>2, <3>1 DEF ActivationOf
    <2>4. \E tr : IsRun(b, tr)
      BY <2>3 DEF Solved
    <2>5. s.at[b] = CHOOSE tr : IsRun(b, tr)
      BY <1>3
    <2> HIDE DEF IsRun, s
    <2> QED
      BY <2>4, <2>5
  <1>4. s.fn = Top.fn /\ s.callers = R
    OBVIOUS
  <1> HIDE DEF s
  <1>5. ASSUME NEW b \in B, NEW c \in prog.succ[b]
        PROVE  AllKept(prog, s.at[b][End(prog, b)], s.at[c][1])
    <2>1. c \in B /\ b \in Pred(c) /\ c \in DOMAIN result
      BY <1>1, <1>2, FlowInFunction DEF Pred
    <2>2. c \notin Waiting
      <3>1. \A i \in DOMAIN stack \ {Len(stack)} : c \notin stack[i].worklist
        BY <1>1, <2>1, OthersApart
      <3> QED
        BY <1>1, <3>1 DEF Waiting
    <2>3. \A v \in prog.value : result[b].second[v] \subseteq result[c].first[v]
      BY <2>1, <2>2 DEF Ready, Steps, EdgeInv, NoStaleEdge
    <2> QED
      BY <1>3, <2>1, <2>3 DEF AllKept
  <1>6. \A g \in FuncsOf(prog) : g \in s.at[prog.entry[s.fn]][1][g]
    <2>1. prog.entry[Top.fn] \in B
      BY <1>1 DEF IsModule, Func
    <2> QED
      BY <1>2, <1>3, <1>4, <2>1 DEF Ready, Tractable, WithinReach, FunctionsKept, Func
  <1>7. SummaryOK(prog, CalleeMap, AllocMap, H, s)
    BY <1>1, <1>3, <1>4, <1>5, <1>6 DEF SummaryOK, Func
  <1>8. Left(s)
    BY <1>3, <1>4 DEF Left
  <1> QED
    BY <1>7, <1>8

\* With one summary more.
LEMMA OneMore ==
  ASSUME Ready, prog' = prog, CalleeMap' = CalleeMap, AllocMap' = AllocMap,
         NEW H, History(H), NEW s, SummaryOK(prog, CalleeMap, AllocMap, H, s), NEW K, K = H \cup {s}
  PROVE  /\ Later(prog, CalleeMap, AllocMap, H, CalleeMap', AllocMap', K)
         /\ HistoryOK(prog, CalleeMap', AllocMap', K)
  <1>1. Later(prog, CalleeMap, AllocMap, H, CalleeMap', AllocMap', K)
    BY DEF Later, MoreLinks, Prolongs
  <1>2. IsModule(prog)
    BY ReadyShape
  <1>3. \A t \in K : SummaryOK(prog, CalleeMap, AllocMap, H, t)
    BY DEF History, HistoryOK
  <1>4. \A t \in K : SummaryOK(prog, CalleeMap', AllocMap', K, t)
    BY <1>1, <1>2, <1>3, SummaryMore
  <1> QED
    BY <1>1, <1>4 DEF HistoryOK

LEMMA HistoryLeaveCallee ==
  ASSUME Ready, TInv', LeaveCallee, NEW H, History(H)
  PROVE  \E K : History(K)'
  <1>1. /\ TInv /\ IsModule(prog) /\ prog \in Program /\ prog' = prog /\ next' = next /\ result' = result
        /\ CalleeMap' = CalleeMap /\ AllocMap' = AllocMap
        /\ Top.bb = NoBlock /\ Top.worklist = {} /\ Running
    BY ReadyShape DEF LeaveCallee, Running
  <1>2. PICK n \in Nat \ {0} :
            /\ DOMAIN stack = 1 .. n + 1 /\ Len(stack) = n + 1 /\ Top = stack[n + 1]
            /\ DOMAIN stack' = 1 .. n /\ Len(stack') = n
            /\ \A i \in 1 .. n - 1 : stack'[i] = stack[i]
            /\ stack'[n].worklist = stack[n].worklist /\ stack'[n].fn = stack[n].fn
            /\ stack'[n].dfval = stack[n].dfval
            /\ stack'[n].bb = stack[n].bb /\ stack'[n].ii = stack[n].ii
            /\ stack'[n].calling = stack[n].calling /\ stack'[n].todo = stack[n].todo
            /\ stack'[n].out = Merge(stack[n].out, ExitFacts(Top.fn))
    BY <1>1, Popped
  <1>3. /\ (n + 1) - 1 = n /\ n \in 1 .. n + 1 /\ n + 1 \in 1 .. n + 1 /\ n + 1 # 1 /\ n # n + 1
        /\ \A i \in 1 .. n : (i \in 1 .. n - 1 \/ i = n) /\ i \in 1 .. n + 1 /\ i # n + 1
        /\ \A i \in 1 .. n - 1 : i \in 1 .. n /\ i + 1 \in 1 .. n /\ i # n /\ i # n + 1
        /\ \A i \in 1 .. n : i # 1 => i - 1 \in 1 .. n - 1
        /\ 1 \in 1 .. n
    OBVIOUS
  <1>4. /\ stack[n] \in Frame /\ FrameOK(stack[n]) /\ StandsAt(prog, stack[n])
        /\ Top \in Frame /\ FrameOK(Top) /\ Top.fn \in Func /\ Top.fn # "malloc"
        /\ Calls(prog, CalleeMap, stack[n], Top.fn)
    <2>1. Top.fn # "malloc"
      BY <1>2, <1>3 DEF Ready, Steps, CallInv, CalleesHaveBodies
    <2>2. Calls(prog, CalleeMap, stack[n], Top.fn)
      BY <1>2, <1>3 DEF Ready, Steps, NestInv, CallersCall
    <2> QED
      BY <1>1, <1>2, <1>3, <2>1, <2>2, ReadyShape, StackShape DEF Frame
  <1> DEFINE i == InstOf(prog, stack[n])
  <1>5. prog.entry[Top.fn] \in prog.block[Top.fn]
    BY <1>1, <1>4, ModuleShape
  <1>6. PICK s : SummaryOK(prog, CalleeMap, AllocMap, H, s) /\ Left(s)
    BY <1>1, <1>5, TopSummary
  <1>7. PICK K : K = H \cup {s}
    OBVIOUS
  <1>8. /\ Later(prog, CalleeMap, AllocMap, H, CalleeMap', AllocMap', K)
        /\ HistoryOK(prog, CalleeMap', AllocMap', K)
    BY <1>1, <1>6, <1>7, OneMore
  <1>9. Kept
    BY <1>1 DEF Kept, Grows
  <1>10. \A k \in 1 .. n : From(prog, stack', k) = From(prog, stack, k) /\ stack'[k].fn = stack[k].fn
    <2>1. \A k \in 1 .. n : k # 1 => stack'[k - 1] = stack[k - 1]
      BY <1>2, <1>3
    <2>2. \A k \in 1 .. n : From(prog, stack', k) = From(prog, stack, k)
      BY <2>1 DEF From
    <2> QED
      BY <1>2, <1>3, <2>2
  <1>11. ASSUME NEW k \in 1 .. n - 1
         PROVE  ActivationOf(prog, CalleeMap', AllocMap', K, result', From(prog, stack', k), stack'[k], Into(stack', k))
    <2>1. ActivationOf(prog, CalleeMap', AllocMap', K, result', From(prog, stack, k), stack[k], Into(stack, k))
      BY <1>1, <1>2, <1>3, <1>8, <1>9, FrameActive
    <2>2. Into(stack', k) = Into(stack, k)
      BY <1>2, <1>3, <1>10 DEF Into
    <2> QED
      BY <1>2, <1>3, <1>10, <2>1, <2>2
  <1> DEFINE R == From(prog, stack, n)
  <1>12. /\ stack[n].calling /\ stack[n].bb # NoBlock /\ i.op = "call" /\ Top.fn \in CalleeMap[i.dst]
         /\ InstOf(prog, stack'[n]) = i /\ i \in InstsOf(prog)
    BY <1>2, <1>4 DEF Calls, StandsAt, InstOf
  <1>13. i.dst \in s.callers
    BY <1>2, <1>3, <1>6 DEF Left, From
  <1>14. ActivationOf(prog, CalleeMap, AllocMap, K, result, R, stack[n], {Top.fn})
    <2>1. Into(stack, n) = {Top.fn}
      BY <1>2, <1>3 DEF Into
    <2>2. n \in DOMAIN stack /\ \A b \in prog.block[stack[n].fn] : result'[b] = result[b]
      BY <1>1, <1>2, <1>3
    <2>3. ActivationOf(prog, CalleeMap', AllocMap', K, result', R, stack[n], Into(stack, n))
      BY <1>8, <1>9, <2>2, FrameActive
    <2> QED
      BY <1>1, <2>1, <2>3
  <1>15. /\ AllKept(prog, stack[n].out, stack'[n].out) /\ Gives(prog, s, stack'[n].out)
    <2>1. stack[n].out \in Facts /\ ExitFacts(Top.fn) \in Facts
      BY <1>1, <1>4, ExitFactsOK DEF Frame, FrameOK
    <2>2. \A v \in prog.value : stack'[n].out[v] = stack[n].out[v] \cup ExitFacts(Top.fn)[v]
      BY <1>2, <2>1 DEF Merge, Facts
    <2>3. prog.exit[Top.fn] # NoBlock =>
            /\ ExitFacts(Top.fn) = result[prog.exit[Top.fn]].second
            /\ prog.exit[Top.fn] \in prog.block[Top.fn]
      BY <1>1, <1>4 DEF ExitFacts, IsModule, Func
    <2> QED
      BY <1>6, <2>2, <2>3 DEF AllKept, Gives, Left
  <1>16. ASSUME NEW S, LoopOK(prog, CalleeMap, AllocMap, K, result, stack[n], i, S, {Top.fn})
         PROVE  LoopOK(prog, CalleeMap, AllocMap, K, result, stack'[n], i, S, {})
    <2>1. ASSUME NEW g, Finds(prog, S, Called(i), g)
          PROVE  g \in CalleeMap[i.dst] /\ Handled(prog, CalleeMap, AllocMap, K, result, stack'[n], i, S, {}, g)
      <3>1. g \in CalleeMap[i.dst] /\ Handled(prog, CalleeMap, AllocMap, K, result, stack[n], i, S, {Top.fn}, g)
        BY <1>16, <2>1 DEF LoopOK
      <3>2. CASE g = Top.fn /\ Given(prog, CalleeMap, i, S, result[prog.entry[g]].first, g)
        <4>1. s.at[prog.entry[g]][1] = result[prog.entry[g]].first /\ s.fn = g /\ s \in K
          BY <1>5, <1>6, <1>7, <3>2 DEF Left
        <4>2. Summarised(prog, CalleeMap, K, i, S, stack'[n].out, g)
          BY <1>13, <1>15, <3>2, <4>1 DEF Summarised
        <4> QED
          BY <1>4, <3>1, <3>2, <4>2 DEF Handled
      <3>3. CASE g # "malloc" /\ Summarised(prog, CalleeMap, K, i, S, stack[n].out, g)
        <4>1. \A t : Gives(prog, t, stack[n].out) => Gives(prog, t, stack'[n].out)
          BY <1>15 DEF Gives, AllKept
        <4>2. Summarised(prog, CalleeMap, K, i, S, stack'[n].out, g)
          BY <3>3, <4>1 DEF Summarised
        <4> QED
          BY <3>1, <3>3, <4>2 DEF Handled
      <3>4. CASE g \in stack[n].todo \/ (g = "malloc" /\ SiteKnown(AllocMap, i.dst, stack[n].dfval))
        BY <1>2, <3>1, <3>4 DEF Handled
      <3> QED
        BY <3>1, <3>2, <3>3, <3>4 DEF Handled
    <2>2. ~(CalleeMap[i.dst] \subseteq {"malloc"})
      BY <1>4, <1>12
    <2> HIDE DEF i
    <2> QED
      BY <1>2, <1>16, <2>1, <2>2 DEF LoopOK
  <1>17. ActivationOf(prog, CalleeMap', AllocMap', K, result', From(prog, stack', n), stack'[n], Into(stack', n))
    <2>1. From(prog, stack', n) = R /\ Into(stack', n) = {}
      BY <1>2, <1>3, <1>10 DEF Into
    <2>2. SolvedSoFar(prog, CalleeMap, AllocMap, K, result, R, stack'[n], {})
      <3>1. PICK tr : /\ Runs(prog, CalleeMap, AllocMap, K, R, stack[n].bb, tr, stack[n].ii)
                      /\ tr[1] = result[stack[n].bb].first
                      /\ LoopOK(prog, CalleeMap, AllocMap, K, result, stack[n], i, tr[stack[n].ii], {Top.fn})
        BY <1>12, <1>14 DEF ActivationOf, SolvedSoFar
      <3>2. LoopOK(prog, CalleeMap, AllocMap, K, result, stack'[n], i, tr[stack[n].ii], {})
        BY <1>16, <3>1
      <3> HIDE DEF i
      <3> QED
        BY <1>2, <1>12, <3>1, <3>2 DEF SolvedSoFar
    <2>3. \A c \in prog.block[stack'[n].fn] \ (stack'[n].worklist \cup {stack'[n].bb}) :
             Solved(prog, CalleeMap, AllocMap, K, result, R, c)
      BY <1>2, <1>14 DEF ActivationOf
    <2> QED
      BY <1>1, <2>1, <2>2, <2>3 DEF ActivationOf
  <1>18. Activations(K)'
    BY <1>1, <1>2, <1>3, <1>11, <1>17 DEF Activations
  <1>19. Past(K)'
    <2>1. Running' /\ stack'[1].fn = stack[1].fn
      BY <1>2, <1>3, <1>10 DEF Running
    <2> QED
      BY <1>1, <1>7, <2>1 DEF History, Past
  <1> QED
    BY <1>1, <1>8, <1>18, <1>19 DEF History

\* The loop of runOnModule has come past one function more.
LEMMA HistoryFinishFunction ==
  ASSUME Ready, TInv', FinishFunction, NEW H, History(H)
  PROVE  \E K : History(K)'
  <1>1. /\ TInv /\ prog' = prog /\ next' = next /\ result' = result
        /\ CalleeMap' = CalleeMap /\ AllocMap' = AllocMap
        /\ Top.bb = NoBlock /\ Top.worklist = {} /\ Running /\ stack' = <<>> /\ Top = stack[1]
    BY ReadyShape DEF FinishFunction, Running, Top
  <1>2. ~Running' /\ DOMAIN stack' = {}
    BY <1>1 DEF Running
  <1>3. CASE prog.block[Top.fn] = {}
    <2>1. HistoryOK(prog, CalleeMap', AllocMap', H)
      BY <1>1 DEF History
    <2>2. Activations(H)'
      BY <1>2 DEF Activations
    <2>3. Past(H)'
      BY <1>1, <1>3 DEF Past, History
    <2>4. History(H)'
      BY <1>1, <2>1, <2>2, <2>3 DEF History
    <2> QED
      BY <2>4
  <1>4. CASE prog.block[Top.fn] # {}
    <2>1. PICK s : SummaryOK(prog, CalleeMap, AllocMap, H, s) /\ Left(s)
      BY <1>1, <1>4, TopSummary
    <2>2. PICK K : K = H \cup {s}
      OBVIOUS
    <2>3. HistoryOK(prog, CalleeMap', AllocMap', K)
      BY <1>1, <2>1, <2>2, OneMore
    <2>4. Activations(K)'
      BY <1>2 DEF Activations
    <2>5. Past(K)'
      <3>1. s \in K /\ s.fn = stack[1].fn
        BY <1>1, <2>1, <2>2 DEF Left
      <3> QED
        BY <1>1, <2>2, <3>1 DEF Past, History
    <2>6. History(K)'
      BY <1>1, <2>3, <2>4, <2>5 DEF History
    <2> QED
      BY <2>6
  <1> QED
    BY <1>3, <1>4

LEMMA HistoryStartFunction ==
  ASSUME Ready, TInv', StartFunction, NEW H, History(H)
  PROVE  History(H)'
  <1>1. /\ TInv /\ prog' = prog /\ next' = next + 1 /\ ~Running /\ next \in Nat
        /\ CalleeMap' = CalleeMap /\ AllocMap' = AllocMap /\ stack' = <<Activation(prog.fun[next])>>
    BY ReadyShape DEF StartFunction, TInv, TypeOK
  <1>2. /\ DOMAIN stack' = {1} /\ stack'[1].fn = prog.fun[next] /\ stack'[1].bb = NoBlock
        /\ stack'[1].worklist = prog.block[prog.fun[next]] /\ Running'
    BY <1>1 DEF Activation, Running
  <1>3. Activations(H)'
    BY <1>1, <1>2 DEF Activations, ActivationOf
  <1>4. Past(H)'
    <2>1. \A n \in 1 .. next' - 1 : n \in 1 .. next - 1 \/ n = next
      BY <1>1
    <2> QED
      BY <1>1, <1>2, <2>1 DEF Past, History
  <1>5. HistoryOK(prog, CalleeMap', AllocMap', H)
    BY <1>1 DEF History
  <1> QED
    BY <1>1, <1>3, <1>4, <1>5 DEF History

-----------------------------------------------------------------------------
(***************************************************************************)
(* A position is an instruction of its block or the end; links are known   *)
(* to both sides.                                                          *)
(***************************************************************************)
\* The running activation stays where it is or goes one on.
StepsOn(fr) ==
    \/ fr.bb = NoBlock
    \/ fr.bb = Top.bb /\ fr.ii = Top.ii
    \/ fr.bb = Top.bb /\ fr.ii = Top.ii + 1 /\ Top.ii <= Len(prog.code[Top.bb])

LEMMA BoundsReplaced ==
  ASSUME TInv, InBounds, Running, prog' = prog, NEW fr, SetTop(fr), StepsOn(fr)
  PROVE  InBounds'
  <1>1. /\ Replaced(fr) /\ Len(stack) \in DOMAIN stack /\ Top = stack[Len(stack)]
        /\ Top \in Frame /\ FrameOK(Top) /\ IsModule(prog) /\ prog \in Program
    BY SetTopReplaces, TopInStack, TopOK, ModuleShape DEF TInv, TypeOK
  <1>2. fr.bb # NoBlock => fr.ii <= End(prog, fr.bb)
    <2>1. CASE fr.bb = Top.bb /\ fr.ii = Top.ii /\ fr.bb # NoBlock
      BY <1>1, <2>1 DEF InBounds
    <2>2. CASE fr.bb = Top.bb /\ fr.ii = Top.ii + 1 /\ Top.ii <= Len(prog.code[Top.bb]) /\ fr.bb # NoBlock
      <3>1. Top.bb \in BlocksOf(prog) /\ Top.ii \in Nat
        BY <1>1, <2>2, ModuleShape DEF Frame, FrameOK, Blocks
      <3>2. Len(prog.code[Top.bb]) \in Nat
        BY <1>1, <3>1, BlockInsts
      <3> QED
        BY <2>2, <3>1, <3>2 DEF End
    <2> QED
      BY <2>1, <2>2 DEF StepsOn
  <1> QED
    BY <1>1, <1>2 DEF InBounds, Replaced

LEMMA NextInBounds ==
  ASSUME TInv, InBounds, [Next]_vars
  PROVE  InBounds'
  <1>1. prog' = prog /\ prog \in Program
    BY Frozen DEF TInv, TypeOK
  <1>2. ASSUME Running PROVE Top \in Frame /\ FrameOK(Top)
    BY <1>2, TopOK
  <1>3. CASE ProcessInst
    <2>1. PICK S : SetTop([Top EXCEPT !.dfval = S, !.ii = @ + 1])
      BY <1>3, Zenon DEF ProcessInst
    <2> DEFINE fr == [Top EXCEPT !.dfval = S, !.ii = @ + 1]
    <2>2. SetTop(fr) /\ Running /\ Top.ii <= Len(prog.code[Top.bb])
      BY <1>3, <2>1 DEF ProcessInst, AtInst, InBlock
    <2>3. fr.bb = Top.bb /\ fr.ii = Top.ii + 1
      BY <1>2, <2>2 DEF Frame
    <2> HIDE DEF fr
    <2> QED
      BY <1>1, <2>2, <2>3, BoundsReplaced DEF StepsOn
  <1>4. CASE ProcessAlloca
    <2> DEFINE fr == [Top EXCEPT !.dfval[Inst.dst] = {SiteOf(Inst.dst)}, !.ii = @ + 1]
    <2>1. SetTop(fr) /\ Running /\ Top.ii <= Len(prog.code[Top.bb])
      BY <1>4 DEF ProcessAlloca, AtInst, InBlock
    <2>2. fr.bb = Top.bb /\ fr.ii = Top.ii + 1
      BY <1>2, <2>1 DEF Frame
    <2> HIDE DEF fr
    <2> QED
      BY <1>1, <2>1, <2>2, BoundsReplaced DEF StepsOn
  <1>5. CASE BeginCall
    <2> DEFINE skip == [Top EXCEPT !.ii = @ + 1]
               begin == [Top EXCEPT !.calling = TRUE, !.todo = CalleeMap'[Inst.dst], !.out = NoFacts]
    <2>1. (SetTop(skip) \/ SetTop(begin)) /\ Running /\ Top.ii <= Len(prog.code[Top.bb])
      BY <1>5 DEF BeginCall, AtInst, InBlock
    <2>2. skip.bb = Top.bb /\ skip.ii = Top.ii + 1 /\ begin.bb = Top.bb /\ begin.ii = Top.ii
      BY <1>2, <2>1 DEF Frame
    <2> HIDE DEF skip, begin
    <2> QED
      BY <1>1, <2>1, <2>2, BoundsReplaced DEF StepsOn
  <1>6. CASE BeginMemCpy
    <2> DEFINE fr == [Top EXCEPT !.calling = TRUE, !.out = NoFacts,
                          !.todo = IF Top.dfval[Inst.src[1]] = {} THEN {} ELSE Top.dfval[Inst.dst]]
    <2>1. SetTop(fr) /\ Running
      BY <1>6 DEF BeginMemCpy, AtInst, InBlock
    <2>2. fr.bb = Top.bb /\ fr.ii = Top.ii
      BY <1>2, <2>1 DEF Frame
    <2> HIDE DEF fr
    <2> QED
      BY <1>1, <2>1, <2>2, BoundsReplaced DEF StepsOn
  <1>7. ASSUME NEW x \in prog.value, CopyTo(x) PROVE InBounds'
    <2>1. PICK S : SetTop([Top EXCEPT !.dfval = S, !.todo = @ \ {x}])
      BY <1>7, Zenon DEF CopyTo
    <2> DEFINE fr == [Top EXCEPT !.dfval = S, !.todo = @ \ {x}]
    <2>2. SetTop(fr) /\ Running
      BY <1>7, <2>1 DEF CopyTo
    <2>3. fr.bb = Top.bb /\ fr.ii = Top.ii
      BY <1>2, <2>2 DEF Frame
    <2> HIDE DEF fr
    <2> QED
      BY <1>1, <2>2, <2>3, BoundsReplaced DEF StepsOn
  <1>8. CASE CallMalloc
    <2> DEFINE fr == [Top EXCEPT !.dfval[Inst.dst] = {SiteOf(Inst.dst)}, !.todo = @ \ {"malloc"}]
    <2>1. SetTop(fr) /\ Running
      BY <1>8 DEF CallMalloc, Calling
    <2>2. fr.bb = Top.bb /\ fr.ii = Top.ii
      BY <1>2, <2>1 DEF Frame
    <2> HIDE DEF fr
    <2> QED
      BY <1>1, <2>1, <2>2, BoundsReplaced DEF StepsOn
  <1>9. CASE EndCall
    <2> DEFINE fr == [Top EXCEPT !.dfval = AfterCall, !.calling = FALSE, !.ii = @ + 1, !.out = NoFacts]
    <2>1. SetTop(fr) /\ Running /\ Top.calling
      BY <1>9 DEF EndCall
    <2>2. fr.bb = Top.bb /\ fr.ii = Top.ii + 1 /\ Top.ii <= Len(prog.code[Top.bb])
      BY <1>2, <2>1 DEF Frame, FrameOK
    <2> HIDE DEF fr
    <2> QED
      BY <1>1, <2>1, <2>2, BoundsReplaced DEF StepsOn
  <1>10. CASE FinishBlock
    <2> DEFINE quiet == [Top EXCEPT !.bb = NoBlock, !.dfval = NoFacts]
               more == [Top EXCEPT !.worklist = @ \cup Requeue(Top.bb), !.bb = NoBlock, !.dfval = NoFacts]
    <2>1. (SetTop(quiet) \/ SetTop(more)) /\ Running
      BY <1>10 DEF FinishBlock, InBlock
    <2>2. quiet.bb = NoBlock /\ more.bb = NoBlock
      BY <1>2, <2>1 DEF Frame
    <2> HIDE DEF quiet, more
    <2> QED
      BY <1>1, <2>1, <2>2, BoundsReplaced DEF StepsOn
  <1>11. ASSUME NEW b \in Blocks, TakeBlock(b) PROVE InBounds'
    <2> DEFINE fr == [Top EXCEPT !.worklist = @ \ {b}, !.bb = b, !.ii = 1, !.dfval = MergePreds(b)]
    <2>1. SetTop(fr) /\ Running
      BY <1>11 DEF TakeBlock
    <2>2. fr.bb = b /\ fr.ii = 1
      BY <1>2, <2>1 DEF Frame
    <2>3. Len(prog.code[b]) \in Nat
      BY <1>1, <1>11, BlockInsts, ModuleShape DEF Blocks
    <2>4. fr.ii <= End(prog, fr.bb)
      BY <2>2, <2>3 DEF End
    <2> HIDE DEF fr
    <2>5. Replaced(fr)
      BY <2>1, SetTopReplaces
    <2> QED
      BY <1>1, <2>4, <2>5 DEF InBounds, Replaced
  <1>12. ASSUME NEW f \in Func, EnterCallee(f) PROVE InBounds'
    <2>1. PICK n \in Nat \ {0}, fr \in Frame :
            /\ n = Len(stack) /\ DOMAIN stack = 1 .. n
            /\ fr.bb = Top.bb /\ fr.ii = Top.ii
            /\ DOMAIN stack' = 1 .. n + 1
            /\ \A i \in 1 .. n - 1 : stack'[i] = stack[i]
            /\ stack'[n] = fr
            /\ stack'[n + 1] = Activation(f)
      BY <1>12, EnterStack
    <2>2. /\ \A i \in 1 .. n + 1 : i \in 1 .. n - 1 \/ i = n \/ i = n + 1
          /\ \A i \in 1 .. n - 1 : i \in 1 .. n
          /\ n \in 1 .. n /\ Top = stack[n] /\ stack'[n + 1].bb = NoBlock
      BY <2>1 DEF Top, Activation
    <2> QED
      BY <1>1, <2>1, <2>2 DEF InBounds
  <1>13. CASE LeaveCallee
    <2>1. PICK n \in Nat \ {0} :
            /\ DOMAIN stack = 1 .. n + 1
            /\ DOMAIN stack' = 1 .. n
            /\ \A i \in 1 .. n - 1 : stack'[i] = stack[i]
            /\ stack'[n].bb = stack[n].bb /\ stack'[n].ii = stack[n].ii
      BY <1>13, Popped
    <2>2. \A i \in 1 .. n : (i \in 1 .. n - 1 \/ i = n) /\ i \in 1 .. n + 1
      OBVIOUS
    <2> QED
      BY <1>1, <2>1, <2>2 DEF InBounds
  <1>14. CASE StartFunction
    <2>1. DOMAIN stack' = {1} /\ stack'[1].bb = NoBlock
      BY <1>14 DEF StartFunction, Activation
    <2> QED
      BY <2>1 DEF InBounds
  <1>15. CASE FinishFunction
    <2>1. DOMAIN stack' = {}
      BY <1>15 DEF FinishFunction
    <2> QED
      BY <2>1 DEF InBounds
  <1>16. CASE UNCHANGED vars
    BY <1>16 DEF InBounds, vars
  <1> QED
    BY <1>3, <1>4, <1>5, <1>6, <1>7, <1>8, <1>9, <1>10, <1>11, <1>12, <1>13, <1>14, <1>15, <1>16
    DEF Next, Finished

LEMMA NextMirrored ==
  ASSUME TInv, Mirrored, [Next]_vars
  PROVE  Mirrored'
  <1>1. prog' = prog /\ CallSites' = CallSites
    BY Frozen, FrozenSets
  <1>2. CASE BeginCall
    <2>1. CalleeMap \in [CallSites -> SUBSET Func] /\ Inst.dst \in CallSites
      BY <1>2, InstOK DEF BeginCall, TInv, TypeOK
    <2>2. PICK L : L = Linked(Inst)
      OBVIOUS
    <2>3. /\ CalleeMap' = [CalleeMap EXCEPT ![Inst.dst] = @ \cup L]
          /\ CallerMap' = [f \in Func |-> IF f \in L THEN CallerMap[f] \cup {Inst.dst} ELSE CallerMap[f]]
      BY <1>2, <2>2 DEF BeginCall
    <2>4. L \subseteq Func
      BY <2>2 DEF Linked
    <2>5. ASSUME NEW c \in CallSites, NEW f \in CalleeMap'[c] PROVE c \in CallerMap'[f]
      <3>1. f \in Func /\ (f \in CalleeMap[c] \/ (c = Inst.dst /\ f \in L))
        BY <2>1, <2>3, <2>4, <2>5
      <3> QED
        BY <2>3, <3>1 DEF Mirrored
    <2> QED
      BY <1>1, <2>5 DEF Mirrored
  <1>3. CASE ~BeginCall
    <2>1. CalleeMap' = CalleeMap /\ CallerMap' = CallerMap
      BY <1>3, Zenon
         DEF Next, vars, Finished, StartFunction, TakeBlock, ProcessInst, ProcessAlloca, BeginMemCpy,
             CopyTo,
         CallMalloc, EnterCallee, LeaveCallee, EndCall, FinishBlock, FinishFunction
    <2> QED
      BY <1>1, <2>1 DEF Mirrored
  <1> QED
    BY <1>2, <1>3

LEMMA NextSteps ==
  ASSUME Steps, [Next]_vars
  PROVE  Steps'
  BY NextEdgeInv, NextCallInv, NextNestInv, NextSiteInv, NextInBounds, NextMirrored DEF Steps, EdgeInv

LEMMA NoCopies ==
  ASSUME Ready
  PROVE  ~BeginMemCpy /\ \A x \in prog.value : ~CopyTo(x)
  <1>1. ASSUME Running, Top.bb # NoBlock, Top.ii <= Len(prog.code[Top.bb]), Inst.op = "memcpy"
        PROVE  FALSE
    <2>1. /\ TInv /\ IsModule(prog) /\ Top.bb \in BlocksOf(prog) /\ Top.ii \in DOMAIN prog.code[Top.bb]
      <3>1. TInv /\ IsModule(prog) /\ Top \in Frame /\ FrameOK(Top) /\ prog \in Program
        BY <1>1, ReadyShape, TopOK
      <3>2. Top.bb \in BlocksOf(prog) /\ Top.ii \in Nat \ {0}
        BY <1>1, <3>1, ModuleShape DEF Frame, FrameOK, Blocks
      <3> QED
        BY <1>1, <3>1, <3>2, BlockInsts
    <2>2. Inst \in CodeOf(prog, Top.bb)
      BY <2>1 DEF CodeOf, Inst
    <2> QED
      BY <1>1, <2>1, <2>2 DEF Ready, Tractable, WithinReach, OneObjectPerSite
  <1>2. ~BeginMemCpy
    BY <1>1 DEF BeginMemCpy, AtInst, InBlock
  <1>3. ASSUME NEW x \in prog.value, CopyTo(x) PROVE FALSE
    <2>1. Top \in Frame /\ FrameOK(Top)
      BY <1>3, ReadyShape, TopOK DEF CopyTo
    <2> QED
      BY <1>1, <1>3, <2>1 DEF CopyTo, FrameOK
  <1> QED
    BY <1>2, <1>3

LEMMA HistoryStutter ==
  ASSUME UNCHANGED vars, NEW H, History(H)
  PROVE  History(H)'
  BY DEF vars, History, Past, Activations, Running

\* The facts the analysis has gone through stay justified.
LEMMA NextSound ==
  ASSUME Sound, Tractable, Tractable', [Next]_vars
  PROVE  Sound'
  <1>1. Ready /\ Ready' /\ Steps' /\ TInv'
    BY NextSteps DEF Sound, Ready, Steps, EdgeInv
  <1>2. PICK H : History(H)
    BY DEF Sound
  <1>3. \E K : History(K)'
    BY <1>1, <1>2, NoCopies, HistoryStutter, HistoryStartFunction, HistoryTakeBlock, HistoryProcessInst,
       HistoryProcessAlloca, HistoryBeginCall, HistoryCallMalloc, HistoryEnterCallee, HistoryLeaveCallee,
       HistoryEndCall, HistoryFinishBlock, HistoryFinishFunction
    DEF Next, Finished
  <1> QED
    BY <1>1, <1>3 DEF Sound, Steps

-----------------------------------------------------------------------------
(***************************************************************************)
(* A run. Values, the registers' contents and the objects, of a run with m *)
(* objects: no function called malloc is kept anywhere.                    *)
(***************************************************************************)
KeptValues(p, m) ==
    {M!Undefined} \cup {M!Address(o, M!FirstField) : o \in 1 .. m}
    \cup {M!Fun(f) : f \in FuncsOf(p) \ {"malloc"}}
Envs(p, m) == UNION {[D -> KeptValues(p, m)] : D \in SUBSET p.value}
Invocation(p, m) ==
    [fn : FuncsOf(p), block : BlocksOf(p), from : BlocksOf(p) \cup {""}, pos : Nat \ {0},
     env : Envs(p, m)]
Object(p, m) == [{M!FirstField} -> KeptValues(p, m)]

\* An invocation stands in a block of its function and has registers of it.
InPlace(p, fr) ==
    /\ fr.fn \in DOMAIN p.entry
    /\ fr.block \in p.block[fr.fn]
    /\ fr.pos <= End(p, fr.block)
    /\ DOMAIN fr.env \subseteq Registers(p, fr.fn)

\* al names the allocation each object comes from. By the facts S, v may be x.
Known(A, al, S, v, x) ==
    /\ M!IsFun(x) => x.at \in S[v]
    /\ M!IsAddress(x) => A[al[x.object]] \in S[v]

\* What a function's name, a register or a site holds.
Holds(p, A, al, fs, mem, v, x) ==
    \/ v \in FuncsOf(p) /\ x = M!Fun(v)
    \/ \E k \in DOMAIN fs : v \in DOMAIN fs[k].env /\ x = fs[k].env[v]
    \/ \E o \in DOMAIN mem : v = A[al[o]] /\ x = mem[o][M!FirstField]

\* The facts S know all that is held.
Cover(p, A, al, fs, mem, S) ==
    \A v, x : Holds(p, A, al, fs, mem, v, x) => Known(A, al, S, v, x)

\* The objects come from different allocations, all in the entry of the first function.
AllocatedBy(p, fr, v) ==
    \E k \in DOMAIN p.code[p.entry[fr.fn]] :
        /\ Allocates(p.code[p.entry[fr.fn]][k]) /\ p.code[p.entry[fr.fn]][k].dst = v
        /\ fr.block = p.entry[fr.fn] => k < fr.pos
Sited(p, A, fs, mem, al) ==
    /\ DOMAIN al = DOMAIN mem
    /\ \A o \in DOMAIN mem : al[o] \in DOMAIN A
    /\ \A o, q \in DOMAIN mem : al[o] = al[q] => o = q
    /\ \A o \in DOMAIN mem : AllocatedBy(p, fs[1], al[o])

\* The invocation fr, which goes by the summary s, waits for g, which goes by t.
Awaits(p, C, s, t, fr, g) ==
    /\ fr.pos \in DOMAIN p.code[fr.block]
    /\ p.code[fr.block][fr.pos].op = "call"
    /\ g \in C[p.code[fr.block][fr.pos].dst] \ {"malloc"}
    /\ p.code[fr.block][fr.pos].dst \in t.callers
    /\ Gives(p, t, s.at[fr.block][fr.pos + 1])

\* What the summary s has where the invocation fr stands.
FactsAt(s, fr) == s.at[fr.block][fr.pos]

\* The values, the frames and the objects are of the right kinds.
Shaped(p, fs, mem) ==
    /\ mem \in Seq(Object(p, Len(mem)))
    /\ fs \in Seq(Invocation(p, Len(mem)))
    /\ \A k \in DOMAIN fs : InPlace(p, fs[k])
    /\ fs = <<>> => mem = <<>>
\* Each invocation has a summary of its function, and waits for the next one by it.
Followed(p, C, H, fs, ss) ==
    /\ DOMAIN ss = DOMAIN fs
    /\ \A k \in DOMAIN fs : ss[k] \in H /\ ss[k].fn = fs[k].fn
    /\ \A k \in 1 .. Len(fs) - 1 : Awaits(p, C, ss[k], ss[k + 1], fs[k], fs[k + 1].fn)
\* The run is as far as the summaries ss and the allocations al say.
RunOK(p, C, A, H, fs, mem, al, ss) ==
    /\ Shaped(p, fs, mem)
    /\ Sited(p, A, fs, mem, al)
    /\ Followed(p, C, H, fs, ss)
    /\ fs # <<>> => Cover(p, A, al, fs, mem, FactsAt(ss[Len(fs)], fs[Len(fs)]))

\* What the analysis has come to: everything it relies on, for the module p.
Leads(p, C, f, g) ==
    \E b \in p.block[f] : \E k \in DOMAIN p.code[b] :
        p.code[b][k].op = "call" /\ g \in C[p.code[b][k].dst]
NoRound(p, C) == \A X \in (SUBSET FuncsOf(p)) \ {{}} : \E f \in X : \A g \in X : ~Leads(p, C, f, g)
Fits(p, C) ==
    \A i \in InstsOf(p) : i.op = "call" =>
        \A f \in C[i.dst] \ {"malloc"} : DOMAIN i.src \subseteq DOMAIN p.param[f]
Uncalled(p, C) ==
    \A f \in FuncsOf(p) : (\E b \in p.block[f] : \E i \in CodeOf(p, b) : Allocates(i)) =>
        \A i \in InstsOf(p) : i.op = "call" => f \notin C[i.dst]
Fit(p, C, A, H) ==
    /\ IsModule(p) /\ IsRunnable(p) /\ OneObjectPerSite(p) /\ "" \notin FuncsOf(p)
    /\ HistoryOK(p, C, A, H)
    /\ \A f \in DOMAIN p.entry : \E s \in H : s.fn = f
    /\ \A v \in DOMAIN A : A[v] \in {p.constant[n] : n \in DOMAIN p.constant}
    /\ \A v, w \in DOMAIN A : A[v] = A[w] => v = w
    /\ \A i \in InstsOf(p) : i.op = "call" => C[i.dst] \subseteq FuncsOf(p)
    /\ NoRound(p, C) /\ Fits(p, C) /\ Uncalled(p, C)

-----------------------------------------------------------------------------
\* Functions, registers and sites are different values.
LEMMA Kinds ==
  ASSUME NEW p, NEW C, NEW A, NEW H, Fit(p, C, A, H)
  PROVE  /\ FuncsOf(p) \subseteq p.value
         /\ \A f \in FuncsOf(p) : Registers(p, f) \subseteq p.value \ FuncsOf(p)
         /\ \A f, g \in FuncsOf(p) : f # g => Registers(p, f) \cap Registers(p, g) = {}
         /\ \A v \in DOMAIN A : /\ A[v] \in p.value \ FuncsOf(p)
                                /\ \A f \in FuncsOf(p) : A[v] \notin Registers(p, f)
  <1>0. p.fun \in Seq(p.value) /\ p.constant \in Seq(p.value)
    BY Zenon DEF Fit, IsModule
  <1>1. FuncsOf(p) \subseteq p.value
    BY <1>0 DEF FuncsOf
  <1>2. ASSUME NEW v \in DOMAIN A
        PROVE  /\ A[v] \in p.value \ FuncsOf(p)
               /\ \A f \in FuncsOf(p) : A[v] \notin Registers(p, f)
    <2>1. PICK n \in DOMAIN p.constant : A[v] = p.constant[n]
      BY Zenon DEF Fit
    <2>2. p.constant[n] \in p.value
      BY <1>0
    <2>3. p.constant[n] \notin FuncsOf(p) \cup UNION {Registers(p, f) : f \in FuncsOf(p)}
      BY Zenon DEF Fit, OneObjectPerSite
    <2> QED
      BY <2>1, <2>2, <2>3
  <1> QED
    BY <1>1, <1>2, Zenon DEF Fit, IsRunnable

\* What holds something is a value of the module.
LEMMA HolderKinds ==
  ASSUME NEW p, NEW C, NEW A, NEW H, Fit(p, C, A, H), NEW fs, NEW mem, NEW al,
         Shaped(p, fs, mem), Sited(p, A, fs, mem, al), NEW v, NEW x,
         Holds(p, A, al, fs, mem, v, x)
  PROVE  v \in p.value
  <1>1. CASE \E k \in DOMAIN fs : v \in DOMAIN fs[k].env
    <2>1. PICK k \in DOMAIN fs : v \in DOMAIN fs[k].env
      BY <1>1
    <2>2. InPlace(p, fs[k]) /\ fs[k].fn \in FuncsOf(p)
      BY Zenon DEF Shaped, InPlace, Fit, IsRunnable
    <2> QED
      BY <2>1, <2>2, Kinds DEF InPlace
  <1>2. CASE \E o \in DOMAIN mem : v = A[al[o]]
    BY <1>2, Kinds DEF Sited
  <1> QED
    BY <1>1, <1>2, Kinds DEF Holds

-----------------------------------------------------------------------------
\* The functions a run is in make no circle.
LEMMA FrameFacts ==
  ASSUME NEW p, NEW C, NEW A, NEW H, Fit(p, C, A, H), NEW fs, NEW mem, Shaped(p, fs, mem),
         NEW k \in DOMAIN fs
  PROVE  /\ fs \in Seq(Invocation(p, Len(mem))) /\ DOMAIN fs = 1 .. Len(fs) /\ Len(fs) \in Nat
         /\ fs[k] \in Invocation(p, Len(mem)) /\ InPlace(p, fs[k])
         /\ fs[k].fn \in FuncsOf(p) /\ p.block[fs[k].fn] # {}
         /\ fs[k].block \in p.block[fs[k].fn] /\ fs[k].block \in BlocksOf(p)
         /\ fs[k].pos \in Nat \ {0} /\ fs[k].pos <= End(p, fs[k].block)
         /\ fs[k].env \in Envs(p, Len(mem))
  <1>1. fs \in Seq(Invocation(p, Len(mem)))
    BY DEF Shaped
  <1>2. DOMAIN fs = 1 .. Len(fs) /\ Len(fs) \in Nat /\ fs[k] \in Invocation(p, Len(mem))
    BY <1>1
  <1>3. InPlace(p, fs[k])
    BY DEF Shaped
  <1>4. fs[k].fn \in {f \in FuncsOf(p) : p.block[f] # {}}
    BY <1>3, Zenon DEF InPlace, Fit, IsRunnable
  <1> QED
    BY <1>1, <1>2, <1>3, <1>4, Zenon DEF InPlace, Invocation, BlocksOf

LEMMA NotBack ==
  ASSUME NEW p, NEW C, NEW A, NEW H, Fit(p, C, A, H), NEW fs, NEW mem, NEW ss,
         Shaped(p, fs, mem), Followed(p, C, H, fs, ss),
         NEW a \in DOMAIN fs, NEW b \in DOMAIN fs, a <= b
  PROVE  ~Leads(p, C, fs[b].fn, fs[a].fn)
  <1> SUFFICES ASSUME Leads(p, C, fs[b].fn, fs[a].fn) PROVE FALSE
    OBVIOUS
  <1> DEFINE X == {fs[k].fn : k \in a .. b}
  <1>1. /\ DOMAIN fs = 1 .. Len(fs) /\ Len(fs) \in Nat
        /\ \A k \in DOMAIN fs : fs[k].fn \in FuncsOf(p)
    BY FrameFacts
  <1>2. /\ \A k \in a .. b : k \in DOMAIN fs
        /\ \A k \in a .. b : k # b => k \in 1 .. Len(fs) - 1 /\ k + 1 \in a .. b
        /\ a \in a .. b
    BY <1>1
  <1>3. X \in (SUBSET FuncsOf(p)) \ {{}}
    <2>1. X \subseteq FuncsOf(p) /\ fs[a].fn \in X
      BY <1>1, <1>2
    <2> HIDE DEF X
    <2> QED
      BY <2>1
  <1>4. PICK f \in X : \A g \in X : ~Leads(p, C, f, g)
    <2> HIDE DEF X
    <2> QED
      BY <1>3, Zenon DEF Fit, NoRound
  <1>5. PICK k \in a .. b : f = fs[k].fn
    OBVIOUS
  <1>6. CASE k = b
    <2>1. fs[a].fn \in X
      BY <1>2
    <2> QED
      BY <1>4, <1>5, <1>6, <2>1
  <1>7. CASE k # b
    <2>1. Awaits(p, C, ss[k], ss[k + 1], fs[k], fs[k + 1].fn)
      BY <1>2, <1>5, <1>7 DEF Followed
    <2>2. fs[k].block \in p.block[fs[k].fn]
      BY <1>2, FrameFacts
    <2>3. Leads(p, C, fs[k].fn, fs[k + 1].fn)
      BY <2>1, <2>2, Zenon DEF Awaits, Leads
    <2>4. fs[k + 1].fn \in X
      BY <1>2, <1>7
    <2> QED
      BY <1>4, <1>5, <2>3, <2>4
  <1> QED
    BY <1>6, <1>7

LEMMA Distinct ==
  ASSUME NEW p, NEW C, NEW A, NEW H, Fit(p, C, A, H), NEW fs, NEW mem, NEW ss,
         Shaped(p, fs, mem), Followed(p, C, H, fs, ss),
         NEW a \in DOMAIN fs, NEW b \in DOMAIN fs, a # b
  PROVE  fs[a].fn # fs[b].fn
  <1>1. DOMAIN fs = 1 .. Len(fs) /\ Len(fs) \in Nat
    BY FrameFacts
  <1>2. ASSUME NEW c \in DOMAIN fs, NEW d \in DOMAIN fs, c < d PROVE fs[c].fn # fs[d].fn
    <2>1. d - 1 \in 1 .. Len(fs) - 1 /\ d - 1 \in DOMAIN fs /\ c <= d - 1 /\ (d - 1) + 1 = d
      BY <1>1, <1>2
    <2>2. Awaits(p, C, ss[d - 1], ss[d], fs[d - 1], fs[d].fn)
      BY <2>1 DEF Followed
    <2>3. fs[d - 1].block \in p.block[fs[d - 1].fn]
      BY <2>1, FrameFacts
    <2>4. Leads(p, C, fs[d - 1].fn, fs[d].fn)
      BY <2>2, <2>3, Zenon DEF Awaits, Leads
    <2> QED
      BY <2>1, <2>4, NotBack
  <1>3. a < b \/ b < a
    BY <1>1
  <1> QED
    BY <1>2, <1>3

-----------------------------------------------------------------------------
\* What an operand is worth.
ValueOf(p, env, v) ==
    IF v \in FuncsOf(p) THEN M!Fun(v) ELSE IF v \in DOMAIN env THEN env[v] ELSE M!Undefined

\* A value is nothing, an address or a function.
LEMMA KeptKinds ==
  ASSUME NEW p, NEW m \in Nat, NEW x \in KeptValues(p, m)
  PROVE  /\ M!IsAddress(x) => x.object \in 1 .. m /\ x = M!Address(x.object, M!FirstField)
         /\ M!IsFun(x) => x.at \in FuncsOf(p) \ {"malloc"} /\ x = M!Fun(x.at)
         /\ ~(M!IsAddress(x) /\ M!IsFun(x))
  <1>1. ~M!IsAddress(M!Undefined) /\ ~M!IsFun(M!Undefined)
    BY DEF M!IsAddress, M!IsFun, M!Undefined
  <1>2. ASSUME NEW f PROVE ~M!IsAddress(M!Fun(f)) /\ M!Fun(f).at = f
    BY DEF M!IsAddress, M!Fun
  <1>3. ASSUME NEW o \in 1 .. m
        PROVE  ~M!IsFun(M!Address(o, M!FirstField)) /\ M!Address(o, M!FirstField).object = o
    <2>1. M!Address(o, M!FirstField).object = o
      BY DEF M!Address
    <2>2. o # 0
      OBVIOUS
    <2> QED
      BY <2>1, <2>2, Zenon DEF M!IsFun
  <1> QED
    BY <1>1, <1>2, <1>3 DEF KeptValues

LEMMA UndefinedKnown ==
  ASSUME NEW A, NEW al, NEW S, NEW v
  PROVE  Known(A, al, S, v, M!Undefined)
  BY DEF Known, M!IsFun, M!IsAddress, M!Undefined

LEMMA FunKnown ==
  ASSUME NEW A, NEW al, NEW S, NEW v, NEW f \in S[v]
  PROVE  Known(A, al, S, v, M!Fun(f))
  <1>1. M!Fun(f).at = f /\ ~M!IsAddress(M!Fun(f))
    BY DEF M!IsAddress, M!Fun
  <1> QED
    BY <1>1 DEF Known

\* The facts at the instruction in hand know what its operands are.
OperandOK(p, A, al, m, S, env, v) ==
    LET x == ValueOf(p, env, v)
    IN  /\ Known(A, al, S, v, x)
        /\ v # "malloc" \/ M!IsAddress(x) => x \in KeptValues(p, m)
        /\ M!IsFun(x) => x = M!Fun(x.at) /\ Finds(p, S, v, x.at)

LEMMA OperandKnown ==
  ASSUME NEW p, NEW C, NEW A, NEW H, Fit(p, C, A, H), NEW fs, NEW mem, NEW al, NEW ss,
         RunOK(p, C, A, H, fs, mem, al, ss), fs # <<>>, NEW v
  PROVE  OperandOK(p, A, al, Len(mem), FactsAt(ss[Len(fs)], fs[Len(fs)]), fs[Len(fs)].env, v)
  <1> DEFINE n == Len(fs)
             fr == fs[n]
             S == FactsAt(ss[n], fr)
             x == ValueOf(p, fr.env, v)
  <1>1. Shaped(p, fs, mem) /\ Cover(p, A, al, fs, mem, S)
    BY DEF RunOK
  <1>2. n \in DOMAIN fs
    BY <1>1 DEF Shaped
  <1>3. fr.env \in Envs(p, Len(mem)) /\ Len(mem) \in Nat
    BY <1>1, <1>2, FrameFacts DEF Shaped
  <1>4. CASE v \in FuncsOf(p)
    <2>1. x = M!Fun(v) /\ Holds(p, A, al, fs, mem, v, x)
      BY <1>4 DEF ValueOf, Holds
    <2>2. Known(A, al, S, v, x)
      BY <1>1, <2>1 DEF Cover
    <2>3. x.at = v /\ Finds(p, S, v, v)
      BY <1>4, <2>1 DEF Finds, M!Fun
    <2>4. v # "malloc" => x \in KeptValues(p, Len(mem))
      BY <1>4, <2>1 DEF KeptValues
    <2>5. ~M!IsAddress(x)
      BY <2>1 DEF M!Fun, M!IsAddress
    <2> QED
      BY <2>1, <2>2, <2>3, <2>4, <2>5 DEF OperandOK
  <1>5. CASE v \notin FuncsOf(p) /\ v \in DOMAIN fr.env
    <2>1. x = fr.env[v] /\ Holds(p, A, al, fs, mem, v, x)
      BY <1>2, <1>5 DEF ValueOf, Holds
    <2>2. Known(A, al, S, v, x)
      BY <1>1, <2>1 DEF Cover
    <2>3. x \in KeptValues(p, Len(mem))
      BY <1>3, <1>5, <2>1 DEF Envs
    <2>4. M!IsFun(x) => x = M!Fun(x.at) /\ x.at \in FuncsOf(p) /\ x.at \in S[v]
      BY <1>3, <2>2, <2>3, KeptKinds DEF Known
    <2>5. M!IsFun(x) => Finds(p, S, v, x.at)
      BY <1>5, <2>4 DEF Finds
    <2> QED
      BY <2>2, <2>3, <2>4, <2>5 DEF OperandOK
  <1>6. CASE v \notin FuncsOf(p) /\ v \notin DOMAIN fr.env
    <2>1. x = M!Undefined
      BY <1>6 DEF ValueOf
    <2>2. ~M!IsFun(M!Undefined) /\ M!Undefined \in KeptValues(p, Len(mem))
      BY DEF M!IsFun, M!Undefined, KeptValues
    <2>3. Known(A, al, S, v, x)
      BY <2>1, UndefinedKnown
    <2> QED
      BY <2>1, <2>2, <2>3 DEF OperandOK
  <1> QED
    BY <1>4, <1>5, <1>6 DEF OperandOK
\* Between two instructions the facts go as the summary says.
LEMMA InstHeld ==
  ASSUME NEW p, NEW C, NEW A, NEW H, Fit(p, C, A, H), NEW fs, NEW mem, NEW al, NEW ss,
         RunOK(p, C, A, H, fs, mem, al, ss), fs # <<>>,
         fs[Len(fs)].pos <= Len(p.code[fs[Len(fs)].block])
  PROVE  LET fr == fs[Len(fs)]
             s  == ss[Len(fs)]
             i  == p.code[fr.block][fr.pos]
         IN  /\ Len(fs) \in DOMAIN fs
             /\ fr.pos \in DOMAIN p.code[fr.block]
             /\ i \in InstsOf(p) /\ i \in CodeOf(p, fr.block)
             /\ StepOK(p, C, A, H, s.callers, i, FactsAt(s, fr), s.at[fr.block][fr.pos + 1])
  <1> DEFINE n == Len(fs)
             fr == fs[n]
             s == ss[n]
             b == fr.block
             i == p.code[b][fr.pos]
  <1>1. Shaped(p, fs, mem) /\ Followed(p, C, H, fs, ss) /\ IsModule(p)
    BY Zenon DEF RunOK, Fit
  <1>2. n \in DOMAIN fs
    BY <1>1 DEF Shaped
  <1>3. b \in p.block[fr.fn] /\ b \in BlocksOf(p) /\ fr.pos \in Nat \ {0}
    BY <1>1, <1>2, FrameFacts
  <1>4. /\ Len(p.code[b]) \in Nat /\ DOMAIN p.code[b] = 1 .. Len(p.code[b])
        /\ \A k \in 1 .. Len(p.code[b]) : p.code[b][k] \in InstsOf(p)
    BY <1>1, <1>3, BlockInsts
  <1>5. fr.pos \in 1 .. Len(p.code[b])
    BY <1>3, <1>4
  <1>6. s.fn = fr.fn /\ SummaryOK(p, C, A, H, s)
    BY <1>1, <1>2, Zenon DEF Followed, Fit, HistoryOK
  <1>7. Runs(p, C, A, H, s.callers, b, s.at[b], End(p, b))
    BY <1>3, <1>6 DEF SummaryOK
  <1>8. fr.pos \in 1 .. End(p, b) - 1
    BY <1>4, <1>5 DEF End
  <1>9. StepOK(p, C, A, H, s.callers, i, s.at[b][fr.pos], s.at[b][fr.pos + 1])
    BY <1>7, <1>8 DEF Runs
  <1>10. i \in CodeOf(p, b)
    BY <1>4, <1>5 DEF CodeOf
  <1>11. fr.pos \in DOMAIN p.code[b] /\ i \in InstsOf(p)
    BY <1>4, <1>5
  <1>12. StepOK(p, C, A, H, s.callers, i, FactsAt(s, fr), s.at[b][fr.pos + 1])
    BY <1>9 DEF FactsAt
  <1> QED
    BY <1>2, <1>10, <1>11, <1>12

\* More objects, more values.
LEMMA MoreObjects ==
  ASSUME NEW p, NEW m \in Nat, NEW n \in Nat, m <= n
  PROVE  /\ KeptValues(p, m) \subseteq KeptValues(p, n) /\ Envs(p, m) \subseteq Envs(p, n)
         /\ Invocation(p, m) \subseteq Invocation(p, n) /\ Object(p, m) \subseteq Object(p, n)
  <1>1. 1 .. m \subseteq 1 .. n
    OBVIOUS
  <1>2. KeptValues(p, m) \subseteq KeptValues(p, n)
    BY <1>1 DEF KeptValues
  <1>3. Envs(p, m) \subseteq Envs(p, n)
    BY <1>2 DEF Envs
  <1>4. Invocation(p, m) \subseteq Invocation(p, n)
    BY <1>3, Zenon DEF Invocation
  <1>5. Object(p, m) \subseteq Object(p, n)
    BY <1>2 DEF Object
  <1> QED
    BY <1>2, <1>3, <1>4, <1>5

\* A step of the invocation that runs, which stays in its function.
LEMMA TopMoves ==
  ASSUME NEW p, NEW C, NEW A, NEW H, Fit(p, C, A, H), NEW fs, NEW mem, NEW al, NEW ss,
         RunOK(p, C, A, H, fs, mem, al, ss), fs # <<>>,
         NEW g, NEW new, NEW all, new \in Seq(Object(p, Len(new))), Len(mem) <= Len(new),
         g \in Invocation(p, Len(new)), InPlace(p, g), g.fn = fs[Len(fs)].fn,
         NEW gs, gs = [fs EXCEPT ![Len(fs)] = g],
         Sited(p, A, gs, new, all),
         Cover(p, A, all, gs, new, FactsAt(ss[Len(fs)], g))
  PROVE  RunOK(p, C, A, H, gs, new, all, ss)
  <1> DEFINE n == Len(fs)
             F == Invocation(p, Len(new))
  <1>1. Shaped(p, fs, mem) /\ Followed(p, C, H, fs, ss)
    BY DEF RunOK
  <1>2. Len(mem) \in Nat /\ Len(new) \in Nat /\ fs \in Seq(Invocation(p, Len(mem)))
    BY <1>1 DEF Shaped
  <1>3. fs \in Seq(F)
    <2>1. Invocation(p, Len(mem)) \subseteq F
      BY <1>2, MoreObjects
    <2> HIDE DEF F
    <2> QED
      BY <1>2, <2>1
  <1>4. n \in Nat /\ n \in DOMAIN fs /\ DOMAIN fs = 1 .. n
    BY <1>2
  <1>5. /\ gs \in Seq(F) /\ Len(gs) = n /\ DOMAIN gs = 1 .. n /\ gs # <<>>
        /\ \A k \in 1 .. n : gs[k] = IF k = n THEN g ELSE fs[k]
    <2>1. g \in F
      OBVIOUS
    <2> HIDE DEF F
    <2> QED
      BY <1>3, <1>4, <2>1
  <1>6. Shaped(p, gs, new)
    <2>1. \A k \in DOMAIN gs : InPlace(p, gs[k])
      BY <1>1, <1>4, <1>5 DEF Shaped
    <2> QED
      BY <1>5, <2>1 DEF Shaped
  <1>7. Followed(p, C, H, gs, ss)
    <2>1. \A k \in 1 .. n : gs[k].fn = fs[k].fn
      BY <1>4, <1>5, Zenon
    <2>2. \A k \in DOMAIN gs : ss[k] \in H /\ ss[k].fn = gs[k].fn
      BY <1>1, <1>4, <1>5, <2>1, Zenon DEF Followed
    <2>3. ASSUME NEW k \in 1 .. n - 1 PROVE Awaits(p, C, ss[k], ss[k + 1], gs[k], gs[k + 1].fn)
      <3>1. k \in 1 .. n /\ k + 1 \in 1 .. n /\ k # n
        <4>1. n \in Nat
          BY <1>4
        <4> HIDE DEF n
        <4> QED
          BY <4>1
      <3>2. gs[k] = fs[k] /\ gs[k + 1].fn = fs[k + 1].fn
        BY <1>5, <2>1, <3>1, Zenon
      <3> QED
        BY <1>1, <3>2 DEF Followed
    <2> QED
      BY <1>1, <1>4, <1>5, <2>2, <2>3, Zenon DEF Followed
  <1>8. gs[Len(gs)] = g
    BY <1>4, <1>5
  <1>9. Cover(p, A, all, gs, new, FactsAt(ss[Len(gs)], gs[Len(gs)]))
    BY <1>5, <1>8
  <1> QED
    BY <1>6, <1>7, <1>9, Zenon DEF RunOK

-----------------------------------------------------------------------------
\* What held before still does where the facts are kept.
LEMMA SeqLength ==
  ASSUME NEW X, NEW s \in Seq(X)
  PROVE  Len(s) \in Nat /\ DOMAIN s = 1 .. Len(s)
  OBVIOUS

LEMMA SeqElement ==
  ASSUME NEW X, NEW s \in Seq(X), NEW k \in DOMAIN s
  PROVE  s[k] \in X
  OBVIOUS

LEMMA LastIndex ==
  ASSUME NEW X, NEW s \in Seq(X), s # <<>>
  PROVE  Len(s) \in DOMAIN s
  OBVIOUS

\* The objects in D come from the same allocations.
Agree(al, all, D) == \A o \in D : all[o] = al[o]

LEMMA Carries ==
  ASSUME NEW p, NEW A, NEW fs, NEW mem, NEW al, NEW S, Shaped(p, fs, mem), DOMAIN al = DOMAIN mem,
         Cover(p, A, al, fs, mem, S), NEW v, NEW x, Holds(p, A, al, fs, mem, v, x),
         NEW all, Agree(al, all, DOMAIN mem), NEW T, S[v] \subseteq T[v]
  PROVE  Known(A, all, T, v, x)
  <1>1. Known(A, al, S, v, x)
    BY DEF Cover
  <1>2. /\ Len(mem) \in Nat /\ DOMAIN mem = 1 .. Len(mem) /\ mem \in Seq(Object(p, Len(mem)))
        /\ fs \in Seq(Invocation(p, Len(mem)))
    BY DEF Shaped
  <1>3. ASSUME x \in KeptValues(p, Len(mem)), M!IsAddress(x) PROVE x.object \in DOMAIN mem
    BY <1>2, <1>3, KeptKinds
  <1>4. M!IsAddress(x) => x.object \in DOMAIN mem
    <2>1. CASE x = M!Fun(v)
      BY <2>1 DEF M!Fun, M!IsAddress
    <2>2. CASE \E k \in DOMAIN fs : v \in DOMAIN fs[k].env /\ x = fs[k].env[v]
      <3>1. PICK k \in DOMAIN fs : v \in DOMAIN fs[k].env /\ x = fs[k].env[v]
        BY <2>2
      <3>2. fs[k] \in Invocation(p, Len(mem))
        BY <1>2
      <3>3. fs[k].env \in Envs(p, Len(mem))
        BY <3>2, Zenon DEF Invocation
      <3>4. x \in KeptValues(p, Len(mem))
        BY <3>1, <3>3 DEF Envs
      <3> QED
        BY <1>3, <3>4
    <2>3. CASE \E o \in DOMAIN mem : v = A[al[o]] /\ x = mem[o][M!FirstField]
      <3>1. PICK o \in DOMAIN mem : x = mem[o][M!FirstField]
        BY <2>3
      <3>2. mem[o] \in Object(p, Len(mem))
        BY <1>2
      <3>3. x \in KeptValues(p, Len(mem))
        BY <3>1, <3>2 DEF Object
      <3> QED
        BY <1>3, <3>3
    <2> QED
      BY <2>1, <2>2, <2>3 DEF Holds
  <1>5. M!IsAddress(x) => all[x.object] = al[x.object]
    BY <1>4 DEF Agree
  <1> QED
    BY <1>1, <1>5 DEF Known

\* What an instruction defines is a register of its function.
LEMMA DstRegister ==
  ASSUME NEW p, NEW f, NEW b \in p.block[f], NEW i \in CodeOf(p, b), Defines(i)
  PROVE  i.dst \in Registers(p, f)
  BY DEF Registers

\* A register is given a value.
Assigned(fr, v, x) == [fr EXCEPT !.env = M!Extend(@, v, x), !.pos = @ + 1]

\* g is fr one instruction on, with x in the register v.
Receives(p, m, fr, v, x, g) ==
    /\ g \in Invocation(p, m) /\ InPlace(p, g)
    /\ g.fn = fr.fn /\ g.block = fr.block /\ g.pos = fr.pos + 1
    /\ DOMAIN g.env = DOMAIN fr.env \cup {v}
    /\ \A w \in DOMAIN g.env : g.env[w] = IF w = v THEN x ELSE fr.env[w]

LEMMA AssignedShape ==
  ASSUME NEW p, IsModule(p), NEW m, NEW fr \in Invocation(p, m), InPlace(p, fr),
         fr.pos <= Len(p.code[fr.block]),
         NEW v \in p.value, v \in Registers(p, fr.fn), NEW x \in KeptValues(p, m),
         NEW g, g = Assigned(fr, v, x)
  PROVE  Receives(p, m, fr, v, x, g)
  <1> DEFINE D == DOMAIN fr.env \cup {v}
             env == M!Extend(fr.env, v, x)
  <1>1. fr.env \in Envs(p, m) /\ fr.pos \in Nat /\ fr.block \in BlocksOf(p)
    BY Zenon DEF Invocation
  <1>2. DOMAIN fr.env \subseteq p.value /\ \A w \in DOMAIN fr.env : fr.env[w] \in KeptValues(p, m)
    BY <1>1 DEF Envs
  <1>3. DOMAIN env = D /\ \A w \in D : env[w] = IF w = v THEN x ELSE fr.env[w]
    BY DEF M!Extend
  <1>4. env \in [D -> KeptValues(p, m)]
    <2>1. env = [w \in D |-> env[w]]
      BY DEF M!Extend
    <2>2. \A w \in D : env[w] \in KeptValues(p, m)
      BY <1>2, <1>3
    <2> HIDE DEF env
    <2> QED
      BY <2>1, <2>2
  <1>5. env \in Envs(p, m)
    <2>1. D \in SUBSET p.value
      BY <1>2
    <2> HIDE DEF D, env
    <2> QED
      BY <1>4, <2>1 DEF Envs
  <1>6. /\ g.fn = fr.fn /\ g.block = fr.block /\ g.from = fr.from
        /\ g.pos = fr.pos + 1 /\ g.env = env
        /\ g = [fn |-> fr.fn, block |-> fr.block, from |-> fr.from, pos |-> fr.pos + 1, env |-> env]
    <2>1. fr = [fn |-> fr.fn, block |-> fr.block, from |-> fr.from, pos |-> fr.pos, env |-> fr.env]
      BY Zenon DEF Invocation
    <2> DEFINE e == env
    <2>2. g = [fr EXCEPT !.env = e, !.pos = fr.pos + 1]
      BY <2>1 DEF Assigned
    <2> HIDE DEF e
    <2>3. g = [fn |-> fr.fn, block |-> fr.block, from |-> fr.from, pos |-> fr.pos + 1, env |-> e]
      BY <2>1, <2>2
    <2> QED
      BY <2>3 DEF e
  <1> HIDE DEF env
  <1>7. g \in Invocation(p, m)
    <2>1. fr.fn \in FuncsOf(p) /\ fr.from \in BlocksOf(p) \cup {""}
      BY Zenon DEF Invocation
    <2>2. fr.pos + 1 \in Nat \ {0}
      BY <1>1
    <2> QED
      BY <1>1, <1>5, <1>6, <2>1, <2>2, Zenon DEF Invocation
  <1>8. g.pos <= End(p, g.block)
    <2>1. Len(p.code[fr.block]) \in Nat
      BY <1>1, BlockInsts
    <2> QED
      BY <1>1, <1>6, <2>1 DEF End
  <1>9. InPlace(p, g)
    BY <1>3, <1>6, <1>8 DEF InPlace
  <1> QED
    BY <1>3, <1>6, <1>7, <1>9 DEF Receives

\* Allocations are executed once.
LEMMA LessThan ==
  ASSUME NEW k \in Int, NEW a \in Nat, NEW b \in Nat, k < a, a <= b
  PROVE  k < b
  OBVIOUS

LEMMA SitedKept ==
  ASSUME NEW p, NEW A, NEW fs, NEW mem, NEW al, Sited(p, A, fs, mem, al), NEW gs,
         gs[1].fn = fs[1].fn, fs[1].pos \in Nat, gs[1].pos \in Nat,
         gs[1].block = p.entry[gs[1].fn] => gs[1].block = fs[1].block /\ fs[1].pos <= gs[1].pos,
         DOMAIN p.code[p.entry[fs[1].fn]] \subseteq Int
  PROVE  Sited(p, A, gs, mem, al)
  <1>1. ASSUME NEW v, AllocatedBy(p, fs[1], v) PROVE AllocatedBy(p, gs[1], v)
    <2> DEFINE e == p.entry[fs[1].fn]
    <2>1. PICK k \in DOMAIN p.code[e] : /\ Allocates(p.code[e][k]) /\ p.code[e][k].dst = v
                                        /\ fs[1].block = e => k < fs[1].pos
      BY <1>1, Zenon DEF AllocatedBy
    <2>2. k \in Int
      OBVIOUS
    <2>3. ASSUME gs[1].block = e PROVE k < gs[1].pos
      <3>1. gs[1].block = p.entry[gs[1].fn]
        BY <2>3, Zenon
      <3>2. fs[1].block = e /\ fs[1].pos <= gs[1].pos
        BY <2>3, <3>1, Zenon
      <3>3. k < fs[1].pos
        BY <2>1, <3>2, Zenon
      <3> QED
        BY <2>2, <3>2, <3>3, LessThan, Zenon
    <2> QED
      BY <2>1, <2>3, Zenon DEF AllocatedBy
  <1> QED
    BY <1>1 DEF Sited

LEMMA TopSited ==
  ASSUME NEW p, NEW C, NEW A, NEW H, Fit(p, C, A, H), NEW fs, NEW mem, NEW al, fs # <<>>,
         Shaped(p, fs, mem), Sited(p, A, fs, mem, al),
         NEW g, g.fn = fs[Len(fs)].fn, g.pos \in Nat,
         g.block = p.entry[g.fn] => g.block = fs[Len(fs)].block /\ fs[Len(fs)].pos <= g.pos,
         NEW gs, gs = [fs EXCEPT ![Len(fs)] = g]
  PROVE  Sited(p, A, gs, mem, al)
  <1>1. /\ DOMAIN fs = 1 .. Len(fs) /\ Len(fs) \in Nat /\ 1 \in DOMAIN fs /\ Len(fs) \in DOMAIN fs
        /\ fs[1].pos \in Nat /\ fs[1].fn \in FuncsOf(p) /\ p.block[fs[1].fn] # {}
    <2>1. Len(fs) \in Nat /\ DOMAIN fs = 1 .. Len(fs) /\ 1 \in DOMAIN fs
      BY DEF Shaped
    <2>2. /\ fs[1].pos \in Nat /\ fs[1].fn \in FuncsOf(p) /\ p.block[fs[1].fn] # {}
      BY <2>1, FrameFacts
    <2> QED
      BY <2>1, <2>2
  <1>2. DOMAIN p.code[p.entry[fs[1].fn]] \subseteq Int
    <2>1. IsModule(p) /\ p.entry[fs[1].fn] \in p.block[fs[1].fn]
      BY <1>1, Zenon DEF Fit, IsModule
    <2>2. p.entry[fs[1].fn] \in BlocksOf(p)
      BY <1>1, <2>1 DEF BlocksOf
    <2>3. /\ Len(p.code[p.entry[fs[1].fn]]) \in Nat
          /\ DOMAIN p.code[p.entry[fs[1].fn]] = 1 .. Len(p.code[p.entry[fs[1].fn]])
      BY <2>1, <2>2, BlockInsts
    <2> QED
      BY <2>3
  <1>3. gs[1] = IF Len(fs) = 1 THEN g ELSE fs[1]
    BY <1>1
  <1>4. /\ gs[1].fn = fs[1].fn /\ gs[1].pos \in Nat
        /\ gs[1].block = p.entry[gs[1].fn] => gs[1].block = fs[1].block /\ fs[1].pos <= gs[1].pos
    BY <1>1, <1>3
  <1> QED
    BY <1>1, <1>2, <1>4, SitedKept

\* An instruction gives its register a value the facts after it know.
Fresh(mem, D) == \A o \in D : mem[o][M!FirstField] = M!Undefined

LEMMA AssignMoves ==
  ASSUME NEW p, NEW C, NEW A, NEW H, Fit(p, C, A, H), NEW fs, NEW mem, NEW al, NEW ss,
         RunOK(p, C, A, H, fs, mem, al, ss), fs # <<>>,
         NEW fr, fr = fs[Len(fs)], fr.pos <= Len(p.code[fr.block]),
         NEW i, i = p.code[fr.block][fr.pos], Defines(i), i.dst \in p.value,
         NEW T, T = ss[Len(fs)].at[fr.block][fr.pos + 1],
         OthersKept(p, i.dst, FactsAt(ss[Len(fs)], fr), T),
         NEW new, NEW all, new \in Seq(Object(p, Len(new))), Len(mem) <= Len(new),
         Agree(al, all, DOMAIN mem), Agree(mem, new, DOMAIN mem),
         Fresh(new, (DOMAIN new) \ DOMAIN mem),
         NEW x \in KeptValues(p, Len(new)), Known(A, all, T, i.dst, x),
         NEW gs, gs = [fs EXCEPT ![Len(fs)] = Assigned(fr, i.dst, x)],
         Sited(p, A, gs, new, all)
  PROVE  RunOK(p, C, A, H, gs, new, all, ss)
  <1> DEFINE n == Len(fs)
             S == FactsAt(ss[n], fr)
             g == Assigned(fr, i.dst, x)
  <1>1. /\ Shaped(p, fs, mem) /\ Sited(p, A, fs, mem, al) /\ Followed(p, C, H, fs, ss) /\ IsModule(p)
        /\ Cover(p, A, al, fs, mem, S) /\ DOMAIN al = DOMAIN mem
    BY Zenon DEF RunOK, Fit, Sited
  <1>2. n \in DOMAIN fs /\ Len(mem) \in Nat /\ Len(new) \in Nat /\ DOMAIN fs = 1 .. n
    <2>1. fs \in Seq(Invocation(p, Len(mem)))
      BY <1>1, Zenon DEF Shaped
    <2>2. mem \in Seq(Object(p, Len(mem)))
      BY <1>1, Zenon DEF Shaped
    <2>3. Len(mem) \in Nat /\ Len(new) \in Nat /\ DOMAIN fs = 1 .. n
      BY <2>1, <2>2, SeqLength, Zenon
    <2> QED
      BY <2>1, <2>3, LastIndex, Zenon
  <1>3. fr \in Invocation(p, Len(new)) /\ InPlace(p, fr) /\ fr.fn \in FuncsOf(p) /\ fr.block \in p.block[fr.fn]
    <2>1. fr \in Invocation(p, Len(mem)) /\ InPlace(p, fr) /\ fr.fn \in FuncsOf(p) /\ fr.block \in p.block[fr.fn]
      BY <1>1, <1>2, FrameFacts, Zenon
    <2> QED
      BY <1>2, <2>1, MoreObjects, Zenon
  <1>4. i.dst \in Registers(p, fr.fn)
    <2>1. i \in CodeOf(p, fr.block)
      BY InstHeld, Zenon
    <2> QED
      BY <1>3, <2>1, DstRegister, Zenon
  <1>5. /\ g \in Invocation(p, Len(new)) /\ InPlace(p, g)
        /\ g.fn = fr.fn /\ g.block = fr.block /\ g.pos = fr.pos + 1
        /\ DOMAIN g.env = DOMAIN fr.env \cup {i.dst}
        /\ \A w \in DOMAIN g.env : g.env[w] = IF w = i.dst THEN x ELSE fr.env[w]
    <2>1. Receives(p, Len(new), fr, i.dst, x, g)
      BY <1>1, <1>3, <1>4, AssignedShape, Zenon
    <2> HIDE DEF g
    <2> QED
      BY <2>1, Zenon DEF Receives
  <1> HIDE DEF g
  <1>6. \A k \in DOMAIN gs : gs[k] = IF k = n THEN g ELSE fs[k]
    BY <1>2, Zenon DEF g
  <1>7. ASSUME NEW v, NEW y, Holds(p, A, al, fs, mem, v, y), v # i.dst PROVE Known(A, all, T, v, y)
    <2>1. v \in p.value
      BY <1>1, <1>7, HolderKinds, Zenon
    <2>2. S[v] \subseteq T[v]
      BY <1>7, <2>1, Zenon DEF OthersKept
    <2> HIDE DEF S
    <2> QED
      BY <1>1, <1>7, <2>2, Carries, Zenon
  <1>8. ASSUME NEW v, NEW y, Holds(p, A, all, gs, new, v, y) PROVE Known(A, all, T, v, y)
    <2>1. CASE v \in FuncsOf(p) /\ y = M!Fun(v)
      <3>1. v # i.dst
        BY <1>3, <1>4, <2>1, Kinds, Zenon
      <3> QED
        BY <1>7, <2>1, <3>1, Zenon DEF Holds
    <2>2. CASE \E k \in DOMAIN gs : v \in DOMAIN gs[k].env /\ y = gs[k].env[v]
      <3>1. PICK k \in DOMAIN gs : v \in DOMAIN gs[k].env /\ y = gs[k].env[v]
        BY <2>2, Zenon
      <3>2. k \in DOMAIN fs
        BY Zenon
      <3>3. CASE k = n /\ v = i.dst
        <4>1. gs[k] = g
          BY <1>6, <3>1, <3>3, Zenon
        <4>2. y = x
          BY <1>5, <3>1, <3>3, <4>1, Zenon
        <4> QED
          BY <3>3, <4>2, Zenon
      <3>4. CASE k = n /\ v # i.dst
        <4>0. gs[k] = g /\ fs[k] = fr
          BY <1>6, <3>1, <3>4, Zenon
        <4>1. v \in DOMAIN fs[k].env /\ y = fs[k].env[v]
          BY <1>5, <3>1, <3>4, <4>0, ZenonT(60)
        <4> QED
          BY <1>7, <3>2, <3>4, <4>1, Zenon DEF Holds
      <3>5. CASE k # n
        <4>1. v \in DOMAIN fs[k].env /\ y = fs[k].env[v]
          BY <1>6, <3>1, <3>5, Zenon
        <4>2. fs[k].fn # fs[n].fn
          <5> HIDE DEF n
          <5> QED
            BY <1>1, <1>2, <3>2, <3>5, Distinct, Zenon
        <4>3. InPlace(p, fs[k]) /\ fs[k].fn \in FuncsOf(p)
          BY <1>1, <3>2, FrameFacts, Zenon
        <4>4. v \in Registers(p, fs[k].fn)
          BY <4>1, <4>3, Zenon DEF InPlace
        <4>5. v # i.dst
          BY <1>3, <1>4, <4>2, <4>3, <4>4, Kinds, Zenon
        <4> QED
          BY <1>7, <3>2, <4>1, <4>5, Zenon DEF Holds
      <3> QED
        BY <3>3, <3>4, <3>5, Zenon
    <2>3. CASE \E o \in DOMAIN new : v = A[all[o]] /\ y = new[o][M!FirstField]
      <3>1. PICK o \in DOMAIN new : v = A[all[o]] /\ y = new[o][M!FirstField]
        BY <2>3, Zenon
      <3>2. CASE o \in DOMAIN mem
        <4>1. v = A[al[o]] /\ y = mem[o][M!FirstField] /\ al[o] \in DOMAIN A
          BY <1>1, <3>1, <3>2, Zenon DEF Sited, Agree
        <4>2. v \notin Registers(p, fr.fn)
          BY <1>3, <4>1, Kinds, Zenon
        <4>3. v # i.dst
          BY <1>4, <4>2, Zenon
        <4> QED
          BY <1>7, <3>2, <4>1, <4>3, Zenon DEF Holds
      <3>3. CASE o \notin DOMAIN mem
        BY <3>1, <3>3, UndefinedKnown, Zenon DEF Fresh
      <3> QED
        BY <3>2, <3>3, Zenon
    <2> QED
      BY <1>8, <2>1, <2>2, <2>3, Zenon DEF Holds
  <1>9. FactsAt(ss[n], g) = T
    BY <1>5, Zenon DEF FactsAt
  <1>10. Cover(p, A, all, gs, new, FactsAt(ss[n], g))
    BY <1>8, <1>9, Zenon DEF Cover
  <1>11. gs = [fs EXCEPT ![Len(fs)] = g] /\ g.fn = fs[Len(fs)].fn
    BY <1>5, Zenon DEF g
  <1>12. g \in Invocation(p, Len(new)) /\ InPlace(p, g)
    BY <1>5, Zenon
  <1> QED
    BY <1>10, <1>11, <1>12, TopMoves, Zenon

\* The operands of an instruction are values, none of them malloc.
LEMMA Operands ==
  ASSUME NEW p, NEW C, NEW A, NEW H, Fit(p, C, A, H), NEW b \in BlocksOf(p), NEW i \in CodeOf(p, b),
         i \in InstsOf(p)
  PROVE  /\ i.op # "ret" => i.dst \in p.value
         /\ i.op # "memcpy"
         /\ \A j \in DOMAIN i.src : i.src[j] \in p.value /\ i.src[j] # "malloc"
         /\ i.op \in {"load", "store", "cast", "gep", "phi"} => 1 \in DOMAIN i.src
  <1>1. IsInstr(p, i)
    BY Zenon DEF Fit, IsModule
  <1>2. i.src \in Seq(p.value)
    BY <1>1 DEF IsInstr
  <1>3. i.op # "memcpy" /\ \A j \in DOMAIN i.src : i.src[j] # "malloc"
    BY ZenonT(60) DEF Fit, OneObjectPerSite
  <1>4. i.op \in {"load", "store", "cast", "gep", "phi"} => 1 \in DOMAIN i.src
    <2>1. i.op \in {"load", "store", "cast", "gep", "phi"} => i.src # <<>>
      BY <1>1 DEF IsInstr
    <2> QED
      BY <1>2, <2>1
  <1> QED
    BY <1>1, <1>2, <1>3, <1>4 DEF IsInstr

\* A phi has a value for each block control comes from, and is none of them.
PhiShape(i) == DOMAIN i.at = DOMAIN i.src /\ \A j \in DOMAIN i.src : i.src[j] # i.dst

LEMMA CodeShape ==
  ASSUME NEW p, IsRunnable(p), NEW b \in BlocksOf(p), NEW k \in DOMAIN p.code[b],
         NEW i, i = p.code[b][k]
  PROVE  /\ i.op = "phi" => PhiShape(i)
         /\ i.op = "call" => Called(i) \in p.value
         /\ i.op = "ret" => k = Len(p.code[b]) /\ p.succ[b] = {}
  BY DEF IsRunnable, PhiShape

\* What an instruction that neither allocates nor calls gives its register.
Computes(p, fr, mem, i, x) ==
    \/ /\ i.op = "load" /\ M!IsAddress(ValueOf(p, fr.env, i.src[1]))
       /\ x = mem[ValueOf(p, fr.env, i.src[1]).object][ValueOf(p, fr.env, i.src[1]).at]
    \/ i.op = "cast" /\ x = ValueOf(p, fr.env, i.src[1])
    \/ /\ i.op = "gep" /\ M!IsAddress(ValueOf(p, fr.env, i.src[1]))
       /\ x = M!Address(ValueOf(p, fr.env, i.src[1]).object, i.at[1])
    \/ i.op = "phi" /\ \E j \in DOMAIN i.at : x = ValueOf(p, fr.env, i.src[j])

LEMMA KnownIn ==
  ASSUME NEW A, NEW al, NEW S, NEW v, NEW x, Known(A, al, S, v, x), NEW T, NEW w, S[v] \subseteq T[w]
  PROVE  Known(A, al, T, w, x)
  BY DEF Known

LEMMA ComputedKnown ==
  ASSUME NEW p, NEW C, NEW A, NEW H, Fit(p, C, A, H), NEW fs, NEW mem, NEW al, NEW ss,
         RunOK(p, C, A, H, fs, mem, al, ss), fs # <<>>,
         NEW fr, fr = fs[Len(fs)], fr.pos <= Len(p.code[fr.block]),
         NEW i, i = p.code[fr.block][fr.pos], NEW x, Computes(p, fr, mem, i, x),
         NEW S, S = FactsAt(ss[Len(fs)], fr), NEW T, T = ss[Len(fs)].at[fr.block][fr.pos + 1]
  PROVE  /\ Defines(i) /\ i.dst \in p.value
         /\ OthersKept(p, i.dst, S, T)
         /\ x \in KeptValues(p, Len(mem)) /\ Known(A, al, T, i.dst, x)
  <1>1. /\ Shaped(p, fs, mem) /\ Sited(p, A, fs, mem, al) /\ Followed(p, C, H, fs, ss) /\ IsModule(p)
        /\ IsRunnable(p) /\ OneObjectPerSite(p) /\ Cover(p, A, al, fs, mem, S)
    BY Zenon DEF RunOK, Fit
  <1>2. /\ Len(fs) \in DOMAIN fs /\ i \in InstsOf(p) /\ i \in CodeOf(p, fr.block)
        /\ fr.pos \in DOMAIN p.code[fr.block]
        /\ StepOK(p, C, A, H, ss[Len(fs)].callers, i, S, T)
    BY InstHeld, Zenon
  <1>3. fr.fn \in FuncsOf(p) /\ fr.block \in p.block[fr.fn] /\ fr.block \in BlocksOf(p)
    BY <1>1, <1>2, FrameFacts
  <1>4. /\ i.op # "ret" => i.dst \in p.value
        /\ \A j \in DOMAIN i.src : i.src[j] \in p.value /\ i.src[j] # "malloc"
        /\ i.op \in {"load", "store", "cast", "gep", "phi"} => 1 \in DOMAIN i.src
    BY <1>2, <1>3, Operands, Zenon
  <1>5. i.op \in {"load", "cast", "gep", "phi"} /\ Defines(i) /\ i.dst \in p.value
    BY <1>4, Zenon DEF Computes, Defines
  <1>6. ASSUME NEW v, v # "malloc"
        PROVE  Known(A, al, S, v, ValueOf(p, fr.env, v)) /\ ValueOf(p, fr.env, v) \in KeptValues(p, Len(mem))
    <2>1. OperandOK(p, A, al, Len(mem), S, fr.env, v)
      BY OperandKnown
    <2> QED
      BY <1>6, <2>1 DEF OperandOK
  <1>7. Len(mem) \in Nat /\ DOMAIN mem = 1 .. Len(mem) /\ mem \in Seq(Object(p, Len(mem)))
    <2>1. mem \in Seq(Object(p, Len(mem)))
      BY <1>1 DEF Shaped
    <2> QED
      BY <2>1, SeqLength, Zenon
  <1>8. ASSUME i.op \in {"load", "gep"}, M!IsAddress(ValueOf(p, fr.env, i.src[1]))
        PROVE  LET a == ValueOf(p, fr.env, i.src[1])
               IN  /\ a.object \in DOMAIN mem /\ a = M!Address(a.object, M!FirstField)
                   /\ A[al[a.object]] \in S[i.src[1]]
    <2> DEFINE a == ValueOf(p, fr.env, i.src[1])
    <2>1. i.src[1] # "malloc"
      BY <1>4, <1>8, Zenon
    <2>2. Known(A, al, S, i.src[1], a) /\ a \in KeptValues(p, Len(mem))
      BY <1>6, <2>1, Zenon
    <2>3. a.object \in 1 .. Len(mem) /\ a = M!Address(a.object, M!FirstField)
      BY <1>7, <1>8, <2>2, KeptKinds, ZenonT(60)
    <2> QED
      BY <1>7, <1>8, <2>2, <2>3, Zenon DEF Known
  <1>9. CASE i.op = "load"
    <2> DEFINE a == ValueOf(p, fr.env, i.src[1])
               w == A[al[a.object]]
    <2>1. /\ M!IsAddress(a) /\ x = mem[a.object][a.at]
      BY <1>9, Zenon DEF Computes
    <2>2. a.object \in DOMAIN mem /\ a = M!Address(a.object, M!FirstField) /\ w \in S[i.src[1]]
      BY <1>8, <1>9, <2>1, Zenon
    <2>3. a.at = M!FirstField
      <3>1. \A o : M!Address(o, M!FirstField).at = M!FirstField
        BY DEF M!Address
      <3> HIDE DEF a
      <3> QED
        BY <2>2, <3>1, Zenon
    <2>4. Holds(p, A, al, fs, mem, w, x)
      BY <2>1, <2>2, <2>3, Zenon DEF Holds
    <2>5. Known(A, al, S, w, x)
      BY <1>1, <2>4, Zenon DEF Cover
    <2>6. w # i.dst
      <3>1. i.dst \in Registers(p, fr.fn)
        BY <1>2, <1>3, <1>5, DstRegister, Zenon
      <3>2. al[a.object] \in DOMAIN A
        BY <1>1, <2>2, Zenon DEF Sited
      <3>3. w \notin Registers(p, fr.fn)
        BY <1>3, <3>2, Kinds, Zenon
      <3> QED
        BY <3>1, <3>3, Zenon
    <2>7. OthersKept(p, i.dst, S, T) /\ S[w] \subseteq T[i.dst]
      <3>1. Assigns(p, S[i.src[1]] \ {i.dst}, i.dst, S, T)
        BY <1>2, <1>9, Zenon DEF StepOK
      <3> HIDE DEF w
      <3> QED
        BY <2>2, <2>6, <3>1, ZenonT(60) DEF Assigns
    <2>8. x \in KeptValues(p, Len(mem))
      <3>1. mem[a.object] \in Object(p, Len(mem))
        BY <1>7, <2>2, SeqElement, Zenon
      <3> QED
        BY <2>1, <2>3, <3>1, Zenon DEF Object
    <2>9. Known(A, al, T, i.dst, x)
      <3> HIDE DEF w
      <3> QED
        BY <2>5, <2>7, KnownIn, Zenon
    <2> QED
      BY <1>5, <2>7, <2>8, <2>9, Zenon
  <1>10. CASE i.op = "cast"
    <2>1. x = ValueOf(p, fr.env, i.src[1]) /\ i.src[1] # "malloc"
      BY <1>4, <1>10, Zenon DEF Computes
    <2>2. Assigns(p, {i.src[1]}, i.dst, S, T)
      BY <1>2, <1>10, Zenon DEF StepOK
    <2>3. OthersKept(p, i.dst, S, T) /\ S[i.src[1]] \subseteq T[i.dst]
      BY <2>2, Zenon DEF Assigns
    <2>4. Known(A, al, S, i.src[1], x) /\ x \in KeptValues(p, Len(mem))
      BY <1>6, <2>1, Zenon
    <2>5. Known(A, al, T, i.dst, x)
      BY <2>3, <2>4, KnownIn, ZenonT(60)
    <2> QED
      BY <1>5, <2>3, <2>4, <2>5, Zenon
  <1>11. CASE i.op = "gep"
    <2> DEFINE a == ValueOf(p, fr.env, i.src[1])
    <2>1. M!IsAddress(a) /\ x = M!Address(a.object, i.at[1])
      BY <1>11, Zenon DEF Computes
    <2>2. a = M!Address(a.object, M!FirstField)
      BY <1>8, <1>11, <2>1, Zenon
    <2>3. i.at[1] = M!FirstField /\ i.src[1] # "malloc"
      BY <1>1, <1>2, <1>3, <1>4, <1>11, Zenon DEF OneObjectPerSite
    <2>4. x = a
      BY <2>1, <2>2, <2>3, Zenon
    <2>5. Assigns(p, {i.src[1]}, i.dst, S, T)
      BY <1>2, <1>11, Zenon DEF StepOK
    <2>6. OthersKept(p, i.dst, S, T) /\ S[i.src[1]] \subseteq T[i.dst]
      BY <2>5 DEF Assigns
    <2>7. Known(A, al, S, i.src[1], x) /\ x \in KeptValues(p, Len(mem))
      BY <1>6, <2>3, <2>4, Zenon
    <2>8. Known(A, al, T, i.dst, x)
      BY <2>6, <2>7, KnownIn, Zenon
    <2> QED
      BY <1>5, <2>6, <2>7, <2>8
  <1>12. CASE i.op = "phi"
    <2>1. /\ DOMAIN i.at = DOMAIN i.src
          /\ \A j \in DOMAIN i.src : i.src[j] # i.dst
      <3>1. PhiShape(i)
        <4>1. fr.pos \in DOMAIN p.code[fr.block] /\ i = p.code[fr.block][fr.pos]
          BY <1>2
        <4> QED
          BY <1>1, <1>3, <1>12, <4>1, CodeShape
      <3> QED
        BY <3>1, Zenon DEF PhiShape
    <2>2. PICK j \in DOMAIN i.src : x = ValueOf(p, fr.env, i.src[j])
      BY <1>12, <2>1, Zenon DEF Computes
    <2>3. Assigns(p, {i.src[k] : k \in DOMAIN i.src} \ {i.dst}, i.dst, S, T)
      BY <1>2, <1>12, Zenon DEF StepOK
    <2>4. OthersKept(p, i.dst, S, T) /\ S[i.src[j]] \subseteq T[i.dst]
      <3>1. i.src[j] \in {i.src[k] : k \in DOMAIN i.src} \ {i.dst}
        BY <2>1, Zenon
      <3> QED
        BY <2>3, <3>1, ZenonT(60) DEF Assigns
    <2>5. Known(A, al, S, i.src[j], x) /\ x \in KeptValues(p, Len(mem))
      BY <1>4, <1>6, <2>2, Zenon
    <2>6. Known(A, al, T, i.dst, x)
      BY <2>4, <2>5, KnownIn, ZenonT(60)
    <2> QED
      BY <1>5, <2>4, <2>5, <2>6, Zenon
  <1> QED
    BY <1>5, <1>9, <1>10, <1>11, <1>12, Zenon

LEMMA ComputeMoves ==
  ASSUME NEW p, NEW C, NEW A, NEW H, Fit(p, C, A, H), NEW fs, NEW mem, NEW al, NEW ss,
         RunOK(p, C, A, H, fs, mem, al, ss), fs # <<>>,
         NEW fr, fr = fs[Len(fs)], fr.pos <= Len(p.code[fr.block]),
         NEW i, i = p.code[fr.block][fr.pos], NEW x, Computes(p, fr, mem, i, x),
         NEW gs, gs = [fs EXCEPT ![Len(fs)] = Assigned(fr, i.dst, x)]
  PROVE  RunOK(p, C, A, H, gs, mem, al, ss)
  <1>1. PICK S : S = FactsAt(ss[Len(fs)], fr)
    OBVIOUS
  <1>2. PICK T : T = ss[Len(fs)].at[fr.block][fr.pos + 1]
    OBVIOUS
  <1>3. /\ Defines(i) /\ i.dst \in p.value /\ OthersKept(p, i.dst, S, T)
        /\ x \in KeptValues(p, Len(mem)) /\ Known(A, al, T, i.dst, x)
    BY <1>1, <1>2, ComputedKnown, ZenonT(60)
  <1>4. Shaped(p, fs, mem) /\ Sited(p, A, fs, mem, al) /\ IsModule(p)
    BY Zenon DEF RunOK, Fit
  <1>5. mem \in Seq(Object(p, Len(mem)))
    BY <1>4 DEF Shaped
  <1>6. Len(mem) \in Nat
    BY <1>5, SeqLength, Zenon
  <1>7. Agree(al, al, DOMAIN mem) /\ Agree(mem, mem, DOMAIN mem) /\ Fresh(mem, (DOMAIN mem) \ DOMAIN mem)
    BY DEF Agree, Fresh
  <1>8. Len(fs) \in DOMAIN fs /\ i \in CodeOf(p, fr.block)
    BY InstHeld, Zenon
  <1>9. fr \in Invocation(p, Len(mem)) /\ InPlace(p, fr) /\ fr.block \in p.block[fr.fn] /\ fr.pos \in Nat
    BY <1>4, <1>8, FrameFacts
  <1>10. PICK g : g = Assigned(fr, i.dst, x)
    OBVIOUS
  <1>11. Receives(p, Len(mem), fr, i.dst, x, g)
    <2>1. i.dst \in Registers(p, fr.fn)
      BY <1>3, <1>8, <1>9, DstRegister, Zenon
    <2> QED
      BY <1>3, <1>4, <1>9, <1>10, <2>1, AssignedShape, Zenon
  <1>12. g.fn = fr.fn /\ g.block = fr.block /\ g.pos = fr.pos + 1
    BY <1>11, Zenon DEF Receives
  <1>13. g.pos \in Nat /\ fr.pos <= g.pos
    BY <1>9, <1>12
  <1>14. gs = [fs EXCEPT ![Len(fs)] = g]
    BY <1>10, Zenon
  <1>15. Sited(p, A, gs, mem, al)
    BY <1>4, <1>12, <1>13, <1>14, TopSited, Zenon
  <1>16. Len(mem) <= Len(mem)
    BY <1>6
  <1> QED
    BY <1>1, <1>2, <1>3, <1>5, <1>7, <1>15, <1>16, AssignMoves, Zenon

-----------------------------------------------------------------------------
\* An instruction that allocates is executed by the first invocation, in its entry.
LEMMA Allocating ==
  ASSUME NEW p, NEW C, NEW A, NEW H, Fit(p, C, A, H), NEW fs, NEW mem, NEW ss,
         Shaped(p, fs, mem), Followed(p, C, H, fs, ss), fs # <<>>,
         NEW i \in CodeOf(p, fs[Len(fs)].block), Allocates(i)
  PROVE  Len(fs) = 1 /\ fs[Len(fs)].block = p.entry[fs[Len(fs)].fn]
  <1>0. PICK fr : fr = fs[Len(fs)]
    OBVIOUS
  <1>1. fs \in Seq(Invocation(p, Len(mem)))
    BY DEF Shaped
  <1>2. Len(fs) \in DOMAIN fs /\ Len(fs) \in Nat /\ DOMAIN fs = 1 .. Len(fs)
    BY <1>1, LastIndex, SeqLength, Zenon
  <1>3. /\ fr.fn \in FuncsOf(p) /\ fr.fn \in DOMAIN p.entry
        /\ fr.block \in p.block[fr.fn] /\ fr.block \in BlocksOf(p)
    BY <1>0, <1>2, FrameFacts DEF InPlace
  <1>4. PICK f \in DOMAIN p.entry : fr.block = p.entry[f]
    BY <1>0, <1>3, Zenon DEF Fit, OneObjectPerSite
  <1>5. f \in FuncsOf(p) /\ p.block[f] # {}
    BY Zenon DEF Fit, IsRunnable
  <1>6. p.entry[f] \in p.block[f]
    BY <1>5, Zenon DEF Fit, IsModule
  <1>7. f = fr.fn
    BY <1>3, <1>4, <1>5, <1>6, Zenon DEF Fit, IsModule
  <1>8. ASSUME Len(fs) # 1 PROVE FALSE
    <2> DEFINE k == Len(fs) - 1
    <2>1. k \in 1 .. Len(fs) - 1 /\ k \in DOMAIN fs /\ k + 1 = Len(fs)
      BY <1>2, <1>8
    <2>2. Awaits(p, C, ss[k], ss[k + 1], fs[k], fs[k + 1].fn)
      BY <2>1 DEF Followed
    <2> HIDE DEF k
    <2>3. /\ fs[k].pos \in DOMAIN p.code[fs[k].block] /\ p.code[fs[k].block][fs[k].pos].op = "call"
          /\ fr.fn \in C[p.code[fs[k].block][fs[k].pos].dst]
      BY <1>0, <2>1, <2>2, Zenon DEF Awaits
    <2>4. fs[k].block \in BlocksOf(p)
      BY <2>1, FrameFacts
    <2>5. p.code[fs[k].block][fs[k].pos] \in InstsOf(p)
      BY <2>3, <2>4, BlockInsts, ZenonT(60) DEF Fit
    <2>6. \E b \in p.block[fr.fn] : \E j \in CodeOf(p, b) : Allocates(j)
      BY <1>0, <1>3
    <2>7. Uncalled(p, C)
      BY Zenon DEF Fit
    <2> QED
      BY <1>3, <2>3, <2>5, <2>6, <2>7 DEF Uncalled
  <1> QED
    BY <1>0, <1>4, <1>7, <1>8

\* The facts after it know the site.
AllocatesHere(p, A, fs, fr, i, S, T) ==
    /\ Allocates(i) /\ OthersKept(p, i.dst, S, T) /\ SiteKnown(A, i.dst, T)
    /\ fr.pos \in DOMAIN p.code[fr.block]
    /\ Len(fs) = 1 /\ fr.block = p.entry[fr.fn]

LEMMA AllocatedKnown ==
  ASSUME NEW p, NEW C, NEW A, NEW H, Fit(p, C, A, H), NEW fs, NEW mem, NEW al, NEW ss,
         RunOK(p, C, A, H, fs, mem, al, ss), fs # <<>>,
         NEW fr, fr = fs[Len(fs)], fr.pos <= Len(p.code[fr.block]),
         NEW i, i = p.code[fr.block][fr.pos],
         i.op = "alloca" \/ (i.op = "call" /\ ValueOf(p, fr.env, Called(i)) = M!Fun("malloc")),
         NEW S, S = FactsAt(ss[Len(fs)], fr), NEW T, T = ss[Len(fs)].at[fr.block][fr.pos + 1]
  PROVE  AllocatesHere(p, A, fs, fr, i, S, T)
  <1>1. /\ Len(fs) \in DOMAIN fs /\ i \in InstsOf(p) /\ i \in CodeOf(p, fr.block)
        /\ fr.pos \in DOMAIN p.code[fr.block]
        /\ StepOK(p, C, A, H, ss[Len(fs)].callers, i, S, T)
    BY InstHeld, Zenon
  <1>2. ASSUME i.op = "alloca"
        PROVE  Allocates(i) /\ OthersKept(p, i.dst, S, T) /\ SiteKnown(A, i.dst, T)
    BY <1>1, <1>2, Zenon DEF StepOK, Allocates
  <1>3. ASSUME i.op = "call" /\ ValueOf(p, fr.env, Called(i)) = M!Fun("malloc")
        PROVE  Allocates(i) /\ OthersKept(p, i.dst, S, T) /\ SiteKnown(A, i.dst, T)
    <2> DEFINE v == Called(i)
               x == M!Fun("malloc")
    <2>0. /\ v # "malloc" => x \in KeptValues(p, Len(mem))
          /\ M!IsFun(x) => Finds(p, S, v, x.at)
      <3>1. OperandOK(p, A, al, Len(mem), S, fr.env, v)
        BY OperandKnown
      <3> QED
        BY <1>3, <3>1 DEF OperandOK
    <2>1. Called(i) = "malloc"
      <3>1. ASSUME Called(i) # "malloc" PROVE FALSE
        <4>1. M!Fun("malloc") \in KeptValues(p, Len(mem))
          BY <2>0, <3>1
        <4>2. Len(mem) \in Nat
          BY SeqLength, Zenon DEF RunOK, Shaped
        <4>3. M!IsFun(M!Fun("malloc")) /\ M!Fun("malloc").at = "malloc"
          BY DEF M!IsFun, M!Fun
        <4> QED
          BY <4>1, <4>2, <4>3, KeptKinds
      <3> QED
        BY <3>1
    <2>2. M!IsFun(M!Fun("malloc")) /\ M!Fun("malloc").at = "malloc"
      BY DEF M!IsFun, M!Fun
    <2>3. Finds(p, S, Called(i), "malloc")
      BY <2>0, <2>2
    <2>4. CallAnswered(p, C, A, H, i, S, T)
      BY <1>1, <1>3 DEF StepOK
    <2>5. Answered(p, C, A, H, i, S, T, "malloc")
      BY <2>3, <2>4, Zenon DEF CallAnswered
    <2> QED
      BY <1>1, <1>3, <2>1, <2>5, Zenon DEF Answered, Allocates
  <1>4. Allocates(i) /\ OthersKept(p, i.dst, S, T) /\ SiteKnown(A, i.dst, T)
    BY <1>2, <1>3
  <1>5. Shaped(p, fs, mem) /\ Followed(p, C, H, fs, ss)
    BY DEF RunOK
  <1>6. Len(fs) = 1 /\ fr.block = p.entry[fr.fn]
    BY <1>1, <1>4, <1>5, Allocating, ZenonT(60)
  <1> QED
    BY <1>1, <1>4, <1>6, Zenon DEF AllocatesHere

\* No instruction but this one defines what it allocates.
LEMMA AllocatesOnce ==
  ASSUME NEW p, IsModule(p), IsRunnable(p), NEW fr, NEW e \in BlocksOf(p), e = p.entry[fr.fn], fr.block = e,
         fr.pos \in DOMAIN p.code[e], Allocates(p.code[e][fr.pos]),
         NEW v, AllocatedBy(p, fr, v)
  PROVE  v # p.code[e][fr.pos].dst
  <1>1. PICK k \in DOMAIN p.code[e] : Allocates(p.code[e][k]) /\ p.code[e][k].dst = v /\ k < fr.pos
    BY Zenon DEF AllocatedBy
  <1>2. Defines(p.code[e][k]) /\ Defines(p.code[e][fr.pos])
    BY <1>1 DEF Allocates, Defines
  <1>3. DOMAIN p.code[e] = 1 .. Len(p.code[e]) /\ Len(p.code[e]) \in Nat
    BY BlockInsts
  <1>4. k # fr.pos
    BY <1>1, <1>3
  <1>5. \A a, b \in DOMAIN p.code[e] :
            /\ Defines(p.code[e][a]) /\ Defines(p.code[e][b]) /\ p.code[e][a].dst = p.code[e][b].dst
            => a = b
    <2>1. DefinedOnce(p)
      BY DEF IsRunnable
    <2> QED
      BY <2>1, Zenon DEF DefinedOnce
  <1> QED
    BY <1>1, <1>2, <1>4, <1>5, Zenon

LEMMA AllocateMoves ==
  ASSUME NEW p, NEW C, NEW A, NEW H, Fit(p, C, A, H), NEW fs, NEW mem, NEW al, NEW ss,
         RunOK(p, C, A, H, fs, mem, al, ss), fs # <<>>,
         NEW fr, fr = fs[Len(fs)], fr.pos <= Len(p.code[fr.block]),
         NEW i, i = p.code[fr.block][fr.pos],
         i.op = "alloca" \/ (i.op = "call" /\ ValueOf(p, fr.env, Called(i)) = M!Fun("malloc")),
         NEW new, new = Append(mem, [k \in {M!FirstField} |-> M!Undefined]),
         NEW x, x = M!Address(Len(mem) + 1, M!FirstField),
         NEW gs, gs = [fs EXCEPT ![Len(fs)] = Assigned(fr, i.dst, x)]
  PROVE  \E all : RunOK(p, C, A, H, gs, new, all, ss)
  <1>1. PICK S : S = FactsAt(ss[Len(fs)], fr)
    OBVIOUS
  <1>2. PICK T : T = ss[Len(fs)].at[fr.block][fr.pos + 1]
    BY Zenon
  <1>3. /\ Allocates(i) /\ OthersKept(p, i.dst, S, T) /\ SiteKnown(A, i.dst, T)
        /\ fr.pos \in DOMAIN p.code[fr.block]
        /\ Len(fs) = 1 /\ fr.block = p.entry[fr.fn]
    <2>1. AllocatesHere(p, A, fs, fr, i, S, T)
      BY <1>1, <1>2, AllocatedKnown, Zenon
    <2> QED
      BY <2>1, Zenon DEF AllocatesHere
  <1>4. /\ Shaped(p, fs, mem) /\ Sited(p, A, fs, mem, al) /\ Followed(p, C, H, fs, ss)
        /\ IsModule(p) /\ IsRunnable(p)
    BY Zenon DEF RunOK, Fit
  <1>5. Len(fs) \in DOMAIN fs /\ i \in CodeOf(p, fr.block) /\ i \in InstsOf(p)
    BY InstHeld, Zenon
  <1>6. Len(fs) = 1 /\ fr.block = p.entry[fr.fn]
    BY <1>3, Zenon
  <1>7. PICK m \in Nat : m = Len(mem)
    BY <1>4, SeqLength, Zenon DEF Shaped
  <1>8. /\ Len(new) = m + 1 /\ DOMAIN mem = 1 .. m /\ DOMAIN new = 1 .. m + 1
        /\ \A o \in 1 .. m : new[o] = mem[o]
        /\ new[m + 1] = [k \in {M!FirstField} |-> M!Undefined]
        /\ new \in Seq(Object(p, m + 1))
    <2>1. Object(p, m) \subseteq Object(p, m + 1)
      <3>1. m + 1 \in Nat /\ m <= m + 1
        OBVIOUS
      <3> QED
        BY <3>1, MoreObjects
    <2>2. [k \in {M!FirstField} |-> M!Undefined] \in Object(p, m + 1)
      <3>1. M!Undefined \in KeptValues(p, m + 1)
        BY DEF KeptValues
      <3> QED
        BY <3>1 DEF Object
    <2>3. PICK X : X = Object(p, m + 1)
      OBVIOUS
    <2>4. mem \in Seq(Object(p, m))
      BY <1>4, <1>7 DEF Shaped
    <2>5. PICK u : u = [k \in {M!FirstField} |-> M!Undefined]
      OBVIOUS
    <2>6. mem \in Seq(X) /\ u \in X /\ new = Append(mem, u)
      <3>1. \A s \in Seq(Object(p, m)) : s \in Seq(X)
        BY <2>1, <2>3
      <3>2. u \in X /\ new = Append(mem, u)
        BY <2>2, <2>3, <2>5, Zenon
      <3> QED
        BY <2>4, <3>1, <3>2
    <2>7. ASSUME NEW s \in Seq(X), NEW w \in X, NEW t, t = Append(s, w), m = Len(s)
          PROVE  /\ Len(t) = m + 1 /\ DOMAIN s = 1 .. m /\ DOMAIN t = 1 .. m + 1
                 /\ \A o \in 1 .. m : t[o] = s[o]
                 /\ t[m + 1] = w /\ t \in Seq(X)
      BY <2>7
    <2>8. /\ Len(new) = m + 1 /\ DOMAIN mem = 1 .. m /\ DOMAIN new = 1 .. m + 1
          /\ \A o \in 1 .. m : new[o] = mem[o]
          /\ new[m + 1] = u /\ new \in Seq(X)
      BY <1>7, <2>6, <2>7, Zenon
    <2> QED
      BY <2>3, <2>5, <2>8
  <1>9. PICK all : all = [o \in 1 .. m + 1 |-> IF o = m + 1 THEN i.dst ELSE al[o]]
    BY Zenon
  <1>91. DOMAIN all = 1 .. m + 1 /\ all[m + 1] = i.dst /\ \A o \in 1 .. m : o \in 1 .. m + 1 /\ all[o] = al[o]
    <2>1. \A o \in 1 .. m : o \in 1 .. m + 1 /\ o # m + 1
      OBVIOUS
    <2>2. m + 1 \in 1 .. m + 1
      OBVIOUS
    <2> QED
      BY <1>9, <2>1, <2>2, Zenon
  <1>10. /\ Agree(al, all, DOMAIN mem) /\ Agree(mem, new, DOMAIN mem)
         /\ Fresh(new, (DOMAIN new) \ DOMAIN mem)
    <2>2. \A o \in 1 .. m + 1 : o \in 1 .. m \/ o = m + 1
      OBVIOUS
    <2>3. Agree(al, all, DOMAIN mem)
      BY <1>8, <1>91 DEF Agree
    <2>4. Agree(mem, new, DOMAIN mem)
      BY <1>8 DEF Agree
    <2>5. Fresh(new, (DOMAIN new) \ DOMAIN mem)
      BY <1>8, <2>2 DEF Fresh
    <2> QED
      BY <2>3, <2>4, <2>5
  <1>11. /\ fr \in Invocation(p, m) /\ InPlace(p, fr) /\ fr.block \in p.block[fr.fn] /\ fr.pos \in Nat
         /\ fr.block \in BlocksOf(p)
    BY <1>4, <1>5, <1>7, FrameFacts
  <1>12. x \in KeptValues(p, m + 1) /\ i.dst \in p.value /\ m + 1 \in Nat /\ m <= m + 1
    <2>1. m + 1 \in 1 .. m + 1 /\ m + 1 \in Nat /\ m <= m + 1
      OBVIOUS
    <2>2. x \in KeptValues(p, m + 1)
      BY <1>7, <2>1 DEF KeptValues
    <2>3. i.op # "ret"
      BY <1>3, Zenon DEF Allocates
    <2> QED
      BY <1>5, <1>11, <2>1, <2>2, <2>3, Operands, Zenon
  <1>13. Known(A, all, T, i.dst, x)
    <2>1. all[m + 1] = i.dst
      BY <1>91
    <2>2. x.object = m + 1 /\ ~M!IsFun(x)
      <3>1. x.object = m + 1
        BY <1>7 DEF M!Address
      <3>2. m + 1 # 0
        OBVIOUS
      <3> QED
        BY <3>1, <3>2, Zenon DEF M!IsFun
    <2> QED
      BY <1>3, <2>1, <2>2, Zenon DEF Known, SiteKnown
  <1>14. PICK g : g = Assigned(fr, i.dst, x)
    BY Zenon
  <1>15. Receives(p, m + 1, fr, i.dst, x, g)
    <2>1. i.dst \in Registers(p, fr.fn)
      <3>1. Defines(i)
        BY <1>3, Zenon DEF Allocates, Defines
      <3> QED
        BY <1>5, <1>11, <3>1, DstRegister, Zenon
    <2>2. fr \in Invocation(p, m + 1)
      BY <1>11, <1>12, MoreObjects
    <2> QED
      BY <1>4, <1>11, <1>12, <1>14, <2>1, <2>2, AssignedShape, Zenon
  <1>16. g.fn = fr.fn /\ g.block = fr.block /\ g.pos = fr.pos + 1
    BY <1>15, Zenon DEF Receives
  <1>17. gs = [fs EXCEPT ![Len(fs)] = g]
    BY <1>14, Zenon
  <1>18. Sited(p, A, gs, mem, al)
    <2>1. g.pos \in Nat /\ fr.pos <= g.pos
      BY <1>11, <1>16
    <2> QED
      BY <1>4, <1>16, <1>17, <2>1, TopSited
  <1>19. gs[1] = g /\ fr = fs[1]
    BY <1>5, <1>6, <1>17
  <1>20. Sited(p, A, gs, new, all)
    <2>1. AllocatedBy(p, g, i.dst)
      <3>1. fr.pos \in DOMAIN p.code[p.entry[g.fn]] /\ i = p.code[p.entry[g.fn]][fr.pos]
        BY <1>3, <1>6, <1>16, Zenon
      <3>2. fr.pos < g.pos
        BY <1>11, <1>16
      <3> QED
        BY <1>3, <3>1, <3>2, Zenon DEF AllocatedBy
    <2>2. ASSUME NEW o \in 1 .. m PROVE al[o] # i.dst
      <3>1. AllocatedBy(p, fr, al[o])
        BY <1>4, <1>8, <1>19 DEF Sited
      <3> QED
        BY <1>3, <1>4, <1>6, <1>11, <3>1, AllocatesOnce, Zenon
    <2>3. \A o \in 1 .. m + 1 : o \in 1 .. m \/ o = m + 1
      OBVIOUS
    <2>4. \A o \in 1 .. m : o \in 1 .. m + 1 /\ all[o] = al[o]
      BY <1>91
    <2>5. DOMAIN all = 1 .. m + 1 /\ all[m + 1] = i.dst
      BY <1>91
    <2>6. \A o \in 1 .. m : al[o] \in DOMAIN A /\ AllocatedBy(p, g, al[o])
      BY <1>8, <1>18, <1>19, Zenon DEF Sited
    <2>7. \A o, q \in 1 .. m : al[o] = al[q] => o = q
      BY <1>8, <1>18, Zenon DEF Sited
    <2>8. i.dst \in DOMAIN A
      BY <1>3, Zenon DEF SiteKnown
    <2>9. \A o \in 1 .. m + 1 : all[o] \in DOMAIN A /\ AllocatedBy(p, g, all[o])
      BY <2>1, <2>3, <2>4, <2>5, <2>6, <2>8, Zenon
    <2>10. \A o, q \in 1 .. m + 1 : all[o] = all[q] => o = q
      BY <2>2, <2>3, <2>4, <2>5, <2>7, ZenonT(60)
    <2> QED
      BY <1>8, <1>19, <2>5, <2>9, <2>10, Zenon DEF Sited
  <1>21. Defines(i)
    BY <1>3 DEF Allocates, Defines
  <1>22. /\ new \in Seq(Object(p, Len(new))) /\ Len(mem) <= Len(new) /\ x \in KeptValues(p, Len(new))
         /\ T = ss[Len(fs)].at[fr.block][fr.pos + 1] /\ OthersKept(p, i.dst, FactsAt(ss[Len(fs)], fr), T)
    BY <1>1, <1>2, <1>3, <1>7, <1>8, <1>12, Zenon
  <1>23. RunOK(p, C, A, H, gs, new, all, ss)
    BY <1>10, <1>12, <1>13, <1>20, <1>21, <1>22, AssignMoves, Zenon
  <1> QED
    BY <1>23, Zenon

-----------------------------------------------------------------------------
\* A store replaces what an object holds.
Advanced(fr) == [fr EXCEPT !.pos = @ + 1]

LEMMA MakeInvocation ==
  ASSUME NEW p, NEW m, NEW f \in FuncsOf(p), NEW b \in BlocksOf(p), NEW d \in BlocksOf(p) \cup {""},
         NEW n \in Nat \ {0}, NEW e \in Envs(p, m)
  PROVE  [fn |-> f, block |-> b, from |-> d, pos |-> n, env |-> e] \in Invocation(p, m)
  BY Zenon DEF Invocation

\* g is fr one instruction on.
Passes(p, m, fr, g) ==
    /\ g \in Invocation(p, m) /\ InPlace(p, g)
    /\ g.fn = fr.fn /\ g.block = fr.block /\ g.pos = fr.pos + 1 /\ g.env = fr.env

LEMMA AdvancedShape ==
  ASSUME NEW p, IsModule(p), NEW m, NEW fr \in Invocation(p, m), InPlace(p, fr),
         fr.pos <= Len(p.code[fr.block]), NEW g, g = Advanced(fr)
  PROVE  Passes(p, m, fr, g)
  <1>1. /\ fr.fn \in FuncsOf(p) /\ fr.block \in BlocksOf(p) /\ fr.from \in BlocksOf(p) \cup {""}
        /\ fr.pos \in Nat \ {0} /\ fr.env \in Envs(p, m)
        /\ fr = [fn |-> fr.fn, block |-> fr.block, from |-> fr.from, pos |-> fr.pos, env |-> fr.env]
    BY Zenon DEF Invocation
  <1>2. g = [fn |-> fr.fn, block |-> fr.block, from |-> fr.from, pos |-> fr.pos + 1, env |-> fr.env]
    BY <1>1, Zenon DEF Advanced
  <1>3. fr.pos + 1 \in Nat \ {0}
    <2>1. fr.pos \in Nat
      BY <1>1, Zenon
    <2> QED
      BY <2>1
  <1>4. g \in Invocation(p, m)
    <2>1. /\ fr.fn \in FuncsOf(p) /\ fr.block \in BlocksOf(p) /\ fr.from \in BlocksOf(p) \cup {""}
          /\ fr.env \in Envs(p, m)
      BY <1>1, Zenon
    <2>2. [fn |-> fr.fn, block |-> fr.block, from |-> fr.from, pos |-> fr.pos + 1, env |-> fr.env]
            \in Invocation(p, m)
      BY <1>3, <2>1, MakeInvocation, Zenon
    <2> QED
      BY <1>2, <2>2, Zenon
  <1>5. g.fn = fr.fn /\ g.block = fr.block /\ g.pos = fr.pos + 1 /\ g.env = fr.env
    BY <1>2
  <1>6. g.pos <= End(p, g.block)
    <2>1. Len(p.code[fr.block]) \in Nat
      BY <1>1, BlockInsts, Zenon
    <2>2. fr.pos \in Nat
      BY <1>1, Zenon
    <2>3. g.pos <= Len(p.code[fr.block]) + 1
      BY <1>5, <2>1, <2>2
    <2> QED
      BY <1>5, <2>3 DEF End
  <1>7. InPlace(p, g)
    BY <1>5, <1>6 DEF InPlace
  <1> QED
    BY <1>4, <1>5, <1>7 DEF Passes

\* The object the store at hand writes to, by the facts before and after it.
Stores(p, A, al, mem, S, T, i, a, x) ==
    /\ a.object \in DOMAIN mem /\ a = M!Address(a.object, M!FirstField)
    /\ x \in KeptValues(p, Len(mem))
    /\ Known(A, al, T, A[al[a.object]], x)
    /\ \A v \in p.value : v # A[al[a.object]] => S[v] \subseteq T[v]

LEMMA StoredKnown ==
  ASSUME NEW p, NEW C, NEW A, NEW H, Fit(p, C, A, H), NEW fs, NEW mem, NEW al, NEW ss,
         RunOK(p, C, A, H, fs, mem, al, ss), fs # <<>>,
         NEW fr, fr = fs[Len(fs)], fr.pos <= Len(p.code[fr.block]),
         NEW i, i = p.code[fr.block][fr.pos], i.op = "store",
         NEW a, a = ValueOf(p, fr.env, i.dst), M!IsAddress(a),
         NEW x, x = ValueOf(p, fr.env, i.src[1]),
         NEW S, S = FactsAt(ss[Len(fs)], fr), NEW T, T = ss[Len(fs)].at[fr.block][fr.pos + 1]
  PROVE  Stores(p, A, al, mem, S, T, i, a, x)
  <1>1. /\ Shaped(p, fs, mem) /\ Sited(p, A, fs, mem, al)
    BY Zenon DEF RunOK
  <1>2. /\ Len(fs) \in DOMAIN fs /\ i \in InstsOf(p) /\ i \in CodeOf(p, fr.block)
        /\ StepOK(p, C, A, H, ss[Len(fs)].callers, i, S, T)
    BY InstHeld, Zenon
  <1>3. fr.block \in BlocksOf(p)
    BY <1>1, <1>2, FrameFacts, Zenon
  <1>4. i.src[1] # "malloc"
    BY <1>2, <1>3, Operands, Zenon
  <1>5. OperandOK(p, A, al, Len(mem), S, fr.env, i.dst) /\ OperandOK(p, A, al, Len(mem), S, fr.env, i.src[1])
    BY OperandKnown, Zenon
  <1>6. /\ Known(A, al, S, i.dst, a) /\ a \in KeptValues(p, Len(mem))
        /\ Known(A, al, S, i.src[1], x) /\ x \in KeptValues(p, Len(mem))
    BY <1>4, <1>5, Zenon DEF OperandOK
  <1>7. mem \in Seq(Object(p, Len(mem)))
    BY <1>1, Zenon DEF Shaped
  <1>8. Len(mem) \in Nat /\ DOMAIN mem = 1 .. Len(mem)
    BY <1>7, SeqLength, Zenon
  <1>9. a.object \in DOMAIN mem /\ a = M!Address(a.object, M!FirstField)
    BY <1>6, <1>8, KeptKinds, ZenonT(60)
  <1>10. PICK w : w = A[al[a.object]]
    BY Zenon
  <1>11. w \in S[i.dst] /\ w \in p.value
    <2>1. al[a.object] \in DOMAIN A
      BY <1>1, <1>9, Zenon DEF Sited
    <2> QED
      BY <1>6, <1>10, <2>1, Kinds, Zenon DEF Known
  <1>12. \A v \in p.value : (S[i.dst] # {v} => S[v] \subseteq T[v]) /\ (v \in S[i.dst] => S[i.src[1]] \subseteq T[v])
    BY <1>2, Zenon DEF StepOK
  <1>13. Known(A, al, T, w, x)
    BY <1>6, <1>11, <1>12, KnownIn, Zenon
  <1>14. ASSUME NEW v \in p.value, v # w PROVE S[v] \subseteq T[v]
    <2>1. S[i.dst] # {v}
      BY <1>11, <1>14, Zenon
    <2> QED
      BY <1>12, <2>1, Zenon
  <1> QED
    BY <1>6, <1>9, <1>10, <1>13, <1>14, Zenon DEF Stores

-----------------------------------------------------------------------------
\* An object's one field is written.
Written(p, mem, new, o, x) ==
    /\ new \in Seq(Object(p, Len(mem))) /\ Len(new) = Len(mem) /\ DOMAIN new = DOMAIN mem
    /\ \A q \in DOMAIN mem : q # o => new[q] = mem[q]
    /\ new[o][M!FirstField] = x

\* The sequence t is s with u in the place o.
Substituted(X, s, o, u, t) ==
    /\ t \in Seq(X) /\ Len(t) = Len(s) /\ DOMAIN t = DOMAIN s /\ t[o] = u
    /\ \A q \in DOMAIN s : q # o => t[q] = s[q]

LEMMA ReplaceElement ==
  ASSUME NEW X, NEW s \in Seq(X), NEW o \in DOMAIN s, NEW u \in X, NEW t, t = [s EXCEPT ![o] = u]
  PROVE  Substituted(X, s, o, u, t)
  BY DEF Substituted

LEMMA FieldWritten ==
  ASSUME NEW p, NEW mem, mem \in Seq(Object(p, Len(mem))), NEW o \in DOMAIN mem,
         NEW x \in KeptValues(p, Len(mem)), NEW new, new = [mem EXCEPT ![o][M!FirstField] = x]
  PROVE  Written(p, mem, new, o, x)
  <1>1. PICK X : X = Object(p, Len(mem))
    OBVIOUS
  <1>2. PICK u : u = [mem[o] EXCEPT ![M!FirstField] = x]
    OBVIOUS
  <1>3. mem[o] \in Object(p, Len(mem))
    BY SeqElement, Zenon
  <1>4. u \in Object(p, Len(mem)) /\ u[M!FirstField] = x
    BY <1>2, <1>3 DEF Object
  <1>5. new = [mem EXCEPT ![o] = u]
    BY <1>2
  <1>6. mem \in Seq(X) /\ u \in X
    BY <1>1, <1>4, Zenon
  <1>7. /\ new \in Seq(X) /\ Len(new) = Len(mem) /\ DOMAIN new = DOMAIN mem /\ new[o] = u
        /\ \A q \in DOMAIN mem : q # o => new[q] = mem[q]
    <2>1. Substituted(X, mem, o, u, new)
      BY <1>5, <1>6, ReplaceElement, Zenon
    <2> QED
      BY <2>1, Zenon DEF Substituted
  <1>8. new \in Seq(Object(p, Len(mem)))
    BY <1>1, <1>7, Zenon
  <1>9. new[o][M!FirstField] = x
    BY <1>4, <1>7, Zenon
  <1> QED
    BY <1>7, <1>8, <1>9, Zenon DEF Written

LEMMA InRange ==
  ASSUME NEW n \in Nat, NEW k \in 1 .. n
  PROVE  k <= n
  OBVIOUS

LEMMA NotMore ==
  ASSUME NEW n \in Nat
  PROVE  n <= n
  OBVIOUS

LEMMA Following ==
  ASSUME NEW n \in Nat, NEW m, m = n + 1
  PROVE  m \in Nat /\ n <= m
  OBVIOUS

\* A step of the top that changes no register holds what it held, up to the objects.
InObject(A, al, mem, v, y) == \E o \in DOMAIN mem : v = A[al[o]] /\ y = mem[o][M!FirstField]

LEMMA SameHeld ==
  ASSUME NEW p, NEW A, NEW fs, NEW mem, NEW al, fs # <<>>, NEW g, g.env = fs[Len(fs)].env,
         NEW gs, gs = [fs EXCEPT ![Len(fs)] = g], NEW new, NEW v, NEW y,
         Holds(p, A, al, gs, new, v, y)
  PROVE  Holds(p, A, al, fs, mem, v, y) \/ InObject(A, al, new, v, y)
  <1>1. ASSUME NEW k \in DOMAIN gs, v \in DOMAIN gs[k].env, y = gs[k].env[v]
        PROVE  k \in DOMAIN fs /\ v \in DOMAIN fs[k].env /\ y = fs[k].env[v]
    <2>1. k \in DOMAIN fs /\ gs[k] = IF k = Len(fs) THEN g ELSE fs[k]
      BY <1>1
    <2>2. gs[k].env = fs[k].env
      BY <2>1
    <2> QED
      BY <1>1, <2>1, <2>2
  <1> QED
    BY <1>1 DEF Holds, InObject

\* The top of the stack becomes g, and the objects new, which come from the allocations all.
Proceeding(p, C, A, H, fs, mem, al, ss, g, gs, new, all) ==
    /\ Fit(p, C, A, H) /\ RunOK(p, C, A, H, fs, mem, al, ss) /\ fs # <<>>
    /\ new \in Seq(Object(p, Len(new))) /\ Len(mem) <= Len(new)
    /\ g \in Invocation(p, Len(new)) /\ InPlace(p, g) /\ g.fn = fs[Len(fs)].fn
    /\ gs = [fs EXCEPT ![Len(fs)] = g]
    /\ Sited(p, A, gs, new, all)
    /\ Cover(p, A, all, gs, new, FactsAt(ss[Len(fs)], g))

LEMMA ProceedingMoves ==
  ASSUME NEW p, NEW C, NEW A, NEW H, NEW fs, NEW mem, NEW al, NEW ss, NEW g, NEW gs, NEW new, NEW all,
         Proceeding(p, C, A, H, fs, mem, al, ss, g, gs, new, all)
  PROVE  RunOK(p, C, A, H, gs, new, all, ss)
  BY TopMoves DEF Proceeding

LEMMA WriteMoves ==
  ASSUME NEW p, NEW C, NEW A, NEW H, Fit(p, C, A, H), NEW fs, NEW mem, NEW al, NEW ss,
         RunOK(p, C, A, H, fs, mem, al, ss), fs # <<>>,
         NEW fr, fr = fs[Len(fs)], fr.pos <= Len(p.code[fr.block]),
         NEW i, i = p.code[fr.block][fr.pos], i.op = "store",
         NEW a, a = ValueOf(p, fr.env, i.dst), M!IsAddress(a),
         NEW x, x = ValueOf(p, fr.env, i.src[1]),
         NEW new, new = [mem EXCEPT ![a.object][a.at] = x],
         NEW gs, gs = [fs EXCEPT ![Len(fs)] = Advanced(fr)]
  PROVE  RunOK(p, C, A, H, gs, new, al, ss)
  <1>1. PICK S : S = FactsAt(ss[Len(fs)], fr)
    BY Zenon
  <1>2. PICK T : T = ss[Len(fs)].at[fr.block][fr.pos + 1]
    BY Zenon
  <1>3. Stores(p, A, al, mem, S, T, i, a, x)
    BY <1>1, <1>2, StoredKnown, ZenonT(60)
  <1>4. PICK o : o = a.object
    BY Zenon
  <1>5. /\ o \in DOMAIN mem /\ a = M!Address(o, M!FirstField) /\ x \in KeptValues(p, Len(mem))
        /\ Known(A, al, T, A[al[o]], x)
        /\ \A v \in p.value : v # A[al[o]] => S[v] \subseteq T[v]
    BY <1>3, <1>4, Zenon DEF Stores
  <1>6. a.at = M!FirstField
    <2>1. \A q : M!Address(q, M!FirstField).at = M!FirstField
      BY Zenon DEF M!Address
    <2> QED
      BY <1>5, <2>1, Zenon
  <1>7. /\ Shaped(p, fs, mem) /\ Sited(p, A, fs, mem, al) /\ Followed(p, C, H, fs, ss) /\ IsModule(p)
        /\ Cover(p, A, al, fs, mem, S)
    BY <1>1, Zenon DEF RunOK, Fit
  <1>8. Len(mem) \in Nat /\ mem \in Seq(Object(p, Len(mem)))
    BY <1>7, SeqLength, Zenon DEF Shaped
  <1>9. Written(p, mem, new, o, x)
    <2>1. new = [mem EXCEPT ![o][M!FirstField] = x]
      BY <1>4, <1>6, Zenon
    <2> QED
      BY <1>5, <1>8, <2>1, FieldWritten, Zenon
  <1>10. Len(fs) \in DOMAIN fs
    BY InstHeld, Zenon
  <1>11. fr \in Invocation(p, Len(mem)) /\ InPlace(p, fr) /\ fr.pos \in Nat
    BY <1>7, <1>10, FrameFacts, Zenon
  <1>12. PICK g : g = Advanced(fr)
    BY Zenon
  <1>13. Passes(p, Len(mem), fr, g)
    BY <1>7, <1>11, <1>12, AdvancedShape, Zenon
  <1>14. /\ g \in Invocation(p, Len(mem)) /\ InPlace(p, g)
         /\ g.fn = fr.fn /\ g.block = fr.block /\ g.pos = fr.pos + 1 /\ g.env = fr.env
    BY <1>13, Zenon DEF Passes
  <1>15. gs = [fs EXCEPT ![Len(fs)] = g]
    BY <1>12, Zenon
  <1>16. Sited(p, A, gs, mem, al)
    <2>1. g.pos \in Nat /\ fr.pos <= g.pos
      BY <1>11, <1>14, Following, Zenon
    <2> QED
      BY <1>7, <1>14, <1>15, <2>1, TopSited, Zenon
  <1>17. Len(new) = Len(mem) /\ DOMAIN new = DOMAIN mem /\ new \in Seq(Object(p, Len(new)))
    BY <1>9, Zenon DEF Written
  <1>18. Sited(p, A, gs, new, al)
    BY <1>16, <1>17, Zenon DEF Sited
  <1>19. ASSUME NEW v, NEW y, Holds(p, A, al, fs, mem, v, y), v # A[al[o]] PROVE Known(A, al, T, v, y)
    <2>1. v \in p.value
      BY <1>7, <1>19, HolderKinds, Zenon
    <2>2. S[v] \subseteq T[v]
      BY <1>5, <1>19, <2>1, Zenon
    <2>3. Agree(al, al, DOMAIN mem) /\ DOMAIN al = DOMAIN mem
      BY <1>7, Zenon DEF Agree, Sited
    <2> QED
      BY <1>7, <1>19, <2>2, <2>3, Carries, Zenon
  <1>20. \A q \in DOMAIN mem : A[al[q]] = A[al[o]] => q = o
    <2>1. \A q \in DOMAIN mem : al[q] \in DOMAIN A
      BY <1>7, Zenon DEF Sited
    <2>2. \A q \in DOMAIN mem : al[q] = al[o] => q = o
      BY <1>5, <1>7, Zenon DEF Sited
    <2> QED
      BY <1>5, <2>1, <2>2, Zenon DEF Fit
  <1>21. ASSUME NEW v, NEW y, Holds(p, A, al, gs, new, v, y) PROVE Known(A, al, T, v, y)
    <2>1. CASE InObject(A, al, new, v, y)
      <3>1. PICK q \in DOMAIN new : v = A[al[q]] /\ y = new[q][M!FirstField]
        BY <2>1, Zenon DEF InObject
      <3>2. CASE q = o
        <4>1. v = A[al[o]] /\ y = x
          BY <1>9, <3>1, <3>2, Zenon DEF Written
        <4> QED
          BY <1>5, <4>1, Zenon
      <3>3. CASE q # o
        <4>1. q \in DOMAIN mem /\ new[q] = mem[q]
          BY <1>9, <3>1, <3>3, Zenon DEF Written
        <4>2. v # A[al[o]]
          BY <1>20, <3>1, <3>3, <4>1, Zenon
        <4>3. Holds(p, A, al, fs, mem, v, y)
          BY <3>1, <4>1, Zenon DEF Holds
        <4> QED
          BY <1>19, <4>2, <4>3, Zenon
      <3> QED
        BY <3>2, <3>3, Zenon
    <2>2. CASE ~InObject(A, al, new, v, y)
      <3>0. g.env = fs[Len(fs)].env
        BY <1>14, Zenon
      <3>1. Holds(p, A, al, fs, mem, v, y)
        BY <1>15, <1>21, <2>2, <3>0, SameHeld, ZenonT(60)
      <3>2. CASE v # A[al[o]]
        BY <1>19, <3>1, <3>2, Zenon
      <3>3. CASE v = A[al[o]]
        <4>1. al[o] \in DOMAIN A
          BY <1>5, <1>7, Zenon DEF Sited
        <4>2. v \notin FuncsOf(p) /\ \A f \in FuncsOf(p) : v \notin Registers(p, f)
          BY <3>3, <4>1, Kinds, Zenon
        <4>3. ~ \E k \in DOMAIN gs : v \in DOMAIN gs[k].env /\ y = gs[k].env[v]
          <5> SUFFICES ASSUME NEW k \in DOMAIN gs, v \in DOMAIN gs[k].env PROVE FALSE
            BY Zenon
          <5>1. k \in DOMAIN fs /\ gs[k] = IF k = Len(fs) THEN g ELSE fs[k]
            BY <1>15, Zenon
          <5>2. v \in DOMAIN fs[k].env
            BY <1>14, <5>1, Zenon
          <5>3. InPlace(p, fs[k]) /\ fs[k].fn \in FuncsOf(p)
            BY <1>7, <5>1, FrameFacts, Zenon
          <5> QED
            BY <4>2, <5>2, <5>3, Zenon DEF InPlace
        <4> QED
          BY <1>21, <2>2, <4>2, <4>3, Zenon DEF Holds, InObject
      <3> QED
        BY <3>2, <3>3, Zenon
    <2> QED
      BY <2>1, <2>2, Zenon
  <1>22. FactsAt(ss[Len(fs)], g) = T
    BY <1>2, <1>14, Zenon DEF FactsAt
  <1>23. Cover(p, A, al, gs, new, FactsAt(ss[Len(fs)], g))
    BY <1>21, <1>22, Zenon DEF Cover
  <1>24. Len(mem) <= Len(new) /\ g \in Invocation(p, Len(new))
    <2>1. Len(new) <= Len(new)
      BY <1>8, <1>17, NotMore, Zenon
    <2> QED
      BY <1>14, <1>17, <2>1, ZenonT(60)
  <1>25. g.fn = fs[Len(fs)].fn /\ InPlace(p, g)
    BY <1>14, Zenon
  <1>26. new \in Seq(Object(p, Len(new)))
    BY <1>17, Zenon
  <1>27. Proceeding(p, C, A, H, fs, mem, al, ss, g, gs, new, al)
    BY <1>15, <1>18, <1>23, <1>24, <1>25, <1>26, Zenon DEF Proceeding
  <1> QED
    BY <1>27, ProceedingMoves, ZenonT(60)

-----------------------------------------------------------------------------
\* At the end of a block.
Way(p, b) ==
    IF b \in DOMAIN p.cond
    THEN {IF p.cond[b].l > p.cond[b].r THEN p.cond[b].then ELSE p.cond[b].else}
    ELSE p.succ[b]
Jumped(fr, b) == [fr EXCEPT !.from = fr.block, !.block = b, !.pos = 1]

\* g is fr at the start of the block b.
Lands(p, m, fr, b, g) ==
    /\ g \in Invocation(p, m) /\ InPlace(p, g)
    /\ g.fn = fr.fn /\ g.block = b /\ g.pos = 1 /\ g.env = fr.env

LEMMA WayOut ==
  ASSUME NEW p, IsRunnable(p), NEW b \in BlocksOf(p), NEW c \in Way(p, b)
  PROVE  c \in p.succ[b]
  BY DEF IsRunnable, Way

LEMMA JumpedShape ==
  ASSUME NEW p, IsModule(p), NEW m, NEW fr \in Invocation(p, m), InPlace(p, fr),
         NEW b \in p.block[fr.fn], NEW g, g = Jumped(fr, b)
  PROVE  Lands(p, m, fr, b, g)
  <1>1. /\ fr.fn \in FuncsOf(p) /\ fr.block \in BlocksOf(p) /\ fr.env \in Envs(p, m)
        /\ fr = [fn |-> fr.fn, block |-> fr.block, from |-> fr.from, pos |-> fr.pos, env |-> fr.env]
    BY Zenon DEF Invocation
  <1>2. g = [fn |-> fr.fn, block |-> b, from |-> fr.block, pos |-> 1, env |-> fr.env]
    BY <1>1 DEF Jumped
  <1>3. b \in BlocksOf(p)
    BY <1>1 DEF BlocksOf
  <1>4. g \in Invocation(p, m)
    <2>1. fr.fn \in FuncsOf(p) /\ fr.block \in BlocksOf(p) \cup {""} /\ fr.env \in Envs(p, m)
      BY <1>1, Zenon
    <2>2. 1 \in Nat \ {0}
      OBVIOUS
    <2>3. [fn |-> fr.fn, block |-> b, from |-> fr.block, pos |-> 1, env |-> fr.env] \in Invocation(p, m)
      BY <1>3, <2>1, <2>2, MakeInvocation, Zenon
    <2> QED
      BY <1>2, <2>3, Zenon
  <1>5. g.fn = fr.fn /\ g.block = b /\ g.pos = 1 /\ g.env = fr.env
    BY <1>2
  <1>6. 1 <= End(p, b)
    <2>1. Len(p.code[b]) \in Nat
      BY <1>3, BlockInsts
    <2> QED
      BY <2>1 DEF End
  <1>7. InPlace(p, g)
    BY <1>5, <1>6 DEF InPlace
  <1> QED
    BY <1>4, <1>5, <1>7 DEF Lands

LEMMA AtEnd ==
  ASSUME NEW n \in Nat, NEW k \in Nat, k <= n + 1, ~(k <= n)
  PROVE  k = n + 1
  OBVIOUS

LEMMA BranchMoves ==
  ASSUME NEW p, NEW C, NEW A, NEW H, Fit(p, C, A, H), NEW fs, NEW mem, NEW al, NEW ss,
         RunOK(p, C, A, H, fs, mem, al, ss), fs # <<>>,
         NEW fr, fr = fs[Len(fs)], ~(fr.pos <= Len(p.code[fr.block])),
         NEW b \in Way(p, fr.block),
         NEW gs, gs = [fs EXCEPT ![Len(fs)] = Jumped(fr, b)]
  PROVE  RunOK(p, C, A, H, gs, mem, al, ss)
  <1>1. PICK S : S = FactsAt(ss[Len(fs)], fr)
    OBVIOUS
  <1>2. /\ Shaped(p, fs, mem) /\ Sited(p, A, fs, mem, al) /\ Followed(p, C, H, fs, ss) /\ IsModule(p)
        /\ Cover(p, A, al, fs, mem, S) /\ IsRunnable(p)
    BY <1>1, Zenon DEF RunOK, Fit
  <1>3. Len(fs) \in DOMAIN fs /\ Len(mem) \in Nat
    <2>1. fs \in Seq(Invocation(p, Len(mem))) /\ mem \in Seq(Object(p, Len(mem)))
      BY <1>2 DEF Shaped
    <2> QED
      BY <2>1, LastIndex, SeqLength, Zenon
  <1>4. /\ fr \in Invocation(p, Len(mem)) /\ InPlace(p, fr) /\ fr.pos \in Nat
        /\ fr.fn \in FuncsOf(p) /\ fr.block \in p.block[fr.fn] /\ fr.block \in BlocksOf(p)
        /\ fr.pos <= End(p, fr.block)
    BY <1>2, <1>3, FrameFacts
  <1>5. fr.pos = End(p, fr.block)
    <2>1. Len(p.code[fr.block]) \in Nat
      BY <1>2, <1>4, BlockInsts
    <2>2. fr.pos <= Len(p.code[fr.block]) + 1
      BY <1>4 DEF End
    <2>3. fr.pos = Len(p.code[fr.block]) + 1
      BY <1>4, <2>1, <2>2, AtEnd, Zenon
    <2> QED
      BY <2>3 DEF End
  <1>6. b \in p.succ[fr.block]
    BY <1>2, <1>4, WayOut
  <1>7. b \in p.block[fr.fn]
    BY <1>2, <1>4, <1>6 DEF IsModule
  <1>8. b # p.entry[fr.fn]
    <2>1. fr.fn \in DOMAIN p.entry
      BY <1>4 DEF InPlace
    <2> QED
      BY <1>2, <1>4, <1>6, <2>1 DEF IsRunnable
  <1>9. PICK g : g = Jumped(fr, b)
    OBVIOUS
  <1>10. /\ g \in Invocation(p, Len(mem)) /\ InPlace(p, g)
         /\ g.fn = fr.fn /\ g.block = b /\ g.pos = 1 /\ g.env = fr.env
    <2>1. Lands(p, Len(mem), fr, b, g)
      BY <1>2, <1>4, <1>7, <1>9, JumpedShape
    <2> QED
      BY <2>1 DEF Lands
  <1>11. gs = [fs EXCEPT ![Len(fs)] = g]
    BY <1>9
  <1>12. Sited(p, A, gs, mem, al)
    <2>1. g.pos \in Nat /\ g.block # p.entry[g.fn] /\ g.fn = fs[Len(fs)].fn
      BY <1>8, <1>10
    <2> QED
      BY <1>2, <1>11, <2>1, TopSited
  <1>13. PICK T : T = FactsAt(ss[Len(fs)], g)
    OBVIOUS
  <1>14. AllKept(p, S, T)
    <2>1. PICK s : s = ss[Len(fs)]
      OBVIOUS
    <2>2. s.fn = fr.fn /\ SummaryOK(p, C, A, H, s)
      BY <1>2, <1>3, <2>1, Zenon DEF Followed, Fit, HistoryOK
    <2>3. AllKept(p, s.at[fr.block][End(p, fr.block)], s.at[b][1])
      BY <1>4, <1>6, <2>2 DEF SummaryOK
    <2>4. S = s.at[fr.block][End(p, fr.block)] /\ T = s.at[b][1]
      BY <1>1, <1>5, <1>10, <1>13, <2>1 DEF FactsAt
    <2> QED
      BY <2>3, <2>4
  <1>15. ASSUME NEW v, NEW y, Holds(p, A, al, gs, mem, v, y) PROVE Known(A, al, T, v, y)
    <2>1. Holds(p, A, al, fs, mem, v, y)
      <3>1. g.env = fs[Len(fs)].env
        BY <1>10
      <3>2. Holds(p, A, al, fs, mem, v, y) \/ InObject(A, al, mem, v, y)
        BY <1>11, <1>15, <3>1, SameHeld
      <3> QED
        BY <3>2 DEF Holds, InObject
    <2>2. v \in p.value
      BY <1>2, <2>1, HolderKinds
    <2>3. S[v] \subseteq T[v]
      BY <1>14, <2>2 DEF AllKept
    <2>4. Agree(al, al, DOMAIN mem) /\ DOMAIN al = DOMAIN mem
      BY <1>2 DEF Agree, Sited
    <2> QED
      BY <1>2, <2>1, <2>3, <2>4, Carries
  <1>16. Cover(p, A, al, gs, mem, FactsAt(ss[Len(fs)], g))
    BY <1>13, <1>15 DEF Cover
  <1>17. g.fn = fs[Len(fs)].fn
    BY <1>10
  <1>18. Len(mem) <= Len(mem) /\ mem \in Seq(Object(p, Len(mem)))
    BY <1>2, <1>3, NotMore, Zenon DEF Shaped
  <1> QED
    BY <1>10, <1>11, <1>12, <1>16, <1>17, <1>18, TopMoves, Zenon

-----------------------------------------------------------------------------
\* A function is entered.
Opening(p, f, env) == [fn |-> f, block |-> p.entry[f], from |-> "", pos |-> 1, env |-> env]

\* g is an invocation of f that starts.
Begins(p, m, f, env, g) ==
    /\ g \in Invocation(p, m) /\ InPlace(p, g)
    /\ g.fn = f /\ g.block = p.entry[f] /\ g.pos = 1 /\ g.env = env

LEMMA EnteredShape ==
  ASSUME NEW p, IsModule(p), IsRunnable(p), NEW m, NEW f \in DOMAIN p.entry, NEW env \in Envs(p, m),
         DOMAIN env \subseteq Registers(p, f), NEW g, g = Opening(p, f, env)
  PROVE  Begins(p, m, f, env, g)
  <1>1. f \in FuncsOf(p) /\ p.block[f] # {}
    BY DEF IsRunnable
  <1>2. p.entry[f] \in p.block[f] /\ p.entry[f] \in BlocksOf(p)
    BY <1>1 DEF IsModule, BlocksOf
  <1>3. g \in Invocation(p, m)
    <2>1. "" \in BlocksOf(p) \cup {""} /\ 1 \in Nat \ {0}
      OBVIOUS
    <2>2. [fn |-> f, block |-> p.entry[f], from |-> "", pos |-> 1, env |-> env] \in Invocation(p, m)
      BY <1>1, <1>2, <2>1, MakeInvocation, Zenon
    <2> QED
      BY <2>2, Zenon DEF Opening
  <1>4. g.fn = f /\ g.block = p.entry[f] /\ g.pos = 1 /\ g.env = env
    BY Zenon DEF Opening
  <1>5. 1 <= End(p, p.entry[f])
    <2>1. Len(p.code[p.entry[f]]) \in Nat
      BY <1>2, BlockInsts
    <2> QED
      BY <2>1 DEF End
  <1>6. InPlace(p, g)
    BY <1>2, <1>4, <1>5 DEF InPlace
  <1> QED
    BY <1>3, <1>4, <1>6 DEF Begins

\* A sequence of one element; one of none.
Single(X, u, t) == t \in Seq(X) /\ Len(t) = 1 /\ DOMAIN t = {1} /\ t[1] = u /\ t # <<>>
LEMMA OneElement ==
  ASSUME NEW X, NEW u \in X, NEW t, t = <<u>>
  PROVE  Single(X, u, t)
  BY DEF Single

Nothing(X, t) == t \in Seq(X) /\ Len(t) = 0 /\ DOMAIN t = {}
LEMMA NoElement ==
  ASSUME NEW X, NEW t, t = <<>>
  PROVE  Nothing(X, t)
  BY DEF Nothing

LEMMA StartMoves ==
  ASSUME NEW p, NEW C, NEW A, NEW H, Fit(p, C, A, H), NEW f \in DOMAIN p.entry,
         NEW env \in Envs(p, 0), DOMAIN env = {}, NEW fs, fs = <<Opening(p, f, env)>>,
         NEW mem, mem = <<>>
  PROVE  \E al, ss : RunOK(p, C, A, H, fs, mem, al, ss)
  <1>1. PICK g : g = Opening(p, f, env)
    OBVIOUS
  <1>2. IsModule(p) /\ IsRunnable(p)
    BY Zenon DEF Fit
  <1>3. /\ g \in Invocation(p, 0) /\ InPlace(p, g)
        /\ g.fn = f /\ g.block = p.entry[f] /\ g.pos = 1 /\ g.env = env
    <2>1. Begins(p, 0, f, env, g)
      BY <1>1, <1>2, EnteredShape
    <2> QED
      BY <2>1 DEF Begins
  <1>4. PICK s \in H : s.fn = f
    BY Zenon DEF Fit
  <1>5. \A h \in FuncsOf(p) : h \in s.at[p.entry[f]][1][h]
    BY <1>4, Zenon DEF Fit, HistoryOK, SummaryOK
  <1>6. PICK ss : ss = <<s>>
    OBVIOUS
  <1>7. DOMAIN ss = {1} /\ ss[1] = s
    <2>1. Single(H, s, ss)
      BY <1>6, OneElement
    <2> QED
      BY <2>1 DEF Single
  <1>8. Len(fs) = 1 /\ DOMAIN fs = {1} /\ fs[1] = g /\ fs # <<>> /\ fs \in Seq(Invocation(p, 0))
    <2>1. Single(Invocation(p, 0), g, fs)
      BY <1>1, <1>3, OneElement
    <2> QED
      BY <2>1 DEF Single
  <1>9. Len(mem) = 0 /\ DOMAIN mem = {} /\ mem \in Seq(Object(p, 0))
    <2>1. Nothing(Object(p, 0), mem)
      BY NoElement
    <2> QED
      BY <2>1 DEF Nothing
  <1>10. Shaped(p, fs, mem)
    <2>1. mem \in Seq(Object(p, Len(mem)))
      BY <1>9
    <2>2. fs \in Seq(Invocation(p, Len(mem)))
      BY <1>8, <1>9
    <2>3. \A k \in DOMAIN fs : InPlace(p, fs[k])
      BY <1>3, <1>8
    <2> QED
      BY <1>8, <2>1, <2>2, <2>3, Zenon DEF Shaped
  <1>11. Sited(p, A, fs, mem, mem)
    BY <1>9 DEF Sited
  <1>12. Followed(p, C, H, fs, ss)
    <2>1. \A k \in DOMAIN fs : ss[k] \in H /\ ss[k].fn = fs[k].fn
      BY <1>3, <1>4, <1>7, <1>8
    <2>2. 1 .. Len(fs) - 1 = {}
      BY <1>8
    <2> QED
      BY <1>7, <1>8, <2>1, <2>2 DEF Followed
  <1>13. FactsAt(ss[Len(fs)], fs[Len(fs)]) = s.at[p.entry[f]][1]
    BY <1>3, <1>7, <1>8 DEF FactsAt
  <1>14. ASSUME NEW v, NEW x, Holds(p, A, mem, fs, mem, v, x)
         PROVE  Known(A, mem, s.at[p.entry[f]][1], v, x)
    <2>1. v \in FuncsOf(p) /\ x = M!Fun(v)
      BY <1>3, <1>8, <1>9, <1>14 DEF Holds
    <2> QED
      BY <1>5, <2>1, FunKnown
  <1>15. Cover(p, A, mem, fs, mem, FactsAt(ss[Len(fs)], fs[Len(fs)]))
    BY <1>13, <1>14 DEF Cover
  <1>16. RunOK(p, C, A, H, fs, mem, mem, ss)
    BY <1>10, <1>11, <1>12, <1>15, Zenon DEF RunOK
  <1> QED
    BY <1>16

-----------------------------------------------------------------------------
\* What a run holds is no parameter of a function that is about to be called.
LEMMA HeldSafe ==
  ASSUME NEW p, NEW C, NEW A, NEW H, Fit(p, C, A, H), NEW fs, NEW mem, NEW al, NEW ss,
         RunOK(p, C, A, H, fs, mem, al, ss), fs # <<>>,
         NEW fr, fr = fs[Len(fs)], fr.pos <= Len(p.code[fr.block]),
         NEW i, i = p.code[fr.block][fr.pos], i.op = "call",
         NEW v, NEW y, Holds(p, A, al, fs, mem, v, y)
  PROVE  Safe(p, C, i, v)
  <1>1. Shaped(p, fs, mem) /\ Sited(p, A, fs, mem, al) /\ Followed(p, C, H, fs, ss)
    BY DEF RunOK
  <1>2. /\ Len(fs) \in DOMAIN fs /\ i \in InstsOf(p) /\ fr.pos \in DOMAIN p.code[fr.block]
    BY InstHeld
  <1>3. fr.block \in p.block[fr.fn]
    BY <1>1, <1>2, FrameFacts
  <1>4. ASSUME NEW h \in C[i.dst] \ {"malloc"}, NEW j \in DOMAIN p.param[h]
        PROVE  p.param[h][j] # v
    <2>1. h \in FuncsOf(p)
      BY <1>2, Zenon DEF Fit
    <2>2. p.param[h][j] \in Registers(p, h)
      BY DEF Registers
    <2>3. Leads(p, C, fr.fn, h)
      BY <1>2, <1>3 DEF Leads
    <2>4. CASE v \in FuncsOf(p)
      BY <2>1, <2>2, <2>4, Kinds
    <2>5. CASE \E k \in DOMAIN fs : v \in DOMAIN fs[k].env
      <3>1. PICK k \in DOMAIN fs : v \in DOMAIN fs[k].env
        BY <2>5
      <3>2. InPlace(p, fs[k]) /\ fs[k].fn \in FuncsOf(p)
        BY <1>1, FrameFacts
      <3>3. k <= Len(fs)
        <4>1. fs \in Seq(Invocation(p, Len(mem)))
          BY <1>1 DEF Shaped
        <4>2. Len(fs) \in Nat /\ DOMAIN fs = 1 .. Len(fs)
          BY <4>1, SeqLength, Zenon
        <4> QED
          BY <4>2
      <3>4. ~Leads(p, C, fr.fn, fs[k].fn)
        BY <1>1, <1>2, <3>3, NotBack
      <3>5. fs[k].fn # h
        BY <2>3, <3>4
      <3>6. v \in Registers(p, fs[k].fn)
        BY <3>1, <3>2 DEF InPlace
      <3> QED
        BY <2>1, <2>2, <3>2, <3>5, <3>6, Kinds
    <2>6. CASE \E o \in DOMAIN mem : v = A[al[o]]
      <3>1. PICK o \in DOMAIN mem : v = A[al[o]]
        BY <2>6
      <3>2. al[o] \in DOMAIN A
        BY <1>1 DEF Sited
      <3> QED
        BY <2>1, <2>2, <3>1, <3>2, Kinds
    <2> QED
      BY <2>4, <2>5, <2>6 DEF Holds
  <1> QED
    BY <1>4 DEF Safe

\* A value that is not safe holds nothing.
LEMMA OperandSafe ==
  ASSUME NEW p, NEW C, NEW A, NEW H, Fit(p, C, A, H), NEW fs, NEW mem, NEW al, NEW ss,
         RunOK(p, C, A, H, fs, mem, al, ss), fs # <<>>,
         NEW fr, fr = fs[Len(fs)], fr.pos <= Len(p.code[fr.block]),
         NEW i, i = p.code[fr.block][fr.pos], i.op = "call", NEW v
  PROVE  Safe(p, C, i, v) \/ ValueOf(p, fr.env, v) = M!Undefined
  <1>1. Len(fs) \in DOMAIN fs
    BY InstHeld
  <1>2. CASE v \in FuncsOf(p)
    <2>1. Holds(p, A, al, fs, mem, v, M!Fun(v))
      BY <1>2 DEF Holds
    <2> QED
      BY <2>1, HeldSafe
  <1>3. CASE v \in DOMAIN fr.env
    <2>1. Holds(p, A, al, fs, mem, v, fr.env[v])
      BY <1>1, <1>3 DEF Holds
    <2> QED
      BY <2>1, HeldSafe
  <1> QED
    BY <1>2, <1>3 DEF ValueOf

\* The summary the callee goes by, which its caller has got the facts of.
Answers(p, C, H, i, S, T, f, s) ==
    /\ f \in C[i.dst] \ {"malloc"}
    /\ s \in H /\ s.fn = f /\ i.dst \in s.callers
    /\ Given(p, C, i, S, s.at[p.entry[f]][1], f)
    /\ Gives(p, s, T)

\* There is one.
Answerable(p, C, H, i, S, T, f) == \E s : Answers(p, C, H, i, S, T, f, s)

LEMMA CalleeAnswers ==
  ASSUME NEW p, NEW C, NEW A, NEW H, Fit(p, C, A, H), NEW fs, NEW mem, NEW al, NEW ss,
         RunOK(p, C, A, H, fs, mem, al, ss), fs # <<>>,
         NEW fr, fr = fs[Len(fs)], fr.pos <= Len(p.code[fr.block]),
         NEW i, i = p.code[fr.block][fr.pos], i.op = "call",
         NEW f \in DOMAIN p.entry, ValueOf(p, fr.env, Called(i)) = M!Fun(f),
         NEW S, S = FactsAt(ss[Len(fs)], fr), NEW T, T = ss[Len(fs)].at[fr.block][fr.pos + 1]
  PROVE  Answerable(p, C, H, i, S, T, f)
  <1>1. f # "malloc" /\ f \in FuncsOf(p) /\ f # ""
    <2>1. f \in FuncsOf(p)
      BY Zenon DEF Fit, IsRunnable
    <2>2. "malloc" \notin DOMAIN p.entry /\ "" \notin FuncsOf(p)
      BY Zenon DEF Fit, OneObjectPerSite
    <2> QED
      BY <2>1, <2>2, Zenon
  <1>2. StepOK(p, C, A, H, ss[Len(fs)].callers, i, S, T)
    BY InstHeld
  <1>3. CallAnswered(p, C, A, H, i, S, T)
    BY <1>2, Zenon DEF StepOK
  <1>4. M!IsFun(M!Fun(f)) /\ M!Fun(f).at = f
    BY <1>1, Zenon DEF M!IsFun, M!Fun
  <1>5. PICK x : x = ValueOf(p, fr.env, Called(i))
    OBVIOUS
  <1>6. OperandOK(p, A, al, Len(mem), S, fr.env, Called(i))
    BY OperandKnown
  <1>7. M!IsFun(x) => Finds(p, S, Called(i), x.at)
    BY <1>5, <1>6, Zenon DEF OperandOK
  <1>8. Finds(p, S, Called(i), f)
    BY <1>4, <1>5, <1>7
  <1>9. Answered(p, C, A, H, i, S, T, f)
    BY <1>3, <1>8, Zenon DEF CallAnswered
  <1>10. f \in C[i.dst] /\ Summarised(p, C, H, i, S, T, f)
    BY <1>1, <1>9, Zenon DEF Answered
  <1>11. PICK s \in H : /\ s.fn = f /\ i.dst \in s.callers
                        /\ Given(p, C, i, S, s.at[p.entry[f]][1], f)
                        /\ Gives(p, s, T)
    BY <1>10, Zenon DEF Summarised
  <1>12. Answers(p, C, H, i, S, T, f, s)
    BY <1>1, <1>10, <1>11, Zenon DEF Answers
  <1> QED
    BY <1>12, Zenon DEF Answerable

\* The parameters of f get the values of the operands of the call i.
Binds(p, f, i, fr, env) ==
    /\ DOMAIN env = {p.param[f][j] : j \in DOMAIN i.src}
    /\ \A v \in DOMAIN env : \E j \in DOMAIN i.src :
          p.param[f][j] = v /\ env[v] = ValueOf(p, fr.env, i.src[j])

\* They are values the facts at the entry know.
Delivered(p, A, al, m, f, E, env) ==
    /\ env \in Envs(p, m) /\ DOMAIN env \subseteq Registers(p, f)
    /\ \A v \in DOMAIN env : Known(A, al, E, v, env[v])

\* env is a function.
Mapping(env) == env = [v \in DOMAIN env |-> env[v]]

\* The parameter v of f may have the value x.
Suits(p, A, al, m, f, E, v, x) ==
    /\ v \in p.value /\ v \in Registers(p, f)
    /\ x \in KeptValues(p, m) /\ Known(A, al, E, v, x)

LEMMA ArgumentKnown ==
  ASSUME NEW p, NEW C, NEW A, NEW H, Fit(p, C, A, H), NEW fs, NEW mem, NEW al, NEW ss,
         RunOK(p, C, A, H, fs, mem, al, ss), fs # <<>>,
         NEW fr, fr = fs[Len(fs)], fr.pos <= Len(p.code[fr.block]),
         NEW i, i = p.code[fr.block][fr.pos], i.op = "call",
         NEW f \in C[i.dst] \ {"malloc"}, NEW S, S = FactsAt(ss[Len(fs)], fr),
         NEW E, Given(p, C, i, S, E, f), NEW j \in DOMAIN i.src, NEW v, v = p.param[f][j],
         NEW x, x = ValueOf(p, fr.env, i.src[j])
  PROVE  Suits(p, A, al, Len(mem), f, E, v, x)
  <1>1. Shaped(p, fs, mem)
    BY Zenon DEF RunOK
  <1>2. /\ Len(fs) \in DOMAIN fs /\ i \in InstsOf(p) /\ i \in CodeOf(p, fr.block)
    BY InstHeld, Zenon
  <1>3. fr.block \in BlocksOf(p)
    BY <1>1, <1>2, FrameFacts, Zenon
  <1>4. f \in FuncsOf(p) /\ j \in DOMAIN p.param[f]
    BY <1>2, Zenon DEF Fit, Fits
  <1>5. v \in Registers(p, f)
    BY <1>4, Zenon DEF Registers
  <1>6. v \in p.value
    BY <1>4, <1>5, Kinds, Zenon
  <1>7. i.src[j] # "malloc"
    BY <1>2, <1>3, Operands, Zenon
  <1>8. OperandOK(p, A, al, Len(mem), S, fr.env, i.src[j])
    BY OperandKnown, Zenon
  <1>9. Known(A, al, S, i.src[j], x) /\ x \in KeptValues(p, Len(mem))
    BY <1>7, <1>8, Zenon DEF OperandOK
  <1>10. CASE Safe(p, C, i, i.src[j])
    <2>1. S[i.src[j]] \subseteq E[v]
      BY <1>6, <1>10, Zenon DEF Given
    <2>2. Known(A, al, E, v, x)
      BY <1>9, <2>1, KnownIn, Zenon
    <2> QED
      BY <1>5, <1>6, <1>9, <2>2, Zenon DEF Suits
  <1>11. CASE ~Safe(p, C, i, i.src[j])
    <2>1. x = M!Undefined
      <3>1. Safe(p, C, i, i.src[j]) \/ ValueOf(p, fr.env, i.src[j]) = M!Undefined
        BY OperandSafe, ZenonT(60)
      <3>2. ValueOf(p, fr.env, i.src[j]) = M!Undefined
        BY <1>11, <3>1, Zenon
      <3> QED
        BY <3>2, Zenon
    <2>2. Known(A, al, E, v, x)
      BY <2>1, UndefinedKnown
    <2> QED
      BY <1>5, <1>6, <1>9, <2>2 DEF Suits
  <1> QED
    BY <1>10, <1>11, Zenon

LEMMA ArgumentsDelivered ==
  ASSUME NEW p, NEW C, NEW A, NEW H, Fit(p, C, A, H), NEW fs, NEW mem, NEW al, NEW ss,
         RunOK(p, C, A, H, fs, mem, al, ss), fs # <<>>,
         NEW fr, fr = fs[Len(fs)], fr.pos <= Len(p.code[fr.block]),
         NEW i, i = p.code[fr.block][fr.pos], i.op = "call",
         NEW f \in C[i.dst] \ {"malloc"}, NEW S, S = FactsAt(ss[Len(fs)], fr),
         NEW E, Given(p, C, i, S, E, f),
         NEW env, Binds(p, f, i, fr, env), Mapping(env)
  PROVE  Delivered(p, A, al, Len(mem), f, E, env)
  <1>1. ASSUME NEW v \in DOMAIN env
        PROVE  /\ v \in p.value /\ v \in Registers(p, f)
               /\ env[v] \in KeptValues(p, Len(mem)) /\ Known(A, al, E, v, env[v])
    <2>1. PICK j \in DOMAIN i.src : p.param[f][j] = v /\ env[v] = ValueOf(p, fr.env, i.src[j])
      BY ZenonT(60) DEF Binds
    <2>2. PICK x : x = env[v]
      BY Zenon
    <2>3. v = p.param[f][j] /\ x = ValueOf(p, fr.env, i.src[j])
      BY <2>1, <2>2, Zenon
    <2>4. Suits(p, A, al, Len(mem), f, E, v, x)
      BY <2>3, ArgumentKnown, ZenonT(60)
    <2> QED
      BY <2>2, <2>4, Zenon DEF Suits
  <1>2. PICK D : D = DOMAIN env
    BY Zenon
  <1>3. PICK K : K = KeptValues(p, Len(mem))
    BY Zenon
  <1>4. env \in [D -> K]
    BY <1>1, <1>2, <1>3, Zenon DEF Mapping
  <1>5. D \in SUBSET p.value
    BY <1>1, <1>2, Zenon
  <1>6. env \in Envs(p, Len(mem))
    BY <1>3, <1>4, <1>5, Zenon DEF Envs
  <1> QED
    BY <1>1, <1>6, Zenon DEF Delivered

Pushed(X, s, u, t) ==
    /\ t \in Seq(X) /\ Len(t) = Len(s) + 1 /\ DOMAIN t = 1 .. Len(s) + 1 /\ t # <<>>
    /\ t[Len(s) + 1] = u /\ \A k \in DOMAIN s : t[k] = s[k]

LEMMA PushElement ==
  ASSUME NEW X, NEW s \in Seq(X), NEW u \in X, NEW t, t = Append(s, u)
  PROVE  Pushed(X, s, u, t)
  BY DEF Pushed

\* Links between neighbours.
LEMMA Neighbours ==
  ASSUME NEW n \in Nat, n > 0
  PROVE  /\ \A k \in 1 .. n + 1 : k \in 1 .. n \/ k = n + 1
         /\ n + 1 \in 1 .. n + 1 /\ n \in 1 .. n /\ 1 \in 1 .. n /\ n # n + 1
         /\ \A k \in 1 .. n : k \in 1 .. n + 1 /\ k # n + 1
         /\ \A k \in 1 .. (n + 1) - 1 : (k \in 1 .. n - 1 /\ k \in 1 .. n /\ k + 1 \in 1 .. n) \/ k = n
  OBVIOUS

LEMMA PushFollowed ==
  ASSUME NEW p, NEW C, NEW A, NEW H, Fit(p, C, A, H), NEW fs, NEW mem, NEW ss,
         Shaped(p, fs, mem), Followed(p, C, H, fs, ss), fs # <<>>,
         NEW g, NEW s \in H, s.fn = g.fn,
         Awaits(p, C, ss[Len(fs)], s, fs[Len(fs)], g.fn),
         NEW gs, Pushed(Invocation(p, Len(mem)), fs, g, gs),
         NEW rr, rr = [k \in 1 .. Len(fs) + 1 |-> IF k = Len(fs) + 1 THEN s ELSE ss[k]]
  PROVE  Followed(p, C, H, gs, rr)
  <1>1. fs \in Seq(Invocation(p, Len(mem)))
    BY DEF Shaped
  <1>2. PICK n : n = Len(fs)
    OBVIOUS
  <1>3. n \in Nat /\ DOMAIN fs = 1 .. n /\ n \in DOMAIN fs
    BY <1>1, <1>2, SeqLength, LastIndex, Zenon
  <1>4. n > 0
    BY <1>3
  <1>5. /\ DOMAIN gs = 1 .. n + 1 /\ Len(gs) = n + 1 /\ gs[n + 1] = g
        /\ \A k \in 1 .. n : gs[k] = fs[k]
    BY <1>2, <1>3 DEF Pushed
  <1>6. /\ DOMAIN rr = 1 .. n + 1 /\ rr[n + 1] = s
        /\ \A k \in 1 .. n : rr[k] = ss[k]
    BY <1>2, <1>3, <1>4, Neighbours
  <1>7. ASSUME NEW k \in 1 .. n + 1 PROVE rr[k] \in H /\ rr[k].fn = gs[k].fn
    <2>1. CASE k = n + 1
      BY <1>5, <1>6, <2>1
    <2>2. CASE k \in 1 .. n
      BY <1>3, <1>5, <1>6, <2>2 DEF Followed
    <2> QED
      BY <1>3, <1>4, <2>1, <2>2, Neighbours
  <1>8. ASSUME NEW k \in 1 .. (n + 1) - 1
        PROVE  Awaits(p, C, rr[k], rr[k + 1], gs[k], gs[k + 1].fn)
    <2>1. CASE k = n
      <3>1. rr[k] = ss[n] /\ rr[k + 1] = s /\ gs[k] = fs[n] /\ gs[k + 1] = g
        BY <1>3, <1>5, <1>6, <2>1
      <3> QED
        BY <1>2, <3>1
    <2>2. CASE k \in 1 .. n - 1 /\ k \in 1 .. n /\ k + 1 \in 1 .. n
      <3>1. Awaits(p, C, ss[k], ss[k + 1], fs[k], fs[k + 1].fn)
        BY <1>2, <2>2 DEF Followed
      <3>2. rr[k] = ss[k] /\ rr[k + 1] = ss[k + 1] /\ gs[k] = fs[k] /\ gs[k + 1] = fs[k + 1]
        BY <1>5, <1>6, <2>2, SMTT(30)
      <3> QED
        BY <3>1, <3>2
    <2> QED
      BY <1>3, <1>4, <2>1, <2>2, Neighbours
  <1> QED
    BY <1>5, <1>6, <1>7, <1>8 DEF Followed

LEMMA InvokeMoves ==
  ASSUME NEW p, NEW C, NEW A, NEW H, Fit(p, C, A, H), NEW fs, NEW mem, NEW al, NEW ss,
         RunOK(p, C, A, H, fs, mem, al, ss), fs # <<>>,
         NEW fr, fr = fs[Len(fs)], fr.pos <= Len(p.code[fr.block]),
         NEW i, i = p.code[fr.block][fr.pos], i.op = "call",
         NEW f \in DOMAIN p.entry, ValueOf(p, fr.env, Called(i)) = M!Fun(f),
         NEW env, Binds(p, f, i, fr, env), Mapping(env),
         NEW gs, gs = Append(fs, Opening(p, f, env))
  PROVE  \E rr : RunOK(p, C, A, H, gs, mem, al, rr)
  <1>1. PICK S : S = FactsAt(ss[Len(fs)], fr)
    OBVIOUS
  <1>2. PICK T : T = ss[Len(fs)].at[fr.block][fr.pos + 1]
    BY Zenon
  <1>3. PICK s : Answers(p, C, H, i, S, T, f, s)
    <2>1. Answerable(p, C, H, i, S, T, f)
      BY <1>1, <1>2, CalleeAnswers, Zenon
    <2> QED
      BY <2>1, Zenon DEF Answerable
  <1>4. PICK E : E = s.at[p.entry[f]][1]
    OBVIOUS
  <1>5. /\ f \in C[i.dst] \ {"malloc"} /\ s \in H /\ s.fn = f /\ i.dst \in s.callers
        /\ Given(p, C, i, S, E, f) /\ Gives(p, s, T)
    BY <1>3, <1>4, Zenon DEF Answers
  <1>6. /\ env \in Envs(p, Len(mem)) /\ DOMAIN env \subseteq Registers(p, f)
        /\ \A v \in DOMAIN env : Known(A, al, E, v, env[v])
    <2>1. Delivered(p, A, al, Len(mem), f, E, env)
      BY <1>1, <1>5, ArgumentsDelivered, Zenon
    <2> QED
      BY <2>1 DEF Delivered
  <1>7. /\ Shaped(p, fs, mem) /\ Sited(p, A, fs, mem, al) /\ Followed(p, C, H, fs, ss) /\ IsModule(p)
        /\ Cover(p, A, al, fs, mem, S) /\ IsRunnable(p)
    BY <1>1, Zenon DEF RunOK, Fit
  <1>8. PICK g : g = Opening(p, f, env)
    OBVIOUS
  <1>9. /\ g \in Invocation(p, Len(mem)) /\ InPlace(p, g)
        /\ g.fn = f /\ g.block = p.entry[f] /\ g.pos = 1 /\ g.env = env
    <2>1. Begins(p, Len(mem), f, env, g)
      BY <1>6, <1>7, <1>8, EnteredShape
    <2> QED
      BY <2>1 DEF Begins
  <1>10. fs \in Seq(Invocation(p, Len(mem))) /\ mem \in Seq(Object(p, Len(mem)))
    BY <1>7 DEF Shaped
  <1>11. PICK n : n = Len(fs)
    OBVIOUS
  <1>12. n \in Nat /\ DOMAIN fs = 1 .. n /\ n \in DOMAIN fs
    BY <1>10, <1>11, SeqLength, LastIndex, Zenon
  <1>13. n > 0
    BY <1>12
  <1>14. Pushed(Invocation(p, Len(mem)), fs, g, gs)
    BY <1>8, <1>9, <1>10, PushElement
  <1>15. /\ gs \in Seq(Invocation(p, Len(mem))) /\ gs # <<>>
         /\ DOMAIN gs = 1 .. n + 1 /\ Len(gs) = n + 1 /\ gs[n + 1] = g
         /\ \A k \in 1 .. n : gs[k] = fs[k]
    BY <1>11, <1>12, <1>14 DEF Pushed
  <1>16. Shaped(p, gs, mem)
    <2>1. ASSUME NEW k \in DOMAIN gs PROVE InPlace(p, gs[k])
      <3>1. CASE k = n + 1
        BY <1>9, <1>15, <3>1
      <3>2. CASE k \in 1 .. n
        BY <1>7, <1>12, <1>15, <3>2 DEF Shaped
      <3> QED
        BY <1>12, <1>13, <1>15, <3>1, <3>2, Neighbours
    <2> QED
      BY <1>10, <1>15, <2>1 DEF Shaped
  <1>17. gs[1] = fs[1]
    BY <1>12, <1>13, <1>15, Neighbours
  <1>18. Sited(p, A, gs, mem, al)
    BY <1>7, <1>17 DEF Sited
  <1>19. PICK rr : rr = [k \in 1 .. Len(fs) + 1 |-> IF k = Len(fs) + 1 THEN s ELSE ss[k]]
    BY Zenon
  <1>20. Awaits(p, C, ss[Len(fs)], s, fs[Len(fs)], g.fn)
    <2>1. fr.pos \in DOMAIN p.code[fr.block]
      BY InstHeld, Zenon
    <2> QED
      BY <1>2, <1>5, <1>9, <2>1, Zenon DEF Awaits
  <1>21. Followed(p, C, H, gs, rr)
    <2>1. s \in H /\ s.fn = g.fn
      BY <1>5, <1>9, Zenon
    <2> QED
      BY <1>7, <1>14, <1>19, <1>20, <2>1, PushFollowed, ZenonT(60)
  <1>22. rr[n + 1] = s
    BY <1>11, <1>12, <1>13, <1>19, Neighbours
  <1>23. FactsAt(rr[Len(gs)], gs[Len(gs)]) = E
    BY <1>4, <1>9, <1>15, <1>22 DEF FactsAt
  <1>24. ASSUME NEW v, NEW y, Holds(p, A, al, fs, mem, v, y) PROVE Known(A, al, E, v, y)
    <2>1. Safe(p, C, i, v)
      BY <1>24, HeldSafe
    <2>2. v \in p.value
      BY <1>7, <1>24, HolderKinds
    <2>3. S[v] \subseteq E[v]
      BY <1>5, <2>1, <2>2, Zenon DEF Given
    <2>4. Agree(al, al, DOMAIN mem) /\ DOMAIN al = DOMAIN mem
      BY <1>7 DEF Agree, Sited
    <2> QED
      BY <1>7, <1>24, <2>3, <2>4, Carries
  <1>25. ASSUME NEW v, NEW y, Holds(p, A, al, gs, mem, v, y) PROVE Known(A, al, E, v, y)
    <2>1. ASSUME NEW k \in DOMAIN gs, v \in DOMAIN gs[k].env, y = gs[k].env[v]
          PROVE  Known(A, al, E, v, y)
      <3>1. CASE k = n + 1
        BY <1>6, <1>9, <1>15, <2>1, <3>1
      <3>2. CASE k \in 1 .. n
        <4>1. k \in DOMAIN fs /\ v \in DOMAIN fs[k].env /\ y = fs[k].env[v]
          BY <1>12, <1>15, <2>1, <3>2
        <4>2. Holds(p, A, al, fs, mem, v, y)
          BY <4>1 DEF Holds
        <4> QED
          BY <1>24, <4>2
      <3> QED
        BY <1>12, <1>13, <1>15, <3>1, <3>2, Neighbours
    <2>2. CASE \/ v \in FuncsOf(p) /\ y = M!Fun(v)
               \/ \E o \in DOMAIN mem : v = A[al[o]] /\ y = mem[o][M!FirstField]
      BY <1>24, <2>2 DEF Holds
    <2> QED
      BY <1>25, <2>1, <2>2 DEF Holds
  <1>26. Cover(p, A, al, gs, mem, FactsAt(rr[Len(gs)], gs[Len(gs)]))
    BY <1>23, <1>25 DEF Cover
  <1>27. RunOK(p, C, A, H, gs, mem, al, rr)
    BY <1>16, <1>18, <1>21, <1>26, Zenon DEF RunOK
  <1> QED
    BY <1>27

-----------------------------------------------------------------------------
\* A function returns.
Cut(X, s, n, u, t) ==
    /\ t \in Seq(X) /\ Len(t) = n /\ DOMAIN t = 1 .. n /\ t # <<>>
    /\ t[n] = u /\ \A k \in 1 .. n : k # n => t[k] = s[k]

LEMMA PopElement ==
  ASSUME NEW X, NEW s \in Seq(X), NEW n \in Nat, n > 0, n <= Len(s), NEW u \in X,
         NEW t, t = [SubSeq(s, 1, n) EXCEPT ![n] = u]
  PROVE  Cut(X, s, n, u, t)
  <1>1. PICK r : r = SubSeq(s, 1, n)
    OBVIOUS
  <1>2. r \in Seq(X) /\ Len(r) = n /\ DOMAIN r = 1 .. n /\ \A k \in 1 .. n : r[k] = s[k]
    BY <1>1
  <1>3. t = [r EXCEPT ![n] = u]
    BY <1>1
  <1> QED
    BY <1>2, <1>3 DEF Cut

LEMMA FirstIndex ==
  ASSUME NEW X, NEW s \in Seq(X), s # <<>>
  PROVE  1 \in DOMAIN s
  OBVIOUS

LEMMA ReturnLast ==
  ASSUME NEW p, IsRunnable(p), NEW b \in BlocksOf(p), NEW k \in DOMAIN p.code[b],
         p.code[b][k].op = "ret"
  PROVE  k = Len(p.code[b]) /\ p.succ[b] = {}
  BY DEF IsRunnable

LEMMA Below ==
  ASSUME NEW n \in Nat, NEW m \in Nat, n = m - 1, m > 1
  PROVE  /\ n > 0 /\ n <= m /\ m = n + 1 /\ n \in 1 .. m /\ n \in 1 .. m - 1 /\ n + 1 \in 1 .. m
         /\ 1 \in 1 .. n /\ n \in 1 .. n
         /\ \A k \in 1 .. n : k \in 1 .. m
         /\ \A k \in 1 .. n - 1 : k \in 1 .. n /\ k # n /\ k + 1 \in 1 .. n /\ k \in 1 .. m - 1
  OBVIOUS

\* What the caller that waits gets to know.
Resumes(p, A, al, m, c, S, T, x, fr) ==
    /\ c.op = "call" /\ c.dst \in p.value /\ c.dst \in Registers(p, fr.fn)
    /\ fr.pos \in DOMAIN p.code[fr.block]
    /\ AllKept(p, S, T)
    /\ x \in KeptValues(p, m) /\ Known(A, al, T, c.dst, x)

Handed(p, fr, i) == IF i.src = <<>> THEN M!Undefined ELSE ValueOf(p, fr.env, i.src[1])

BackIn(fs, n, c, x) == [SubSeq(fs, 1, n) EXCEPT ![n] = Assigned(fs[n], c.dst, x)]

Proceeds(p, C, A, H, fs, mem, al) == \E rr : RunOK(p, C, A, H, fs, mem, al, rr)

LEMMA ReturnKnown ==
  ASSUME NEW p, NEW C, NEW A, NEW H, Fit(p, C, A, H), NEW fs, NEW mem, NEW al, NEW ss,
         RunOK(p, C, A, H, fs, mem, al, ss), fs # <<>>, Len(fs) > 1,
         NEW fr, fr = fs[Len(fs)], fr.pos <= Len(p.code[fr.block]),
         NEW i, i = p.code[fr.block][fr.pos], i.op = "ret",
         NEW n, n = Len(fs) - 1, NEW c, c = p.code[fs[n].block][fs[n].pos],
         NEW x, x = Handed(p, fr, i),
         NEW S, S = FactsAt(ss[Len(fs)], fr), NEW T, T = ss[n].at[fs[n].block][fs[n].pos + 1]
  PROVE  Resumes(p, A, al, Len(mem), c, S, T, x, fs[n])
  <1>1. /\ Shaped(p, fs, mem) /\ Sited(p, A, fs, mem, al) /\ Followed(p, C, H, fs, ss) /\ IsModule(p)
        /\ IsRunnable(p)
    BY Zenon DEF RunOK, Fit
  <1>2. fs \in Seq(Invocation(p, Len(mem)))
    BY <1>1 DEF Shaped
  <1>3. Len(fs) \in Nat /\ DOMAIN fs = 1 .. Len(fs)
    BY <1>2, SeqLength, Zenon
  <1>4. n \in Nat
    BY <1>3
  <1>5. n \in 1 .. Len(fs) - 1 /\ n \in DOMAIN fs /\ n + 1 = Len(fs) /\ Len(fs) \in DOMAIN fs
    BY <1>3, <1>4, Below
  <1>6. PICK t : t = ss[Len(fs)]
    OBVIOUS
  <1>7. /\ fs[n].pos \in DOMAIN p.code[fs[n].block] /\ c.op = "call" /\ c.dst \in t.callers
        /\ Gives(p, t, T)
    <2>1. Awaits(p, C, ss[n], ss[n + 1], fs[n], fs[n + 1].fn)
      BY <1>1, <1>5 DEF Followed
    <2> QED
      BY <1>5, <1>6, <2>1, Zenon DEF Awaits
  <1>8. /\ i \in InstsOf(p) /\ i \in CodeOf(p, fr.block) /\ fr.pos \in DOMAIN p.code[fr.block]
        /\ StepOK(p, C, A, H, t.callers, i, S, t.at[fr.block][fr.pos + 1])
    BY <1>6, InstHeld, Zenon
  <1>9. fr.fn \in FuncsOf(p) /\ fr.block \in p.block[fr.fn] /\ fr.block \in BlocksOf(p)
    BY <1>1, <1>5, FrameFacts
  <1>10. fr.pos = Len(p.code[fr.block]) /\ p.succ[fr.block] = {}
    BY <1>1, <1>8, <1>9, ReturnLast, Zenon
  <1>11. PICK R : R = t.at[fr.block][fr.pos + 1]
    OBVIOUS
  <1>12. AllKept(p, R, T)
    <2>1. fr.block = p.exit[fr.fn] /\ fr.block # NoBlock
      BY <1>1, <1>9, <1>10 DEF IsModule
    <2>2. t.fn = fr.fn
      BY <1>1, <1>5, <1>6 DEF Followed
    <2>3. R = t.at[fr.block][End(p, fr.block)]
      BY <1>10, <1>11, Zenon DEF End
    <2> QED
      BY <1>7, <2>1, <2>2, <2>3, Zenon DEF Gives
  <1>13. AllKept(p, S, R) /\ (i.src # <<>> => S[i.src[1]] \subseteq R[c.dst])
    BY <1>7, <1>8, <1>11, Zenon DEF StepOK
  <1>14. AllKept(p, S, T)
    BY <1>12, <1>13, Zenon DEF AllKept
  <1>15. fs[n].fn \in FuncsOf(p) /\ fs[n].block \in p.block[fs[n].fn] /\ fs[n].block \in BlocksOf(p)
    BY <1>1, <1>5, FrameFacts
  <1>16. c \in CodeOf(p, fs[n].block) /\ c \in InstsOf(p)
    BY <1>1, <1>7, <1>15, BlockInsts, Zenon DEF CodeOf
  <1>17. c.dst \in Registers(p, fs[n].fn) /\ c.dst \in p.value
    <2>1. Defines(c) /\ c.op # "ret"
      BY <1>7, Zenon DEF Defines
    <2>2. c.dst \in Registers(p, fs[n].fn)
      BY <1>15, <1>16, <2>1, DstRegister, Zenon
    <2>3. c.dst \in p.value
      BY <1>15, <1>16, <2>1, Operands, Zenon
    <2> QED
      BY <2>2, <2>3, Zenon
  <1>18. x \in KeptValues(p, Len(mem)) /\ Known(A, al, T, c.dst, x)
    <2>1. CASE i.src = <<>>
      <3>1. x = M!Undefined /\ x \in KeptValues(p, Len(mem))
        BY <2>1 DEF KeptValues, Handed
      <3> QED
        BY <3>1, UndefinedKnown
    <2>2. CASE i.src # <<>>
      <3>1. 1 \in DOMAIN i.src
        <4>1. i.src \in Seq(p.value)
          BY <1>1, <1>8, Zenon DEF IsModule, IsInstr
        <4> QED
          BY <2>2, <4>1, FirstIndex, Zenon
      <3>2. i.src[1] # "malloc"
        BY <1>8, <1>9, <3>1, Operands, Zenon
      <3>3. OperandOK(p, A, al, Len(mem), S, fr.env, i.src[1])
        BY OperandKnown, Zenon
      <3>4. x = ValueOf(p, fr.env, i.src[1])
        BY <2>2, Zenon DEF Handed
      <3>5. Known(A, al, S, i.src[1], x) /\ x \in KeptValues(p, Len(mem))
        BY <3>2, <3>3, <3>4, Zenon DEF OperandOK
      <3>6. S[i.src[1]] \subseteq T[c.dst]
        BY <1>12, <1>13, <1>17, <2>2, Zenon DEF AllKept
      <3>7. Known(A, al, T, c.dst, x)
        BY <3>5, <3>6, KnownIn, Zenon
      <3> QED
        BY <3>5, <3>7, Zenon
    <2> QED
      BY <2>1, <2>2, Zenon
  <1> QED
    BY <1>7, <1>14, <1>17, <1>18, Zenon DEF Resumes

LEMMA PopFollowed ==
  ASSUME NEW p, NEW C, NEW H, NEW fs, NEW ss, Followed(p, C, H, fs, ss),
         DOMAIN fs = 1 .. Len(fs), Len(fs) \in Nat, Len(fs) > 1, NEW n, n = Len(fs) - 1,
         NEW g, g.fn = fs[n].fn, NEW X, NEW gs, Cut(X, fs, n, g, gs),
         NEW rr, rr = [k \in 1 .. n |-> ss[k]]
  PROVE  Followed(p, C, H, gs, rr)
  <1>0. n \in Nat
    OBVIOUS
  <1>1. /\ DOMAIN gs = 1 .. n /\ Len(gs) = n /\ gs[n] = g
        /\ \A k \in 1 .. n : k # n => gs[k] = fs[k]
    BY Zenon DEF Cut
  <1>2. \A k \in 1 .. n : gs[k].fn = fs[k].fn /\ rr[k] = ss[k] /\ k \in DOMAIN fs
    BY <1>0, <1>1, Below, Zenon
  <1>3. \A k \in 1 .. n : rr[k] \in H /\ rr[k].fn = gs[k].fn
    BY <1>2 DEF Followed
  <1>4. ASSUME NEW k \in 1 .. n - 1 PROVE Awaits(p, C, rr[k], rr[k + 1], gs[k], gs[k + 1].fn)
    <2>1. k \in 1 .. n /\ k # n /\ k + 1 \in 1 .. n /\ k \in 1 .. Len(fs) - 1
      BY <1>0, Below, Zenon
    <2>2. Awaits(p, C, ss[k], ss[k + 1], fs[k], fs[k + 1].fn)
      BY <2>1, Zenon DEF Followed
    <2>3. gs[k] = fs[k] /\ gs[k + 1].fn = fs[k + 1].fn /\ rr[k] = ss[k] /\ rr[k + 1] = ss[k + 1]
      BY <1>1, <1>2, <2>1, Zenon
    <2> QED
      BY <2>2, <2>3
  <1> QED
    BY <1>1, <1>3, <1>4, Zenon DEF Followed

LEMMA Shortened ==
  ASSUME NEW n \in Nat, n > 0, NEW ss, NEW rr, rr = [k \in 1 .. n |-> ss[k]]
  PROVE  rr[n] = ss[n]
  OBVIOUS

LEMMA OneBelow ==
  ASSUME NEW k \in Nat, k > 1, NEW n, n = k - 1
  PROVE  n \in Nat
  OBVIOUS

LEMMA RangeOfInts ==
  ASSUME NEW k, NEW D, D = 1 .. k
  PROVE  D \subseteq Int
  OBVIOUS

LEMMA EntryBlock ==
  ASSUME NEW p, IsModule(p), NEW f \in FuncsOf(p), p.block[f] # {}
  PROVE  p.entry[f] \in BlocksOf(p)
  BY DEF IsModule, BlocksOf

LEMMA ReturnMoves ==
  ASSUME NEW p, NEW C, NEW A, NEW H, Fit(p, C, A, H), NEW fs, NEW mem, NEW al, NEW ss,
         RunOK(p, C, A, H, fs, mem, al, ss), fs # <<>>, Len(fs) > 1,
         NEW fr, fr = fs[Len(fs)], fr.pos <= Len(p.code[fr.block]),
         NEW i, i = p.code[fr.block][fr.pos], i.op = "ret",
         NEW n, n = Len(fs) - 1, NEW c, c = p.code[fs[n].block][fs[n].pos],
         NEW x, x = Handed(p, fr, i),
         NEW gs, gs = BackIn(fs, n, c, x)
  PROVE  Proceeds(p, C, A, H, gs, mem, al)
  <1>1. PICK S : S = FactsAt(ss[Len(fs)], fr)
    BY Zenon
  <1>2. PICK T : T = ss[n].at[fs[n].block][fs[n].pos + 1]
    BY Zenon
  <1>3. PICK er : er = fs[n]
    BY Zenon
  <1>4. /\ c.op = "call" /\ c.dst \in p.value /\ c.dst \in Registers(p, er.fn)
        /\ er.pos \in DOMAIN p.code[er.block]
        /\ AllKept(p, S, T)
        /\ x \in KeptValues(p, Len(mem)) /\ Known(A, al, T, c.dst, x)
    <2>1. Resumes(p, A, al, Len(mem), c, S, T, x, er)
      BY <1>1, <1>2, <1>3, ReturnKnown, Zenon
    <2> QED
      BY <2>1, Zenon DEF Resumes
  <1>5. /\ Shaped(p, fs, mem) /\ Sited(p, A, fs, mem, al) /\ Followed(p, C, H, fs, ss) /\ IsModule(p)
        /\ Cover(p, A, al, fs, mem, S) /\ IsRunnable(p)
    BY <1>1, Zenon DEF RunOK, Fit
  <1>6. fs \in Seq(Invocation(p, Len(mem))) /\ mem \in Seq(Object(p, Len(mem)))
    BY <1>5, Zenon DEF Shaped
  <1>7. Len(fs) \in Nat /\ DOMAIN fs = 1 .. Len(fs) /\ n \in Nat
    <2>1. Len(fs) \in Nat /\ DOMAIN fs = 1 .. Len(fs)
      BY <1>6, SeqLength, Zenon
    <2>2. n \in Nat
      BY <2>1, OneBelow, Zenon
    <2> QED
      BY <2>1, <2>2, Zenon
  <1>8. /\ n > 0 /\ n <= Len(fs) /\ n \in DOMAIN fs /\ 1 \in 1 .. n
        /\ \A k \in 1 .. n : k \in DOMAIN fs
    BY <1>7, Below, Zenon
  <1>9. /\ er \in Invocation(p, Len(mem)) /\ InPlace(p, er) /\ er.block \in BlocksOf(p)
        /\ er.pos \in Nat
    BY <1>3, <1>5, <1>8, FrameFacts, Zenon
  <1>10. er.pos <= Len(p.code[er.block])
    <2>1. DOMAIN p.code[er.block] = 1 .. Len(p.code[er.block]) /\ Len(p.code[er.block]) \in Nat
      BY <1>5, <1>9, BlockInsts, Zenon
    <2>2. er.pos \in 1 .. Len(p.code[er.block])
      BY <1>4, <2>1, Zenon
    <2> QED
      BY <2>1, <2>2, InRange, Zenon
  <1>11. PICK g : g = Assigned(er, c.dst, x)
    BY Zenon
  <1>12. /\ g \in Invocation(p, Len(mem)) /\ InPlace(p, g)
         /\ g.fn = er.fn /\ g.block = er.block /\ g.pos = er.pos + 1
         /\ DOMAIN g.env = DOMAIN er.env \cup {c.dst}
         /\ \A w \in DOMAIN g.env : g.env[w] = IF w = c.dst THEN x ELSE er.env[w]
    <2>1. Receives(p, Len(mem), er, c.dst, x, g)
      BY <1>4, <1>5, <1>9, <1>10, <1>11, AssignedShape, Zenon
    <2> QED
      BY <2>1, Zenon DEF Receives
  <1>13. Cut(Invocation(p, Len(mem)), fs, n, g, gs)
    <2>1. gs = [SubSeq(fs, 1, n) EXCEPT ![n] = g]
      BY <1>3, <1>11, Zenon DEF BackIn
    <2> QED
      BY <1>6, <1>7, <1>8, <1>12, <2>1, PopElement, Zenon
  <1>14. /\ gs \in Seq(Invocation(p, Len(mem))) /\ Len(gs) = n /\ DOMAIN gs = 1 .. n /\ gs # <<>>
         /\ gs[n] = g /\ \A k \in 1 .. n : k # n => gs[k] = fs[k]
    BY <1>13, Zenon DEF Cut
  <1>15. Shaped(p, gs, mem)
    <2>1. ASSUME NEW k \in DOMAIN gs PROVE InPlace(p, gs[k])
      <3>1. k \in 1 .. n /\ k \in DOMAIN fs
        BY <1>8, <1>14, Zenon
      <3>2. CASE k = n
        BY <1>12, <1>14, <3>2, Zenon
      <3>3. CASE k # n
        BY <1>5, <1>14, <3>1, <3>3, Zenon DEF Shaped
      <3> QED
        BY <3>2, <3>3, Zenon
    <2> QED
      BY <1>6, <1>14, <2>1, Zenon DEF Shaped
  <1>16. Sited(p, A, gs, mem, al)
    <2>1. g.pos \in Nat /\ er.pos <= g.pos
      BY <1>9, <1>12, Following, Zenon
    <2>2. gs[1] = IF n = 1 THEN g ELSE fs[1]
      BY <1>8, <1>14, Zenon
    <2>3. fs[1].pos \in Nat /\ fs[1].fn \in FuncsOf(p) /\ p.block[fs[1].fn] # {}
      BY <1>5, <1>8, FrameFacts, Zenon
    <2>4. DOMAIN p.code[p.entry[fs[1].fn]] \subseteq Int
      <3>1. p.entry[fs[1].fn] \in BlocksOf(p)
        BY <1>5, <2>3, EntryBlock, Zenon
      <3>2. /\ Len(p.code[p.entry[fs[1].fn]]) \in Nat
            /\ DOMAIN p.code[p.entry[fs[1].fn]] = 1 .. Len(p.code[p.entry[fs[1].fn]])
        BY <1>5, <3>1, BlockInsts, Zenon
      <3> QED
        BY <3>2, Zenon, RangeOfInts
    <2>5. fs[1].pos <= fs[1].pos
      BY <2>3, NotMore, Zenon
    <2>6. /\ gs[1].fn = fs[1].fn /\ gs[1].pos \in Nat
          /\ gs[1].block = fs[1].block /\ fs[1].pos <= gs[1].pos
      BY <1>3, <1>12, <2>1, <2>2, <2>3, <2>5, Zenon
    <2> QED
      BY <1>5, <2>3, <2>4, <2>6, SitedKept, Zenon
  <1>17. PICK rr : rr = [k \in 1 .. n |-> ss[k]]
    BY Zenon
  <1>18. Followed(p, C, H, gs, rr)
    <2>1. g.fn = fs[n].fn
      BY <1>3, <1>12, Zenon
    <2> QED
      BY <1>5, <1>7, <1>13, <1>17, <2>1, PopFollowed, Zenon
  <1>19. FactsAt(rr[Len(gs)], gs[Len(gs)]) = T
    <2>1. rr[n] = ss[n]
      BY <1>7, <1>8, <1>17, Shortened, Zenon
    <2> QED
      <3>1. /\ rr[Len(gs)] = ss[n] /\ gs[Len(gs)] = g
            /\ g.block = fs[n].block /\ g.pos = fs[n].pos + 1
        BY <1>3, <1>12, <1>14, <2>1, ZenonT(60)
      <3> QED
        BY <1>2, <3>1, ZenonT(60) DEF FactsAt
  <1>20. ASSUME NEW v, NEW y, Holds(p, A, al, fs, mem, v, y) PROVE Known(A, al, T, v, y)
    <2>1. v \in p.value
      BY <1>5, <1>20, HolderKinds, Zenon
    <2>2. S[v] \subseteq T[v]
      BY <1>4, <2>1, Zenon DEF AllKept
    <2>3. Agree(al, al, DOMAIN mem) /\ DOMAIN al = DOMAIN mem
      BY <1>5, Zenon DEF Agree, Sited
    <2> QED
      BY <1>5, <1>20, <2>2, <2>3, Carries, Zenon
  <1>21. ASSUME NEW v, NEW y, Holds(p, A, al, gs, mem, v, y) PROVE Known(A, al, T, v, y)
    <2>1. ASSUME NEW k \in DOMAIN gs, v \in DOMAIN gs[k].env, y = gs[k].env[v]
          PROVE  Known(A, al, T, v, y)
      <3>1. CASE k = n /\ v = c.dst
        <4>1. y = x
          BY <1>12, <1>14, <2>1, <3>1, Zenon
        <4> QED
          BY <1>4, <3>1, <4>1, Zenon
      <3>2. CASE k # n \/ v # c.dst
        <4>1. k \in DOMAIN fs /\ v \in DOMAIN fs[k].env /\ y = fs[k].env[v]
          <5>1. k \in 1 .. n /\ k \in DOMAIN fs
            BY <1>8, <1>14, <2>1, Zenon
          <5>2. CASE k = n
            <6>1. gs[k] = g /\ fs[k] = er /\ v # c.dst
              BY <1>3, <1>14, <3>2, <5>2, Zenon
            <6> QED
              BY <1>12, <2>1, <5>1, <6>1, ZenonT(60)
          <5>3. CASE k # n
            <6>1. gs[k] = fs[k]
              BY <1>14, <5>1, <5>3, Zenon
            <6> QED
              BY <2>1, <5>1, <6>1, Zenon
          <5> QED
            BY <5>2, <5>3, Zenon
        <4>2. Holds(p, A, al, fs, mem, v, y)
          BY <4>1, Zenon DEF Holds
        <4> QED
          BY <1>20, <4>2, Zenon
      <3> QED
        BY <3>1, <3>2, Zenon
    <2>2. CASE \/ v \in FuncsOf(p) /\ y = M!Fun(v)
               \/ \E o \in DOMAIN mem : v = A[al[o]] /\ y = mem[o][M!FirstField]
      <3>1. Holds(p, A, al, fs, mem, v, y)
        BY <2>2, Zenon DEF Holds
      <3> QED
        BY <1>20, <3>1, Zenon
    <2>3. \/ \E k \in DOMAIN gs : v \in DOMAIN gs[k].env /\ y = gs[k].env[v]
          \/ v \in FuncsOf(p) /\ y = M!Fun(v)
          \/ \E o \in DOMAIN mem : v = A[al[o]] /\ y = mem[o][M!FirstField]
      BY <1>21, Zenon DEF Holds
    <2>4. CASE \E k \in DOMAIN gs : v \in DOMAIN gs[k].env /\ y = gs[k].env[v]
      <3>1. PICK k \in DOMAIN gs : v \in DOMAIN gs[k].env /\ y = gs[k].env[v]
        BY <2>4, Zenon
      <3> QED
        BY <2>1, <3>1, ZenonT(60)
    <2> QED
      BY <2>2, <2>3, <2>4, Zenon
  <1>22. Cover(p, A, al, gs, mem, FactsAt(rr[Len(gs)], gs[Len(gs)]))
    BY <1>19, <1>21, Zenon DEF Cover
  <1>23. RunOK(p, C, A, H, gs, mem, al, rr)
    BY <1>15, <1>16, <1>18, <1>22, Zenon DEF RunOK
  <1> QED
    BY <1>23, Zenon DEF Proceeds

-----------------------------------------------------------------------------
\* The analysis that is done has got what a run relies on.
LEMMA DoneFit ==
  ASSUME Sound, Tractable, Done, NEW H, History(H)
  PROVE  Fit(prog, CalleeMap, AllocMap, H)
  <1>1. TInv /\ prog \in Program /\ IsModule(prog) /\ IsRunnable(prog)
    BY ReadyShape DEF Sound, Ready
  <1>2. OneObjectPerSite(prog) /\ NoCircle /\ ArgumentsFit /\ NobodyCalls
    BY DEF Tractable, WithinReach
  <1>3. "" \notin FuncsOf(prog)
    BY <1>1, NamedAssumption, Zenon
  <1>4. HistoryOK(prog, CalleeMap, AllocMap, H)
    BY DEF History
  <1>5. ASSUME NEW f \in DOMAIN prog.entry PROVE \E s \in H : s.fn = f
    <2>1. f \in FuncsOf(prog) /\ prog.block[f] # {}
      BY <1>1 DEF IsRunnable
    <2>2. PICK n \in DOMAIN prog.fun : f = prog.fun[n]
      BY <2>1 DEF FuncsOf
    <2>3. n \in 1 .. next - 1
      <3>1. prog.fun \in Seq(prog.value) /\ next \in 1 .. Len(prog.fun) + 1
        BY <1>1 DEF IsModule, TInv, TypeOK
      <3>2. next > Len(prog.fun)
        BY DEF Done
      <3> QED
        BY <3>1, <3>2
    <2> QED
      BY <2>1, <2>2, <2>3 DEF History, Past, Done
  <1>6. \A v \in DOMAIN AllocMap : AllocMap[v] \in {prog.constant[n] : n \in DOMAIN prog.constant}
    <2>1. SitesCounted
      BY DEF Sound, Steps, SiteInv
    <2>2. Cardinality(DOMAIN AllocMap) <= Len(prog.constant) /\ prog.constant \in Seq(prog.value)
          /\ Cardinality(DOMAIN AllocMap) \in Nat
      <3>1. /\ IsFiniteSet(Allocations(prog)) /\ Cardinality(Allocations(prog)) <= Len(prog.constant)
            /\ prog.constant \in Seq(prog.value)
        BY <1>1 DEF IsModule
      <3>2. DOMAIN AllocMap \subseteq Allocations(prog)
        BY <1>1 DEF TInv, TypeOK
      <3>3. /\ IsFiniteSet(DOMAIN AllocMap)
            /\ Cardinality(DOMAIN AllocMap) <= Cardinality(Allocations(prog))
        BY <3>1, <3>2, FS_Subset
      <3>4. Cardinality(DOMAIN AllocMap) \in Nat /\ Cardinality(Allocations(prog)) \in Nat
        BY <3>1, <3>3, FS_CardinalityType
      <3> QED
        BY <3>1, <3>3, <3>4
    <2> QED
      BY <2>1, <2>2 DEF SitesCounted
  <1>7. \A v, w \in DOMAIN AllocMap : AllocMap[v] = AllocMap[w] => v = w
    BY DEF Sound, Steps, SiteInv, SitesApart
  <1>8. \A i \in InstsOf(prog) : i.op = "call" => CalleeMap[i.dst] \subseteq FuncsOf(prog)
    BY <1>1 DEF TInv, TypeOK, CallSites, Func
  <1>9. NoRound(prog, CalleeMap)
    BY <1>2 DEF NoCircle, NoRound, LinkedTo, Leads, Func
  <1>10. Fits(prog, CalleeMap)
    BY <1>2 DEF ArgumentsFit, Fits
  <1>11. Uncalled(prog, CalleeMap)
    <2>1. \A i \in InstsOf(prog) : i.op = "call" => i.dst \in CallSites
      BY DEF CallSites
    <2> QED
      BY <1>2, <2>1 DEF NobodyCalls, Uncalled, Func
  <1> QED
    BY <1>1, <1>2, <1>3, <1>4, <1>5, <1>6, <1>7, <1>8, <1>9, <1>10, <1>11, Zenon DEF Fit

\* The analysis begins sound.
LEMMA InitSound ==
  ASSUME Init
  PROVE  Sound
  <1>1. stack = <<>> /\ next = 1 /\ DOMAIN stack = {} /\ ~Running /\ result = <<>> /\ TInv
    BY InitTInv DEF Init, Running
  <1>2. EdgeInv
    BY <1>1 DEF EdgeInv, PredsSeen, NoStaleEdge
  <1>3. CallInv
    BY <1>1 DEF CallInv, CalleesHaveBodies, CalleeSeesCaller
  <1>4. NestInv
    BY <1>1 DEF NestInv, CallersCall
  <1>5. SiteInv
    BY <1>1 DEF Init, SiteInv, SitesApart, SitesCounted
  <1>6. InBounds /\ Mirrored
    BY <1>1 DEF Init, InBounds, Mirrored
  <1>7. History({})
    BY <1>1 DEF History, HistoryOK, Activations, Past
  <1> QED
    BY <1>2, <1>3, <1>4, <1>5, <1>6, <1>7 DEF Sound, Steps

-----------------------------------------------------------------------------
\* The steps of the machine are those above.
LEMMA OneField ==
  ASSUME IsRunnable(prog), OneObjectPerSite(prog)
  PROVE  M!Fields = {M!FirstField}
  <1>1. ASSUME NEW b \in DOMAIN prog.code, NEW k \in DOMAIN prog.code[b], prog.code[b][k].op = "gep"
        PROVE  prog.code[b][k].at[1] = M!FirstField
    <2>1. b \in BlocksOf(prog) /\ prog.code[b][k] \in CodeOf(prog, b)
      BY DEF IsRunnable, CodeOf
    <2> QED
      BY <1>1, <2>1 DEF OneObjectPerSite
  <1> QED
    BY <1>1 DEF M!Fields

LEMMA MachineValue ==
  ASSUME IsRunnable(prog), NEW v
  PROVE  M!Value(v) = ValueOf(prog, M!Current.env, v)
  BY DEF IsRunnable, M!Value, ValueOf

LEMMA MachineCalled ==
  ASSUME NEW i
  PROVE  M!Called(i) = Called(i)
  BY DEF M!Called, Called

\* The top of the stack gs has received x.
AssignedIn(fs, v, x, gs) ==
    gs = [fs EXCEPT ![Len(fs)].env = M!Extend(@, v, x), ![Len(fs)].pos = @ + 1]

LEMMA AssignForm ==
  ASSUME NEW X, NEW fs \in Seq(X), fs # <<>>, NEW v, NEW x, NEW gs, AssignedIn(fs, v, x, gs)
  PROVE  gs = [fs EXCEPT ![Len(fs)] = Assigned(fs[Len(fs)], v, x)]
  <1>1. Len(fs) \in DOMAIN fs
    OBVIOUS
  <1>2. PICK n : n = Len(fs)
    OBVIOUS
  <1>3. PICK e : e = M!Extend(fs[n].env, v, x)
    OBVIOUS
  <1>4. gs = [fs EXCEPT ![n].env = e, ![n].pos = @ + 1]
    BY <1>1, <1>2, <1>3 DEF AssignedIn
  <1>5. gs = [fs EXCEPT ![n] = [fs[n] EXCEPT !.env = e, !.pos = @ + 1]]
    BY <1>1, <1>2, <1>4
  <1> QED
    BY <1>2, <1>3, <1>5 DEF Assigned

\* The run goes on.
RunHolds(H) == \E al, ss : RunOK(prog, CalleeMap, AllocMap, H, frames, memory, al, ss)
Goes(H) == \E al, ss : RunOK(prog, CalleeMap, AllocMap, H, frames', memory', al, ss)

\* What the machine executes.
LEMMA InProgress ==
  ASSUME M!Executing
  PROVE  /\ frames # <<>> /\ M!Current = frames[Len(frames)]
         /\ M!Current.pos <= Len(prog.code[M!Current.block])
         /\ M!Inst = prog.code[M!Current.block][M!Current.pos]
  BY DEF M!Executing, M!Current, M!Inst

LEMMA StepsAllocate ==
  ASSUME NEW H, Fit(prog, CalleeMap, AllocMap, H), RunHolds(H), M!Allocate
  PROVE  Goes(H)
  <1>1. PICK al, ss : RunOK(prog, CalleeMap, AllocMap, H, frames, memory, al, ss)
    BY DEF RunHolds
  <1>2. IsRunnable(prog) /\ OneObjectPerSite(prog) /\ frames \in Seq(Invocation(prog, Len(memory)))
    BY <1>1, Zenon DEF Fit, RunOK, Shaped
  <1>3. PICK fr : fr = M!Current
    OBVIOUS
  <1>4. PICK i : i = M!Inst
    OBVIOUS
  <1>5. /\ frames # <<>> /\ fr = frames[Len(frames)] /\ fr.pos <= Len(prog.code[fr.block])
        /\ i = prog.code[fr.block][fr.pos]
    BY <1>3, <1>4, InProgress DEF M!Allocate
  <1>6. i.op = "alloca" \/ (i.op = "call" /\ ValueOf(prog, fr.env, Called(i)) = M!Fun("malloc"))
    BY <1>2, <1>3, <1>4, MachineValue, MachineCalled DEF M!Allocate
  <1>7. memory' = Append(memory, [k \in {M!FirstField} |-> M!Undefined])
    BY <1>2, OneField DEF M!Allocate
  <1>8. PICK x : x = M!Address(Len(memory) + 1, M!FirstField)
    OBVIOUS
  <1>9. frames' = [frames EXCEPT ![Len(frames)] = Assigned(fr, i.dst, x)]
    <2>1. AssignedIn(frames, i.dst, x, frames')
      BY <1>4, <1>8 DEF M!Allocate, M!Assign, AssignedIn
    <2> QED
      BY <1>2, <1>5, <2>1, AssignForm
  <1>10. \E all : RunOK(prog, CalleeMap, AllocMap, H, frames', memory', all, ss)
    BY <1>1, <1>5, <1>6, <1>7, <1>8, <1>9, AllocateMoves, ZenonT(60)
  <1> QED
    BY <1>10 DEF Goes

LEMMA StepsCompute ==
  ASSUME NEW H, Fit(prog, CalleeMap, AllocMap, H), RunHolds(H), M!Compute
  PROVE  Goes(H)
  <1>1. PICK al, ss : RunOK(prog, CalleeMap, AllocMap, H, frames, memory, al, ss)
    BY DEF RunHolds
  <1>2. IsRunnable(prog) /\ frames \in Seq(Invocation(prog, Len(memory)))
    BY <1>1, Zenon DEF Fit, RunOK, Shaped
  <1>3. PICK fr : fr = M!Current
    OBVIOUS
  <1>4. PICK i : i = M!Inst
    OBVIOUS
  <1>5. /\ frames # <<>> /\ fr = frames[Len(frames)] /\ fr.pos <= Len(prog.code[fr.block])
        /\ i = prog.code[fr.block][fr.pos]
    BY <1>3, <1>4, InProgress DEF M!Compute
  <1>6. \A v : M!Value(v) = ValueOf(prog, fr.env, v)
    BY <1>2, <1>3, MachineValue
  <1>7. PICK x : Computes(prog, fr, memory, i, x) /\ M!Assign(i.dst, x)
    BY <1>4, <1>6 DEF M!Compute, Computes
  <1>8. frames' = [frames EXCEPT ![Len(frames)] = Assigned(fr, i.dst, x)]
    <2>1. AssignedIn(frames, i.dst, x, frames')
      BY <1>7 DEF M!Assign, AssignedIn
    <2> QED
      BY <1>2, <1>5, <2>1, AssignForm
  <1>9. memory' = memory
    BY DEF M!Compute
  <1>10. RunOK(prog, CalleeMap, AllocMap, H, frames', memory, al, ss)
    BY <1>1, <1>5, <1>7, <1>8, ComputeMoves, Zenon
  <1> QED
    BY <1>9, <1>10 DEF Goes

LEMMA AdvanceForm ==
  ASSUME NEW X, NEW fs \in Seq(X), fs # <<>>, NEW gs, gs = [fs EXCEPT ![Len(fs)].pos = @ + 1]
  PROVE  gs = [fs EXCEPT ![Len(fs)] = Advanced(fs[Len(fs)])]
  BY DEF Advanced

LEMMA StepsWrite ==
  ASSUME NEW H, Fit(prog, CalleeMap, AllocMap, H), RunHolds(H), M!Write
  PROVE  Goes(H)
  <1>1. PICK al, ss : RunOK(prog, CalleeMap, AllocMap, H, frames, memory, al, ss)
    BY DEF RunHolds
  <1>2. IsRunnable(prog) /\ frames \in Seq(Invocation(prog, Len(memory)))
    BY <1>1, Zenon DEF Fit, RunOK, Shaped
  <1>3. PICK fr : fr = M!Current
    OBVIOUS
  <1>4. PICK i : i = M!Inst
    OBVIOUS
  <1>5. /\ frames # <<>> /\ fr = frames[Len(frames)] /\ fr.pos <= Len(prog.code[fr.block])
        /\ i = prog.code[fr.block][fr.pos]
    BY <1>3, <1>4, InProgress DEF M!Write
  <1>6. \A v : M!Value(v) = ValueOf(prog, fr.env, v)
    BY <1>2, <1>3, MachineValue
  <1>7. i.op # "memcpy"
    <2>1. Len(frames) \in DOMAIN frames /\ i \in InstsOf(prog) /\ i \in CodeOf(prog, fr.block)
      BY <1>1, <1>5, InstHeld
    <2>2. Shaped(prog, frames, memory)
      BY <1>1 DEF RunOK
    <2>3. fr.block \in BlocksOf(prog)
      BY <1>5, <2>1, <2>2, FrameFacts
    <2> QED
      BY <2>1, <2>3, Operands
  <1>8. PICK a : a = ValueOf(prog, fr.env, i.dst)
    OBVIOUS
  <1>9. PICK x : x = ValueOf(prog, fr.env, i.src[1])
    OBVIOUS
  <1>10. i.op = "store" /\ M!IsAddress(a) /\ memory' = [memory EXCEPT ![a.object][a.at] = x]
    BY <1>4, <1>6, <1>7, <1>8, <1>9 DEF M!Write
  <1>11. frames' = [frames EXCEPT ![Len(frames)] = Advanced(fr)]
    <2>1. frames' = [frames EXCEPT ![Len(frames)].pos = @ + 1]
      BY DEF M!Write
    <2> QED
      BY <1>2, <1>5, <2>1, AdvanceForm
  <1>12. RunOK(prog, CalleeMap, AllocMap, H, frames', memory', al, ss)
    BY <1>1, <1>5, <1>8, <1>9, <1>10, <1>11, WriteMoves, ZenonT(60)
  <1> QED
    BY <1>12 DEF Goes

LEMMA StepsBranch ==
  ASSUME NEW H, Fit(prog, CalleeMap, AllocMap, H), RunHolds(H), M!Branch
  PROVE  Goes(H)
  <1>1. PICK al, ss : RunOK(prog, CalleeMap, AllocMap, H, frames, memory, al, ss)
    BY DEF RunHolds
  <1>2. PICK fr : fr = M!Current
    OBVIOUS
  <1>3. frames # <<>> /\ fr = frames[Len(frames)] /\ ~(fr.pos <= Len(prog.code[fr.block]))
    BY <1>2 DEF M!Branch, M!Executing, M!Current
  <1>4. PICK b \in Way(prog, fr.block) : frames' = [frames EXCEPT ![Len(frames)] = Jumped(fr, b)]
    BY <1>2, <1>3, Zenon DEF M!Branch, M!Taken, Way, Jumped
  <1>5. memory' = memory
    BY DEF M!Branch
  <1>6. RunOK(prog, CalleeMap, AllocMap, H, frames', memory, al, ss)
    BY <1>1, <1>3, <1>4, BranchMoves
  <1> QED
    BY <1>5, <1>6 DEF Goes

LEMMA StepsStart ==
  ASSUME NEW H, Fit(prog, CalleeMap, AllocMap, H), M!Start
  PROVE  Goes(H)
  <1>1. PICK f \in DOMAIN prog.entry : frames' = <<M!Enter(f, <<>>)>>
    BY DEF M!Start
  <1>2. memory = <<>> /\ memory' = memory
    BY DEF M!Start
  <1>3. PICK env : env = M!Enter(f, <<>>).env
    OBVIOUS
  <1>4. DOMAIN env = {} /\ env \in [{} -> KeptValues(prog, 0)]
    BY <1>3 DEF M!Enter
  <1>5. env \in Envs(prog, 0)
    <2>1. {} \in SUBSET prog.value
      OBVIOUS
    <2> QED
      BY <1>4, <2>1 DEF Envs
  <1>6. frames' = <<Opening(prog, f, env)>>
    BY <1>1, <1>3, Zenon DEF M!Enter, Opening
  <1>7. \E al, ss : RunOK(prog, CalleeMap, AllocMap, H, frames', memory, al, ss)
    BY <1>2, <1>4, <1>5, <1>6, StartMoves
  <1> QED
    BY <1>2, <1>7 DEF Goes

LEMMA EnteredWith ==
  ASSUME NEW f \in DOMAIN prog.entry, NEW i, NEW fr, NEW args,
         args = [j \in DOMAIN i.src |-> ValueOf(prog, fr.env, i.src[j])],
         NEW env, env = M!Enter(f, args).env
  PROVE  Binds(prog, f, i, fr, env) /\ Mapping(env)
  <1>1. DOMAIN args = DOMAIN i.src /\ \A j \in DOMAIN i.src : args[j] = ValueOf(prog, fr.env, i.src[j])
    OBVIOUS
  <1>2. env = [v \in {prog.param[f][j] : j \in DOMAIN args} |->
                  args[CHOOSE j \in DOMAIN args : prog.param[f][j] = v]]
    BY DEF M!Enter
  <1>3. DOMAIN env = {prog.param[f][j] : j \in DOMAIN i.src}
    BY <1>1, <1>2
  <1>4. ASSUME NEW v \in DOMAIN env
        PROVE  \E j \in DOMAIN i.src : prog.param[f][j] = v /\ env[v] = ValueOf(prog, fr.env, i.src[j])
    <2>1. PICK j : j = CHOOSE k \in DOMAIN args : prog.param[f][k] = v
      OBVIOUS
    <2>2. \E k \in DOMAIN args : prog.param[f][k] = v
      BY <1>1, <1>3
    <2>3. j \in DOMAIN args /\ prog.param[f][j] = v
      BY <2>1, <2>2
    <2>4. env[v] = args[j]
      BY <1>1, <1>2, <1>3, <2>1, ZenonT(60)
    <2> QED
      BY <1>1, <2>3, <2>4
  <1>5. Mapping(env)
    BY <1>2 DEF Mapping
  <1> QED
    BY <1>3, <1>4, <1>5 DEF Binds

LEMMA StepsInvoke ==
  ASSUME NEW H, Fit(prog, CalleeMap, AllocMap, H), RunHolds(H), M!Invoke
  PROVE  Goes(H)
  <1>1. PICK al, ss : RunOK(prog, CalleeMap, AllocMap, H, frames, memory, al, ss)
    BY DEF RunHolds
  <1>2. IsRunnable(prog)
    BY Zenon DEF Fit
  <1>3. PICK fr : fr = M!Current
    OBVIOUS
  <1>4. PICK i : i = M!Inst
    OBVIOUS
  <1>5. /\ frames # <<>> /\ fr = frames[Len(frames)] /\ fr.pos <= Len(prog.code[fr.block])
        /\ i = prog.code[fr.block][fr.pos]
    BY <1>3, <1>4, InProgress DEF M!Invoke
  <1>6. \A v : M!Value(v) = ValueOf(prog, fr.env, v)
    BY <1>2, <1>3, MachineValue
  <1>7. PICK f \in DOMAIN prog.entry :
          /\ M!Value(M!Called(i)) = M!Fun(f)
          /\ frames' = Append(frames, M!Enter(f, [j \in DOMAIN i.src |-> M!Value(i.src[j])]))
    BY <1>4 DEF M!Invoke
  <1>8. i.op = "call" /\ memory' = memory /\ ValueOf(prog, fr.env, Called(i)) = M!Fun(f)
    BY <1>4, <1>6, <1>7, MachineCalled DEF M!Invoke
  <1>9. PICK args : args = [j \in DOMAIN i.src |-> ValueOf(prog, fr.env, i.src[j])]
    OBVIOUS
  <1>10. PICK env : env = M!Enter(f, args).env
    OBVIOUS
  <1>11. Binds(prog, f, i, fr, env) /\ Mapping(env)
    BY <1>9, <1>10, EnteredWith
  <1>12. frames' = Append(frames, Opening(prog, f, env))
    <2>1. frames' = Append(frames, M!Enter(f, args))
      BY <1>6, <1>7, <1>9
    <2>2. M!Enter(f, args) = Opening(prog, f, env)
      BY <1>10 DEF M!Enter, Opening
    <2> QED
      BY <2>1, <2>2
  <1>13. \E rr : RunOK(prog, CalleeMap, AllocMap, H, frames', memory, al, rr)
    BY <1>1, <1>5, <1>8, <1>11, <1>12, InvokeMoves
  <1> QED
    BY <1>8, <1>13 DEF Goes

\* The stack gs has lost its top, and the caller has received x.
ReturnedTo(fs, n, v, x, gs) ==
    gs = [SubSeq(fs, 1, n) EXCEPT ![n].env = M!Extend(@, v, x), ![n].pos = @ + 1]

LEMMA ReturnForm ==
  ASSUME NEW X, NEW fs \in Seq(X), NEW n \in Nat, n > 0, n <= Len(fs), NEW v, NEW x, NEW gs,
         ReturnedTo(fs, n, v, x, gs)
  PROVE  gs = [SubSeq(fs, 1, n) EXCEPT ![n] = Assigned(fs[n], v, x)]
  <1>1. PICK r : r = SubSeq(fs, 1, n)
    OBVIOUS
  <1>2. r \in Seq(X) /\ r # <<>> /\ Len(r) = n /\ r[n] = fs[n]
    BY <1>1
  <1>3. AssignedIn(r, v, x, gs)
    BY <1>1, <1>2 DEF ReturnedTo, AssignedIn
  <1>4. gs = [r EXCEPT ![Len(r)] = Assigned(r[Len(r)], v, x)]
    BY <1>2, <1>3, AssignForm
  <1> QED
    BY <1>1, <1>2, <1>4

LEMMA StepsReturn ==
  ASSUME NEW H, Fit(prog, CalleeMap, AllocMap, H), RunHolds(H), M!Return
  PROVE  Goes(H)
  <1>1. PICK al, ss : RunOK(prog, CalleeMap, AllocMap, H, frames, memory, al, ss)
    BY DEF RunHolds
  <1>2. IsRunnable(prog) /\ frames \in Seq(Invocation(prog, Len(memory)))
    BY <1>1, Zenon DEF Fit, RunOK, Shaped
  <1>3. PICK fr : fr = M!Current
    OBVIOUS
  <1>4. PICK i : i = M!Inst
    OBVIOUS
  <1>5. /\ frames # <<>> /\ fr = frames[Len(frames)] /\ fr.pos <= Len(prog.code[fr.block])
        /\ i = prog.code[fr.block][fr.pos]
    BY <1>3, <1>4, InProgress DEF M!Return
  <1>6. \A v : M!Value(v) = ValueOf(prog, fr.env, v)
    BY <1>2, <1>3, MachineValue
  <1>7. i.op = "ret" /\ memory' = memory /\ Len(frames) > 1
    BY <1>4 DEF M!Return
  <1>8. PICK n : n = Len(frames) - 1
    OBVIOUS
  <1>9. PICK c : c = prog.code[frames[n].block][frames[n].pos]
    OBVIOUS
  <1>10. PICK x : x = Handed(prog, fr, i)
    OBVIOUS
  <1>11. ReturnedTo(frames, n, c.dst, x, frames')
    BY <1>4, <1>6, <1>8, <1>9, <1>10, Zenon DEF M!Return, ReturnedTo, Handed
  <1>12. n \in Nat /\ n > 0 /\ n <= Len(frames)
    <2>1. Len(frames) \in Nat
      BY <1>2, SeqLength, Zenon
    <2> QED
      BY <1>7, <1>8, <2>1
  <1>13. frames' = BackIn(frames, n, c, x)
    BY <1>2, <1>11, <1>12, ReturnForm DEF BackIn
  <1>14. Proceeds(prog, CalleeMap, AllocMap, H, frames', memory, al)
    BY <1>1, <1>5, <1>7, <1>8, <1>9, <1>10, <1>13, ReturnMoves, ZenonT(60)
  <1> QED
    BY <1>7, <1>14 DEF Goes, Proceeds

-----------------------------------------------------------------------------
\* The invariant: while the analysis runs nothing is executed, and then a run goes by a history.
SInv ==
    /\ Sound
    /\ Done => \E H : History(H) /\ RunHolds(H)
    /\ ~Done => frames = <<>> /\ memory = <<>>

LEMMA NoRun ==
  ASSUME NEW p, NEW C, NEW A, NEW H, NEW fs, NEW mem, fs = <<>>, mem = <<>>
  PROVE  RunOK(p, C, A, H, fs, mem, mem, fs)
  <1>1. Nothing(Invocation(p, Len(mem)), fs) /\ Nothing(Object(p, Len(mem)), mem)
    BY NoElement
  <1>2. /\ fs \in Seq(Invocation(p, Len(mem))) /\ mem \in Seq(Object(p, Len(mem)))
        /\ DOMAIN fs = {} /\ DOMAIN mem = {} /\ 1 .. Len(fs) - 1 = {}
    BY <1>1 DEF Nothing
  <1> QED
    BY <1>2 DEF RunOK, Shaped, Sited, Followed

LEMMA ExecuteGoes ==
  ASSUME NEW H, Fit(prog, CalleeMap, AllocMap, H), RunHolds(H), Execute
  PROVE  RunHolds(H)'
  <1>1. Goes(H)
    BY StepsStart, StepsAllocate, StepsCompute, StepsWrite, StepsInvoke, StepsReturn, StepsBranch
       DEF Execute, M!Run
  <1>2. prog' = prog /\ CalleeMap' = CalleeMap /\ AllocMap' = AllocMap
    BY DEF Execute, vars
  <1> QED
    BY <1>1, <1>2 DEF Goes, RunHolds

LEMMA FinishedStays ==
  ASSUME TInv, Done, Next
  PROVE  UNCHANGED vars
  <1>1. ~Running /\ stack = <<>> /\ next > Len(prog.fun)
    BY DEF Done, Running
  <1>2. ~(Len(stack) > 1) /\ Len(stack) # 1
    BY <1>1
  <1>3. ~(next <= Len(prog.fun))
    BY <1>1 DEF TInv, TypeOK
  <1> QED
    BY <1>1, <1>2, <1>3, Zenon DEF Next, StartFunction, TakeBlock, ProcessInst, ProcessAlloca, BeginCall,
       BeginMemCpy, CopyTo, CallMalloc, EnterCallee, LeaveCallee, EndCall, FinishBlock, FinishFunction,
       Finished, AtInst, InBlock, Calling

LEMMA SoundPointsToStep ==
  ASSUME SInv, Tractable, Tractable', [SoundNext]_SoundVars
  PROVE  SInv'
  <1>1. [Next]_vars
    BY DEF SoundNext, SoundVars, Analyse, Execute
  <1>2. Sound' /\ TInv
    BY <1>1, NextSound DEF SInv, Sound, Steps, SiteInv
  <1>3. CASE Execute
    <2>1. Done /\ UNCHANGED vars
      BY <1>3 DEF Execute
    <2>2. PICK H : History(H) /\ RunHolds(H)
      BY <2>1 DEF SInv
    <2>3. Fit(prog, CalleeMap, AllocMap, H)
      BY <2>1, <2>2, DoneFit DEF SInv
    <2>4. History(H)' /\ RunHolds(H)'
      BY <1>3, <2>1, <2>2, <2>3, HistoryStutter, ExecuteGoes
    <2>5. Done'
      BY <2>1 DEF Done, Running, vars
    <2> QED
      BY <1>2, <2>4, <2>5 DEF SInv
  <1>4. CASE frames' = frames /\ memory' = memory /\ UNCHANGED vars
    <2>1. Done' = Done
      BY <1>4 DEF Done, Running, vars
    <2>2. ASSUME NEW H, History(H), RunHolds(H) PROVE History(H)' /\ RunHolds(H)'
      <3>1. History(H)'
        BY <1>4, <2>2, HistoryStutter
      <3>2. prog' = prog /\ CalleeMap' = CalleeMap /\ AllocMap' = AllocMap
        BY <1>4 DEF vars
      <3> QED
        BY <1>4, <2>2, <3>1, <3>2 DEF RunHolds
    <2>3. CASE Done
      <3>1. PICK H : History(H) /\ RunHolds(H)
        BY <2>3 DEF SInv
      <3>2. History(H)' /\ RunHolds(H)'
        BY <2>2, <3>1
      <3> QED
        BY <1>2, <2>1, <2>3, <3>2 DEF SInv
    <2>4. CASE ~Done
      BY <1>2, <1>4, <2>1, <2>4 DEF SInv
    <2> QED
      BY <2>3, <2>4
  <1>5. CASE Analyse /\ ~Done
    <2>1. frames' = <<>> /\ memory' = <<>>
      BY <1>5 DEF Analyse, SInv
    <2>2. PICK H : History(H)'
      BY <1>2 DEF Sound
    <2>3. RunHolds(H)'
      BY <2>1, NoRun DEF RunHolds
    <2> QED
      BY <1>2, <2>1, <2>2, <2>3 DEF SInv
  <1>6. CASE Analyse /\ Done
    BY <1>2, <1>4, <1>6, FinishedStays DEF Analyse
  <1>7. CASE UNCHANGED SoundVars
    BY <1>4, <1>7 DEF SoundVars
  <1> QED
    BY <1>3, <1>5, <1>6, <1>7 DEF SoundNext

\* What is about to be called is among the callees.
LEMMA CalledListed ==
  ASSUME NEW H, Fit(prog, CalleeMap, AllocMap, H), RunHolds(H), M!AtCall,
         M!IsFun(M!Value(Called(M!Inst)))
  PROVE  M!Callee \in CalleeMap[M!Inst.dst]
  <1>1. PICK al, ss : RunOK(prog, CalleeMap, AllocMap, H, frames, memory, al, ss)
    BY DEF RunHolds
  <1>2. IsRunnable(prog)
    BY Zenon DEF Fit
  <1>3. PICK fr : fr = M!Current
    OBVIOUS
  <1>4. PICK i : i = M!Inst
    OBVIOUS
  <1>5. /\ frames # <<>> /\ fr = frames[Len(frames)] /\ fr.pos <= Len(prog.code[fr.block])
        /\ i = prog.code[fr.block][fr.pos] /\ i.op = "call"
    BY <1>3, <1>4, InProgress DEF M!AtCall
  <1>6. PICK x : x = ValueOf(prog, fr.env, Called(i))
    OBVIOUS
  <1>7. M!IsFun(x) /\ M!Callee = x.at
    BY <1>2, <1>3, <1>4, <1>6, MachineValue, MachineCalled DEF M!Callee
  <1>8. PICK S : S = FactsAt(ss[Len(frames)], fr)
    OBVIOUS
  <1>9. PICK T : T = ss[Len(frames)].at[fr.block][fr.pos + 1]
    OBVIOUS
  <1>10. Finds(prog, S, Called(i), x.at)
    <2>1. OperandOK(prog, AllocMap, al, Len(memory), S, fr.env, Called(i))
      BY <1>1, <1>5, <1>8, OperandKnown
    <2> QED
      BY <1>6, <1>7, <2>1 DEF OperandOK
  <1>11. StepOK(prog, CalleeMap, AllocMap, H, ss[Len(frames)].callers, i, S, T)
    BY <1>1, <1>5, <1>8, <1>9, InstHeld
  <1>12. x.at \in CalleeMap[i.dst]
    BY <1>5, <1>10, <1>11, Zenon DEF StepOK, CallAnswered, Answered
  <1> QED
    BY <1>4, <1>7, <1>12

\* README.md (assignment 3): the callee functions of each call are listed, all of them, on the
\* modules the analysis is sound for.
THEOREM SoundPointsTo == SoundSpec => ([]Tractable => []CalleesComplete)
  <1>1. SoundInit => SInv
    <2> SUFFICES ASSUME SoundInit PROVE SInv
      OBVIOUS
    <2>1. Sound /\ frames = <<>> /\ memory = <<>>
      BY InitSound DEF SoundInit, M!Init
    <2>2. PICK H : History(H)
      BY <2>1 DEF Sound
    <2>3. RunHolds(H)
      BY <2>1, NoRun DEF RunHolds
    <2> QED
      BY <2>1, <2>2, <2>3 DEF SInv
  <1>2. SInv /\ Tractable /\ Tractable' /\ [SoundNext]_SoundVars => SInv'
    BY SoundPointsToStep
  <1>3. SInv /\ Tractable => CalleesComplete
    <2> SUFFICES ASSUME SInv, Tractable, M!AtCall, M!IsFun(M!Value(Called(M!Inst)))
                 PROVE  M!Callee \in CalleeMap[M!Inst.dst]
      BY DEF CalleesComplete
    <2>1. Done
      BY DEF SInv, M!AtCall, M!Executing
    <2>2. PICK H : History(H) /\ RunHolds(H)
      BY <2>1 DEF SInv
    <2>3. Fit(prog, CalleeMap, AllocMap, H)
      BY <2>1, <2>2, DoneFit DEF SInv
    <2> QED
      BY <2>2, <2>3, CalledListed
  <1> QED
    BY <1>1, <1>2, <1>3, PTL DEF SoundSpec
=============================================================================
