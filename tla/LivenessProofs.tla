--------------------------- MODULE LivenessProofs ---------------------------
(***************************************************************************)
(* The worklist solver computes the least solution of the liveness         *)
(* equations, for every set of functions and every order in which the      *)
(* worklist is emptied.                                                    *)
(***************************************************************************)
EXTENDS Liveness, Iteration, TLAPS

(***************************************************************************)
(* The reference LiveBelow, one instruction at a time.                     *)
(***************************************************************************)

\* At the end of a block exactly its exit value is live.
LEMMA LiveAtEnd ==
    ASSUME TypeOK, NEW b \in fn.block, NEW X \in LivenessInfo
    PROVE  LiveBelow(b, Len(fn.code[b]), X) = X
<1>1. fn.code[b] \in Seq(Inst)
    BY DEF TypeOK, IsFunction, FunctionShape
<1>2. Len(fn.code[b]) \in Nat
    BY <1>1
<1>3. Len(fn.code[b]) + 1 .. Len(fn.code[b]) = {}
    BY <1>2
<1>. QED BY <1>3 DEF LiveBelow, LivenessInfo

\* Moving up over one instruction is what VisitInst does.
LEMMA LiveAbove ==
    ASSUME TypeOK, NEW b \in fn.block, NEW X \in LivenessInfo,
           NEW k \in 1 .. Len(fn.code[b])
    PROVE  LiveBelow(b, k - 1, X) = VisitInst(fn.code[b][k], LiveBelow(b, k, X))
<1>. DEFINE n == Len(fn.code[b])
            c == fn.code[b]
<1>1. /\ c \in Seq(Inst)
      /\ n \in Nat
      /\ c[k] \in Inst
      /\ fn.operand[c[k]] \subseteq Inst
    BY DEF TypeOK, IsFunction, FunctionShape
<1>2. k - 1 + 1 .. n = {k} \cup (k + 1 .. n)
    BY <1>1
<1>3. ASSUME NEW v \in Inst
      PROVE  v \in LiveBelow(b, k - 1, X)
             <=> v \in VisitInst(c[k], LiveBelow(b, k, X))
  <2>1. \A j \in k + 1 .. n : k - 1 + 1 .. j - 1 = {k} \cup (k + 1 .. j - 1)
      BY <1>1
  <2>2. k - 1 + 1 .. k - 1 = {}
      BY <1>1
  <2>3. v \in LiveBelow(b, k - 1, X)
        <=> \/ Uses(b, k, v)
            \/ ~Defines(b, k, v) /\ v \in LiveBelow(b, k, X)
      BY <1>2, <2>1, <2>2, Zenon DEF LiveBelow
  <2>. QED BY <2>3, <1>1 DEF VisitInst, Uses, Defines
<1>4. LiveBelow(b, k - 1, X) \subseteq Inst
    BY DEF LiveBelow
<1>5. VisitInst(c[k], LiveBelow(b, k, X)) \subseteq Inst
    BY <1>1 DEF VisitInst, LiveBelow
<1>. QED BY <1>3, <1>4, <1>5

\* More values live at the end of a block make more values live in it.
LEMMA LiveMonotone ==
    ASSUME NEW b, NEW k, NEW X, NEW Y, X \subseteq Y
    PROVE  LiveBelow(b, k, X) \subseteq LiveBelow(b, k, Y)
BY DEF LiveBelow
-----------------------------------------------------------------------------
(***************************************************************************)
(* Type correctness.                                                       *)
(***************************************************************************)
LEMMA TypeOKInit == Init => TypeOK
BY FunctionAssumption DEF Init, TypeOK, IsFunction, FunctionShape, LivenessInfo

LEMMA TypeOKNext == TypeOK /\ [Next]_vars => TypeOK'
<1>. SUFFICES ASSUME TypeOK, [Next]_vars PROVE TypeOK'
    OBVIOUS
<1>1. ASSUME NEW b \in Block, TakeBlock(b) PROVE TypeOK'
  <2>1. /\ fn' = fn /\ b \in fn.block
        /\ fn.code[b] \in Seq(Inst)
        /\ fn.succ[b] \subseteq fn.block
      BY <1>1 DEF TakeBlock, TypeOK, IsFunction, FunctionShape
  <2>2. MergeSucc(b, result[b].second) \in LivenessInfo
      BY <2>1 DEF TypeOK, MergeSucc, LivenessInfo
  <2>3. ii' \in Nat /\ ii' <= Len(fn.code[b])
      BY <1>1, <2>1 DEF TakeBlock, LastInst
  <2>. QED BY <1>1, <2>1, <2>2, <2>3 DEF TakeBlock, TypeOK
<1>2. CASE CompDFVal
  <2>1. /\ fn' = fn /\ bb \in fn.block
        /\ fn.code[bb] \in Seq(Inst)
        /\ fn.code[bb][ii] \in Inst
      BY <1>2 DEF CompDFVal, TypeOK, IsFunction, FunctionShape
  <2>2. VisitInst(fn.code[bb][ii], dfval) \in LivenessInfo
      BY <2>1 DEF VisitInst, TypeOK, IsFunction, FunctionShape, LivenessInfo
  <2>. QED BY <1>2, <2>1, <2>2 DEF CompDFVal, TypeOK
<1>3. CASE FinishBlock
  <2>1. fn' = fn /\ Requeue(bb) \subseteq fn.block
      BY <1>3 DEF FinishBlock, Requeue, Pred
  <2>2. result' \in [fn.block -> [first : LivenessInfo, second : LivenessInfo]]
      BY <1>3 DEF FinishBlock, TypeOK
  <2>. QED BY <1>3, <2>1, <2>2 DEF FinishBlock, TypeOK, LivenessInfo
<1>4. CASE UNCHANGED vars
    BY <1>4 DEF vars, TypeOK
<1>. QED BY <1>1, <1>2, <1>3, <1>4 DEF Next, Finished

\* The solver keeps its worklist, its per-block values and its position in the
\* block well typed, on every function it is run on.
THEOREM TypeCorrect == Spec => []TypeOK
<1>1. Init => TypeOK
    BY TypeOKInit
<1>2. TypeOK /\ [Next]_vars => TypeOK'
    BY TypeOKNext
<1>. QED BY <1>1, <1>2, PTL DEF Spec
-----------------------------------------------------------------------------
(***************************************************************************)
(* The inductive invariant.                                                *)
(***************************************************************************)
IInv ==
    /\ TypeOK
    /\ ValueInFlight
    /\ SettledBlocks
    /\ EntryBelowExit
    /\ BelowEverySolution

LEMMA IInvInit == Init => IInv
<1>. SUFFICES ASSUME Init PROVE IInv
    OBVIOUS
<1>1. TypeOK
    BY TypeOKInit
<1>2. ValueInFlight
    BY DEF Init, ValueInFlight
<1>3. SettledBlocks
    BY DEF Init, SettledBlocks
<1>4. EntryBelowExit
    BY DEF Init, EntryBelowExit
<1>5. BelowEverySolution
    BY DEF Init, BelowEverySolution, Solution
<1>. QED BY <1>1, <1>2, <1>3, <1>4, <1>5 DEF IInv

\* A block is taken: its exit value becomes the union of what its successors
\* need, and it is in flight.
LEMMA TakeBlockKeeps ==
    ASSUME IInv, TypeOK', NEW b \in Block, TakeBlock(b)
    PROVE  IInv'
<1>. DEFINE X == MergeSucc(b, result[b].second)
<1>1. /\ TypeOK /\ fn' = fn /\ b \in fn.block /\ bb = NoBlock /\ bb' = b
      /\ worklist' = worklist \ {b}
      /\ dfval' = X
      /\ ii' = Len(fn.code[b])
    BY DEF TakeBlock, LastInst, IInv, TypeOK
<1>2. /\ \A c \in fn.block : result'[c].first = result[c].first
      /\ \A c \in fn.block \ {b} : result'[c].second = result[c].second
      /\ result'[b].second = X
    BY <1>1 DEF TakeBlock, TypeOK
<1>3. /\ X \in LivenessInfo
      /\ result[b].second \subseteq X
      /\ \A s \in fn.succ[b] : result[s].first \subseteq X
    BY <1>1 DEF MergeSucc, TypeOK, IsFunction, FunctionShape, LivenessInfo
<1>4. \A c \in fn.block : fn.succ[c] \subseteq fn.block
    BY <1>1 DEF TypeOK, IsFunction
<1>0. \A c, k : LiveBelow(c, k, result[c].second)' = LiveBelow(c, k, result'[c].second)
    BY <1>1 DEF LiveBelow, Uses, Defines
<1>5. ValueInFlight'
  <2>1. LiveBelow(b, Len(fn.code[b]), X) = X
      BY <1>1, <1>3, LiveAtEnd
  <2>. QED BY <1>1, <1>2, <2>1 DEF ValueInFlight, LiveBelow, Uses, Defines
<1>6. SettledBlocks'
  <2>1. ASSUME NEW c \in fn.block \ worklist', NEW s \in fn.succ[c]
        PROVE  result'[s].first \subseteq result'[c].second
      BY <1>1, <1>2, <1>3, <1>4 DEF IInv, SettledBlocks
  <2>2. ASSUME NEW c \in fn.block \ worklist', c # b
        PROVE  result'[c].first = LiveBelow(c, 0, result'[c].second)
    <3>1. result[c].first = LiveBelow(c, 0, result[c].second)
        BY <1>1, <2>2, FunctionAssumption
        DEF IInv, SettledBlocks, TypeOK, IsFunction, FunctionShape
    <3>. QED BY <1>2, <2>2, <3>1
  <2>. QED BY <1>0, <1>1, <2>1, <2>2 DEF SettledBlocks
<1>7. EntryBelowExit'
  <2>1. ASSUME NEW c \in fn.block
        PROVE  result'[c].first \subseteq LiveBelow(c, 0, result'[c].second)
    <3>1. result[c].first \subseteq LiveBelow(c, 0, result[c].second)
        BY DEF IInv, EntryBelowExit
    <3>2. LiveBelow(c, 0, result[c].second) \subseteq LiveBelow(c, 0, result'[c].second)
        BY <1>2, <1>3, LiveMonotone
    <3>. QED BY <1>2, <3>1, <3>2
  <2>. QED BY <1>0, <1>1, <2>1 DEF EntryBelowExit
<1>8. BelowEverySolution'
  <2>1. ASSUME NEW r \in Solution, NEW c \in fn.block
        PROVE  result'[c].first \subseteq r[c].first /\ result'[c].second \subseteq r[c].second
    <3>1. \A x \in fn.block : /\ result[x].first \subseteq r[x].first
                              /\ result[x].second \subseteq r[x].second
        BY DEF IInv, BelowEverySolution
    <3>2. \A s \in fn.succ[b] : r[s].first \subseteq r[b].second
        BY <1>1 DEF Solution, Solves
    <3>3. X \subseteq r[b].second
        BY <1>1, <1>4, <3>1, <3>2 DEF MergeSucc
    <3>. QED BY <1>2, <3>1, <3>3
  <2>2. Solution' = Solution
      BY <1>1 DEF Solution, Solves, LiveBelow, Uses, Defines
  <2>. QED BY <1>1, <2>1, <2>2 DEF BelowEverySolution
<1>. QED BY <1>5, <1>6, <1>7, <1>8 DEF IInv

\* An instruction is visited: only the value in flight moves.
LEMMA CompDFValKeeps ==
    ASSUME IInv, TypeOK', CompDFVal
    PROVE  IInv'
<1>1. /\ TypeOK /\ fn' = fn /\ worklist' = worklist /\ result' = result /\ bb' = bb
      /\ bb \in fn.block /\ ii \in 1 .. Len(fn.code[bb]) /\ ii' = ii - 1
      /\ result[bb].second \in LivenessInfo
    BY DEF CompDFVal, IInv, TypeOK
<1>3. dfval' = LiveBelow(bb, ii - 1, result[bb].second)
    BY <1>1, LiveAbove DEF CompDFVal, IInv, ValueInFlight
<1>4. ValueInFlight'
    BY <1>1, <1>3 DEF ValueInFlight, LiveBelow, Uses, Defines
<1>5. SettledBlocks'
    BY <1>1 DEF IInv, SettledBlocks, LiveBelow, Uses, Defines
<1>6. EntryBelowExit'
    BY <1>1 DEF IInv, EntryBelowExit, LiveBelow, Uses, Defines
<1>7. BelowEverySolution'
    BY <1>1 DEF IInv, BelowEverySolution, Solution, Solves, LiveBelow, Uses, Defines
<1>. QED BY <1>4, <1>5, <1>6, <1>7 DEF IInv

\* A block is finished: its entry value is what its exit value implies, and if
\* that is news the predecessors are requeued.
LEMMA FinishBlockKeeps ==
    ASSUME IInv, TypeOK', FinishBlock
    PROVE  IInv'
<1>. DEFINE L(c) == LiveBelow(c, 0, result[c].second)
<1>1. /\ TypeOK /\ fn' = fn /\ bb \in fn.block /\ bb' = NoBlock /\ bb # NoBlock
      /\ dfval = L(bb)
      /\ \A c \in fn.block : fn.succ[c] \subseteq fn.block
    BY DEF FinishBlock, IInv, TypeOK, ValueInFlight, IsFunction
<1>2. /\ \A c \in fn.block : result'[c].second = result[c].second
      /\ \A c \in fn.block \ {bb} : result'[c].first = result[c].first
      /\ result'[bb].first = L(bb)
    BY <1>1 DEF FinishBlock, Changed, TypeOK
<1>3. \/ worklist' = worklist /\ result' = result
      \/ worklist' = worklist \cup Pred(bb)
    BY DEF FinishBlock, Requeue
<1>4. \A c \in fn.block : LiveBelow(c, 0, result[c].second)' = L(c)
    BY <1>1, <1>2 DEF LiveBelow, Uses, Defines
<1>5. ValueInFlight'
    BY <1>1 DEF ValueInFlight
<1>6. SettledBlocks'
  <2>1. ASSUME NEW c \in fn.block \ worklist', NEW s \in fn.succ[c]
        PROVE  result'[s].first \subseteq result'[c].second
    <3>1. result[s].first \subseteq result[c].second /\ s \in fn.block
        BY <1>1, <1>3 DEF IInv, SettledBlocks
    <3>2. CASE result' = result
        BY <3>1, <3>2
    <3>3. CASE worklist' = worklist \cup Pred(bb)
        BY <1>2, <3>1, <3>3 DEF Pred
    <3>. QED BY <1>3, <3>2, <3>3
  <2>2. ASSUME NEW c \in fn.block \ worklist'
        PROVE  result'[c].first = L(c)
      BY <1>2, <1>3 DEF IInv, SettledBlocks
  <2>. QED BY <1>1, <1>4, <2>1, <2>2 DEF SettledBlocks
<1>7. EntryBelowExit'
    BY <1>1, <1>2, <1>4 DEF IInv, EntryBelowExit
<1>8. BelowEverySolution'
  <2>1. ASSUME NEW r \in Solution
        PROVE  L(bb) \subseteq r[bb].first
    <3>1. L(bb) \subseteq LiveBelow(bb, 0, r[bb].second)
        BY <1>1, LiveMonotone DEF IInv, BelowEverySolution
    <3>. QED BY <1>1, <3>1 DEF Solution, Solves
  <2>2. Solution' = Solution
      BY <1>1 DEF Solution, Solves, LiveBelow, Uses, Defines
  <2>. QED BY <1>1, <1>2, <2>1, <2>2 DEF IInv, BelowEverySolution
<1>. QED BY <1>5, <1>6, <1>7, <1>8 DEF IInv

LEMMA IInvNext == IInv /\ [Next]_vars => IInv'
<1>. SUFFICES ASSUME IInv, [Next]_vars PROVE IInv'
    OBVIOUS
<1>1. TypeOK'
    BY TypeOKNext DEF IInv
<1>2. ASSUME NEW b \in Block, TakeBlock(b) PROVE IInv'
    BY <1>1, <1>2, TakeBlockKeeps
<1>3. CASE CompDFVal
    BY <1>1, <1>3, CompDFValKeeps
<1>4. CASE FinishBlock
    BY <1>1, <1>4, FinishBlockKeeps
<1>5. CASE UNCHANGED vars
    BY <1>5 DEF vars, IInv, TypeOK, ValueInFlight, SettledBlocks, EntryBelowExit,
                BelowEverySolution, Solution, Solves, LiveBelow, Uses, Defines
<1>. QED BY <1>2, <1>3, <1>4, <1>5 DEF Next, Finished

LEMMA Inductive == Spec => []IInv
BY IInvInit, IInvNext, PTL DEF Spec
-----------------------------------------------------------------------------
\* A block that is off the worklist needs no further visit: it has merged what
\* all its successors need, and its entry value is what its code makes of that.
THEOREM SettledCorrect == Spec => []SettledBlocks
<1>1. IInv => SettledBlocks
    BY DEF IInv
<1>. QED BY <1>1, Inductive, PTL

\* When the worklist runs empty the result is a solution of the liveness
\* equations and lies below every other one, whatever order std::set<BasicBlock *>
\* gave the blocks.
THEOREM LeastSolution == Spec => []LeastSolutionWhenDone
<1>1. IInv => LeastSolutionWhenDone
  <2>. SUFFICES ASSUME IInv, Done PROVE result \in Solution
      BY DEF IInv, LeastSolutionWhenDone
  <2>1. result \in [fn.block -> [first : LivenessInfo, second : LivenessInfo]]
      BY DEF IInv, TypeOK
  <2>2. \A b \in fn.block : b # bb
      BY FunctionAssumption DEF Done, IInv, TypeOK, IsFunction, FunctionShape
  <2>3. Solves(result)
      BY <2>2 DEF Solves, Done, IInv, SettledBlocks
  <2>. QED BY <2>1, <2>3 DEF Solution
<1>. QED BY <1>1, Inductive, PTL

\* No step takes a value away from a block's entry or exit: the iteration climbs
\* a finite lattice, which is why it ends.
THEOREM OnlyGrows == Spec => Growing
<1>1. IInv /\ [Next]_vars => [Grows]_vars
  <2>. SUFFICES ASSUME IInv, Next, NEW b \in fn.block
                PROVE  /\ result[b].first \subseteq result'[b].first
                       /\ result[b].second \subseteq result'[b].second
      BY DEF Grows
  <2>1. ASSUME NEW c \in Block, TakeBlock(c)
        PROVE  /\ result[b].first \subseteq result'[b].first
               /\ result[b].second \subseteq result'[b].second
      BY <2>1 DEF TakeBlock, MergeSucc, IInv, TypeOK
  <2>2. CASE FinishBlock
    <3>1. result[bb].first \subseteq dfval
        BY <2>2 DEF FinishBlock, IInv, TypeOK, ValueInFlight, EntryBelowExit
    <3>. QED BY <2>2, <3>1 DEF FinishBlock, IInv, TypeOK
  <2>. QED BY <2>1, <2>2 DEF Next, CompDFVal, Finished, vars
<1>. QED BY <1>1, Inductive, PTL DEF Spec, Growing
-----------------------------------------------------------------------------
(***************************************************************************)
(* Liveness along paths.                                                   *)
(***************************************************************************)

\* p is a path of the control flow graph with n blocks that starts at b and shows v live.
LivePathOf(p, n, b, v) ==
    /\ p \in [1 .. n -> fn.block]
    /\ p[1] = b
    /\ UpwardExposed(p[n], v)
    /\ \A i \in 1 .. n - 1 : p[i + 1] \in fn.succ[p[i]] /\ Transparent(p[i], v)

\* The lengths of such paths.
Lengths(b, v) == {n \in Nat \ {0} : \E p : LivePathOf(p, n, b, v)}

\* What is live at the end of b and not defined in b is live at its start.
LEMMA TransparentLive ==
    ASSUME TypeOK, NEW b \in fn.block, NEW v \in Inst, Transparent(b, v),
           NEW X, v \in X
    PROVE  v \in LiveBelow(b, 0, X)
BY DEF LiveBelow, Transparent

\* A live value is exposed in the block itself, or live at its end and not defined in it.
LEMMA LiveSplits ==
    ASSUME TypeOK, NEW b \in fn.block, NEW v \in Inst, NEW X
    PROVE  v \in LiveBelow(b, 0, X) <=>
             UpwardExposed(b, v) \/ (v \in X /\ Transparent(b, v))
BY DEF LiveBelow, Transparent, UpwardExposed

\* A live path from a successor of a block that does not define v is one from the block.
LEMMA LongerPath ==
    ASSUME TypeOK, NEW b \in fn.block, NEW s \in fn.succ[b], NEW v \in Inst,
           Transparent(b, v), NEW n \in Lengths(s, v)
    PROVE  n + 1 \in Lengths(b, v)
<1>1. s \in fn.block
    BY DEF TypeOK, IsFunction
<1>2. n \in Nat \ {0}
    BY DEF Lengths
<1>3. PICK p : LivePathOf(p, n, s, v)
    BY DEF Lengths
<1>. DEFINE q == [i \in 1 .. n + 1 |-> IF i = 1 THEN b ELSE p[i - 1]]
<1>4. q \in [1 .. n + 1 -> fn.block] /\ q[1] = b /\ q[n + 1] = p[n]
    BY <1>2, <1>3 DEF LivePathOf
<1>5. ASSUME NEW i \in 1 .. n + 1 - 1
      PROVE  q[i + 1] \in fn.succ[q[i]] /\ Transparent(q[i], v)
  <2>1. CASE i = 1
      BY <1>2, <1>3, <2>1 DEF LivePathOf
  <2>2. CASE i # 1
    <3>1. i - 1 \in 1 .. n - 1 /\ i \in 1 .. n /\ q[i] = p[i - 1] /\ q[i + 1] = p[i]
        BY <1>2, <2>2
    <3>. HIDE DEF q
    <3>2. p[i - 1 + 1] \in fn.succ[p[i - 1]] /\ Transparent(p[i - 1], v)
        BY <1>3, <3>1 DEF LivePathOf
    <3>3. i - 1 + 1 = i
        OBVIOUS
    <3>. QED BY <3>1, <3>2, <3>3
  <2>. QED BY <2>1, <2>2
<1>6. LivePathOf(q, n + 1, b, v)
  <2>. HIDE DEF q
  <2>1. UpwardExposed(q[n + 1], v)
      BY <1>3, <1>4 DEF LivePathOf
  <2>. QED BY <1>2, <1>4, <1>5, <2>1 DEF LivePathOf
<1>. QED BY <1>2, <1>6 DEF Lengths

\* The end of a live path is a live path.
LEMMA PathSuffix ==
    ASSUME NEW p, NEW n \in Nat, NEW b, NEW v, LivePathOf(p, n, b, v), NEW k \in 1 .. n
    PROVE  n - k + 1 \in Lengths(p[k], v)
<1>. DEFINE m == n - k + 1
            q == [i \in 1 .. m |-> p[i + (k - 1)]]
<1>1. /\ m \in Nat \ {0} /\ m + (k - 1) = n /\ 1 + (k - 1) = k
      /\ \A i \in 1 .. m : i + (k - 1) \in 1 .. n
      /\ \A i \in 1 .. m - 1 : i + (k - 1) \in 1 .. n - 1 /\ i + 1 + (k - 1) = i + (k - 1) + 1
                               /\ i \in 1 .. m /\ i + 1 \in 1 .. m
    OBVIOUS
<1>2. q \in [1 .. m -> fn.block] /\ q[1] = p[k] /\ q[m] = p[n]
    BY <1>1 DEF LivePathOf
<1>3. ASSUME NEW i \in 1 .. m - 1
      PROVE  q[i + 1] \in fn.succ[q[i]] /\ Transparent(q[i], v)
  <2>1. q[i] = p[i + (k - 1)] /\ q[i + 1] = p[i + (k - 1) + 1]
      BY <1>1
  <2>. HIDE DEF q, m
  <2>. QED BY <1>1, <2>1 DEF LivePathOf
<1>4. LivePathOf(q, m, p[k], v)
  <2>. HIDE DEF q, m
  <2>. QED BY <1>2, <1>3 DEF LivePathOf
<1>. HIDE DEF q
<1>. QED BY <1>1, <1>4 DEF Lengths

\* What shows v live from the i-th block of a live path shows it from the first.
LEMMA PathPrefix ==
    ASSUME TypeOK, NEW p, NEW n \in Nat, NEW b \in fn.block, NEW v \in Inst,
           LivePathOf(p, n, b, v), NEW i \in 1 .. n, NEW m \in Lengths(p[i], v)
    PROVE  m + (i - 1) \in Lengths(b, v)
<1>. DEFINE T == {k \in Nat : k + 1 <= n =>
                      \A l \in Nat : l \in Lengths(p[k + 1], v) => l + k \in Lengths(b, v)}
<1>1. 0 \in T
    BY DEF LivePathOf
<1>2. ASSUME NEW k \in Nat, k \in T PROVE k + 1 \in T
  <2>. SUFFICES ASSUME k + 1 + 1 <= n, NEW l \in Nat, l \in Lengths(p[k + 1 + 1], v)
                PROVE  l + (k + 1) \in Lengths(b, v)
      OBVIOUS
  <2>1. k + 1 \in 1 .. n - 1 /\ k + 1 \in 1 .. n
      OBVIOUS
  <2>2. /\ p[k + 1] \in fn.block /\ p[k + 1 + 1] \in fn.succ[p[k + 1]]
        /\ Transparent(p[k + 1], v)
      BY <2>1 DEF LivePathOf
  <2>3. l + 1 \in Lengths(p[k + 1], v)
      BY <2>2, LongerPath
  <2>4. l + 1 \in Nat /\ l + 1 + k = l + (k + 1)
      OBVIOUS
  <2>. QED BY <1>2, <2>1, <2>3, <2>4
<1>3. Nat \subseteq T
  <2>. HIDE DEF T
  <2>. QED BY <1>1, <1>2, InductionOnSet
<1>4. i - 1 \in Nat /\ i - 1 + 1 = i /\ m \in Nat
    BY DEF Lengths
<1>5. i - 1 \in T
  <2>. HIDE DEF T
  <2>. QED BY <1>3, <1>4
<1>. QED BY <1>4, <1>5

\* A shortest live path repeats no block, so it is not longer than there are blocks.
LEMMA ShortestPath ==
    ASSUME TypeOK, NEW b \in fn.block, NEW v \in Inst, Lengths(b, v) # {}
    PROVE  \E n \in Lengths(b, v) : n <= Cardinality(fn.block)
<1>1. IsFiniteSet(fn.block) /\ Cardinality(fn.block) \in Nat
    BY FS_CardinalityType DEF TypeOK, IsFunction
<1>2. Lengths(b, v) \in SUBSET Nat
    BY DEF Lengths
<1>3. PICK n \in Lengths(b, v) : \A k \in Lengths(b, v) : n <= k
    BY <1>2, LeastNumber
<1>4. n \in Nat \ {0}
    BY DEF Lengths
<1>5. PICK p : LivePathOf(p, n, b, v)
    BY DEF Lengths
<1>6. SUFFICES ASSUME Cardinality(fn.block) < n PROVE FALSE
    BY <1>1, <1>4
<1>7. PICK i, j \in 1 .. n : i # j /\ p[i] = p[j]
  <2>1. IsFiniteSet(1 .. n) /\ Cardinality(1 .. n) = n
      BY <1>4, FS_Interval
  <2>2. p \in [1 .. n -> fn.block]
      BY <1>5 DEF LivePathOf
  <2>. QED BY <1>1, <1>6, <2>1, <2>2, FS_PigeonHole
<1>8. ASSUME NEW k \in 1 .. n, NEW l \in 1 .. n, k < l, p[k] = p[l] PROVE FALSE
  <2>1. n - l + 1 \in Lengths(p[k], v)
      BY <1>4, <1>5, <1>8, PathSuffix
  <2>2. n - l + 1 + (k - 1) \in Lengths(b, v)
      BY <1>4, <1>5, <2>1, PathPrefix
  <2>. QED BY <1>3, <1>4, <1>8, <2>2
<1>9. i < j \/ j < i
    BY <1>7
<1>. QED BY <1>7, <1>8, <1>9

\* The paths of the reference are the live paths that are not too long.
LEMMA PathsByLength ==
    ASSUME TypeOK, NEW b \in fn.block, NEW v \in Inst
    PROVE  (\E p \in PathsFrom(b) : LivePath(p, v)) <=> Lengths(b, v) # {}
<1>1. ASSUME NEW n \in Nat \ {0}, NEW p \in [1 .. n -> fn.block]
      PROVE  Len(p) = n
  <2>1. p \in Seq(fn.block)
      BY <1>1
  <2>. QED BY <1>1, <2>1
<1>2. ASSUME NEW p \in PathsFrom(b), LivePath(p, v) PROVE Lengths(b, v) # {}
  <2>1. PICK n \in 1 .. Cardinality(fn.block) : p \in [1 .. n -> fn.block]
      BY DEF PathsFrom
  <2>2. p[1] = b /\ n \in Nat \ {0}
      BY <2>1 DEF PathsFrom
  <2>3. LivePathOf(p, n, b, v)
      BY <1>1, <1>2, <2>1, <2>2 DEF LivePath, LivePathOf
  <2>. QED BY <2>2, <2>3 DEF Lengths
<1>3. ASSUME Lengths(b, v) # {} PROVE \E p \in PathsFrom(b) : LivePath(p, v)
  <2>1. PICK n \in Lengths(b, v) : n <= Cardinality(fn.block)
      BY <1>3, ShortestPath
  <2>2. n \in Nat \ {0}
      BY DEF Lengths
  <2>3. PICK p : LivePathOf(p, n, b, v)
      BY DEF Lengths
  <2>4. IsFiniteSet(fn.block) /\ Cardinality(fn.block) \in Nat
      BY FS_CardinalityType DEF TypeOK, IsFunction
  <2>5. p \in [1 .. n -> fn.block] /\ n \in 1 .. Cardinality(fn.block)
      BY <2>1, <2>2, <2>3, <2>4 DEF LivePathOf
  <2>6. p \in PathsFrom(b)
      BY <2>3, <2>5 DEF PathsFrom, LivePathOf
  <2>7. LivePath(p, v)
      BY <1>1, <2>2, <2>3, <2>5 DEF LivePath, LivePathOf
  <2>. QED BY <2>6, <2>7
<1>. QED BY <1>2, <1>3

\* The values with a live path solve the equations.
LEMMA PathsSolve ==
    ASSUME TypeOK
    PROVE  [b \in fn.block |->
              [first |-> {v \in Inst : Lengths(b, v) # {}},
               second |-> {v \in Inst : \E s \in fn.succ[b] : Lengths(s, v) # {}}]] \in Solution
<1>. DEFINE r == [b \in fn.block |->
              [first |-> {v \in Inst : Lengths(b, v) # {}},
               second |-> {v \in Inst : \E s \in fn.succ[b] : Lengths(s, v) # {}}]]
<1>1. r \in [fn.block -> [first : LivenessInfo, second : LivenessInfo]]
    BY DEF LivenessInfo
<1>2. \A b \in fn.block : \A s \in fn.succ[b] : s \in fn.block
    BY DEF TypeOK, IsFunction
<1>3. ASSUME NEW b \in fn.block, NEW s \in fn.succ[b]
      PROVE  r[s].first \subseteq r[b].second
    BY <1>2
<1>4. ASSUME NEW b \in fn.block, NEW v \in LiveBelow(b, 0, r[b].second)
      PROVE  v \in r[b].first
  <2>1. v \in Inst
      BY DEF LiveBelow
  <2>2. CASE UpwardExposed(b, v)
    <3>1. LivePathOf([i \in 1 .. 1 |-> b], 1, b, v)
        BY <2>2 DEF LivePathOf
    <3>2. 1 \in Lengths(b, v)
        BY <3>1 DEF Lengths
    <3>. QED BY <2>1, <3>2
  <2>3. CASE v \in r[b].second /\ Transparent(b, v)
    <3>1. PICK s \in fn.succ[b] : Lengths(s, v) # {}
        BY <2>3
    <3>2. PICK n \in Lengths(s, v) : TRUE
        BY <3>1
    <3>3. n + 1 \in Lengths(b, v)
        BY <2>1, <2>3, LongerPath
    <3>. QED BY <2>1, <3>3
  <2>. HIDE DEF r
  <2>. QED BY <2>1, <2>2, <2>3, LiveSplits
<1>. HIDE DEF r
<1>5. Solves(r)
    BY <1>3, <1>4 DEF Solves
<1>. QED BY <1>1, <1>5 DEF Solution, r

\* A solution holds v wherever a live path for v starts.
LEMMA SolutionHoldsPaths ==
    ASSUME TypeOK, NEW r \in Solution, NEW v \in Inst,
           NEW b \in fn.block, Lengths(b, v) # {}
    PROVE  v \in r[b].first
<1>. DEFINE T == {n \in Nat : \A c \in fn.block : n + 1 \in Lengths(c, v) => v \in r[c].first}
<1>1. \A c \in fn.block : /\ LiveBelow(c, 0, r[c].second) \subseteq r[c].first
                          /\ \A s \in fn.succ[c] : s \in fn.block /\ r[s].first \subseteq r[c].second
    BY DEF Solution, Solves, TypeOK, IsFunction
<1>2. 0 \in T
  <2>. SUFFICES ASSUME NEW c \in fn.block, 0 + 1 \in Lengths(c, v) PROVE v \in r[c].first
      OBVIOUS
  <2>1. PICK p : LivePathOf(p, 0 + 1, c, v)
      BY DEF Lengths
  <2>2. UpwardExposed(c, v)
      BY <2>1 DEF LivePathOf
  <2>. QED BY <1>1, <2>2, LiveSplits
<1>3. ASSUME NEW n \in Nat, n \in T PROVE n + 1 \in T
  <2>. SUFFICES ASSUME NEW c \in fn.block, n + 1 + 1 \in Lengths(c, v) PROVE v \in r[c].first
      OBVIOUS
  <2>1. PICK p : LivePathOf(p, n + 1 + 1, c, v)
      BY DEF Lengths
  <2>2. n + 1 + 1 \in Nat /\ 2 \in 1 .. n + 1 + 1 /\ 1 \in 1 .. n + 1 + 1 - 1
        /\ n + 1 + 1 - 2 + 1 = n + 1 /\ 1 + 1 = 2
      OBVIOUS
  <2>3. p[1] = c /\ p[2] \in fn.succ[c] /\ Transparent(c, v)
      BY <2>1, <2>2 DEF LivePathOf
  <2>4. n + 1 \in Lengths(p[2], v)
      BY <2>1, <2>2, PathSuffix
  <2>5. v \in r[p[2]].first
      BY <1>1, <1>3, <2>3, <2>4
  <2>. QED BY <1>1, <2>3, <2>5, LiveSplits
<1>4. Nat \subseteq T
  <2>. HIDE DEF T
  <2>. QED BY <1>2, <1>3, InductionOnSet
<1>5. PICK n \in Lengths(b, v) : TRUE
    OBVIOUS
<1>6. n - 1 \in Nat /\ n - 1 + 1 = n
    BY DEF Lengths
<1>7. n - 1 \in T
  <2>. HIDE DEF T
  <2>. QED BY <1>4, <1>6
<1>. QED BY <1>5, <1>6, <1>7

\* The values reported live on entry to a block are those some path of the control flow
\* graph from the block reaches a use of without passing a definition: the equations of
\* compBackwardDataflow and the paths of the program say the same, on every function.
THEOREM LiveAlongPaths == Spec => []LiveOnPaths
<1>1. IInv /\ LeastSolutionWhenDone => LiveOnPaths
  <2>. SUFFICES ASSUME IInv, LeastSolutionWhenDone, Done,
                       NEW b \in fn.block, NEW v \in Inst
                PROVE  v \in result[b].first <=> Lengths(b, v) # {}
      BY PathsByLength DEF LiveOnPaths, IInv
  <2>1. result \in Solution /\ BelowEverySolution
      BY DEF LeastSolutionWhenDone
  <2>2. Lengths(b, v) # {} => v \in result[b].first
      BY <2>1, SolutionHoldsPaths DEF IInv
  <2>3. ASSUME v \in result[b].first PROVE Lengths(b, v) # {}
    <3>. DEFINE r == [c \in fn.block |->
                        [first |-> {w \in Inst : Lengths(c, w) # {}},
                         second |-> {w \in Inst : \E s \in fn.succ[c] : Lengths(s, w) # {}}]]
    <3>1. r \in Solution
        BY PathsSolve DEF IInv
    <3>2. result[b].first \subseteq r[b].first
      <4>. HIDE DEF r
      <4>. QED BY <2>1, <3>1 DEF BelowEverySolution
    <3>. QED BY <2>3, <3>2
  <2>. QED BY <2>2, <2>3
<1>. QED BY <1>1, Inductive, LeastSolution, PTL
=============================================================================
