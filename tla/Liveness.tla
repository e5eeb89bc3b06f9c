------------------------------ MODULE Liveness ------------------------------
(***************************************************************************)
(* The backward worklist solver of assignment3/src/Dataflow.h, run by the  *)
(* liveness pass of assignment3/src/Liveness.h on one function.            *)
(*                                                                         *)
(* The worklist is a std::set<BasicBlock *>: "the first element" is the    *)
(* block with the smallest address, which the allocator decides, so the    *)
(* model takes any block of the worklist.                                  *)
(***************************************************************************)
EXTENDS Integers, Sequences, FiniteSets

CONSTANTS
    Block,      \* basic blocks
    Inst,       \* instructions
    NoBlock,    \* "no block is being processed"
    Function    \* the functions the pass may be run on

(***************************************************************************)
(* A function gives each of its blocks its code and its successors, each   *)
(* instruction the set of its operands that are instructions, and names    *)
(* the debug intrinsics.                                                   *)
(***************************************************************************)
FunctionShape ==
    [block   : SUBSET Block,
     code    : [Block -> Seq(Inst)],
     succ    : [Block -> SUBSET Block],
     operand : [Inst -> SUBSET Inst],
     dbg     : SUBSET Inst]

IsFunction(f) ==
    /\ f \in FunctionShape
    /\ IsFiniteSet(f.block)
    /\ \A b \in f.block : f.succ[b] \subseteq f.block

ASSUME FunctionAssumption ==
    /\ NoBlock \notin Block
    /\ \A f \in Function : IsFunction(f)

VARIABLES
    fn,         \* the function being analysed
    worklist,   \* blocks still to be processed
    result,     \* per block: .first is live on entry, .second on exit
    bb,         \* the block being processed, or NoBlock
    ii,         \* instructions of bb not yet visited: those at 1 .. ii
    dfval       \* the value flowing backwards through bb

vars == <<fn, worklist, result, bb, ii, dfval>>

LivenessInfo == SUBSET Inst

\* The shape of the solver's state: worklist and results are about the blocks of fn,
\* and the position in a block is one of it or just before it.
TypeOK ==
    /\ IsFunction(fn)
    /\ worklist \subseteq fn.block
    /\ result \in [fn.block -> [first : LivenessInfo, second : LivenessInfo]]
    /\ bb \in fn.block \cup {NoBlock}
    /\ dfval \in LivenessInfo
    /\ ii \in Nat
    /\ bb # NoBlock => ii <= Len(fn.code[bb])
-----------------------------------------------------------------------------
Pred(b) == {p \in fn.block : b \in fn.succ[p]}

\* The visitor's merge, folded over the successors of b.
MergeSucc(b, exit) == exit \cup UNION {result[s].first : s \in fn.succ[b]}

\* Mutants of VisitInst: the definition is not killed; either killed or its
\* operands made live, not both.
VisitWithoutKill(inst, live) ==
    IF inst \in fn.dbg THEN live ELSE live \cup fn.operand[inst]
VisitKillOrUse(inst, live) ==
    IF inst \in live THEN live \ {inst} ELSE live \cup fn.operand[inst]

\* What one instruction does to the value below it.
VisitInst(inst, live) ==
    IF inst \in fn.dbg THEN live ELSE (live \ {inst}) \cup fn.operand[inst]

Init ==
    /\ fn \in Function
    /\ worklist = fn.block
    /\ result = [b \in fn.block |-> [first |-> {}, second |-> {}]]
    /\ bb = NoBlock
    /\ ii = 0
    /\ dfval = {}

\* Where the reverse iteration starts (the mutant is off by one).
PastLastInst(b) == Len(fn.code[b]) + 1
LastInst(b) == Len(fn.code[b])

\* Pop a block and merge what its successors need.
TakeBlock(b) ==
    /\ bb = NoBlock
    /\ b \in worklist
    /\ worklist' = worklist \ {b}
    /\ dfval' = MergeSucc(b, result[b].second)
    /\ result' = [result EXCEPT ![b].second = dfval']
    /\ bb' = b
    /\ ii' = LastInst(b)
    /\ UNCHANGED fn

\* Visit the last instruction not visited yet.
CompDFVal ==
    /\ bb # NoBlock
    /\ ii > 0
    /\ dfval' = VisitInst(fn.code[bb][ii], dfval)
    /\ ii' = ii - 1
    /\ UNCHANGED <<fn, worklist, result, bb>>

\* The blocks an entry value is propagated to (the mutant forgets them).
RequeueNone(b) == {}
Requeue(b) == Pred(b)

\* Whether there is anything to propagate (the mutant does not compare).
AlwaysChanged == TRUE
Changed == dfval # result[bb].first

\* The value reached the top of bb: if it changed, store it and requeue the
\* predecessors.
FinishBlock ==
    /\ bb # NoBlock
    /\ ii = 0
    /\ \/ /\ ~Changed
          /\ UNCHANGED <<worklist, result>>
       \/ /\ Changed
          /\ result' = [result EXCEPT ![bb].first = dfval]
          /\ worklist' = worklist \cup Requeue(bb)
    /\ bb' = NoBlock
    /\ dfval' = {}
    /\ UNCHANGED <<fn, ii>>

Done == worklist = {} /\ bb = NoBlock

\* The pass has returned.
Finished == Done /\ UNCHANGED vars

Next ==
    \/ \E b \in Block : TakeBlock(b)
    \/ CompDFVal
    \/ FinishBlock
    \/ Finished

\* One thread runs the pass, and nothing blocks it.
Spec == Init /\ [][Next]_vars /\ WF_vars(Next)
-----------------------------------------------------------------------------
(***************************************************************************)
(* The reference: what liveness means, without an iteration.               *)
(***************************************************************************)
Defines(b, i, v) == fn.code[b][i] = v /\ v \notin fn.dbg

Uses(b, i, v) == fn.code[b][i] \notin fn.dbg /\ v \in fn.operand[fn.code[b][i]]

\* The values live just below position k of b when those of exit are live at
\* the end of b: used further down before any definition, or live at the end
\* and not defined further down.
LiveBelow(b, k, exit) ==
    {v \in Inst :
        \/ \E j \in k + 1 .. Len(fn.code[b]) :
              Uses(b, j, v) /\ \A i \in k + 1 .. j - 1 : ~Defines(b, i, v)
        \/ v \in exit /\ \A i \in k + 1 .. Len(fn.code[b]) : ~Defines(b, i, v)}

\* r solves the liveness equations of fn, with inequalities.
Solves(r) ==
    \A b \in fn.block :
        /\ LiveBelow(b, 0, r[b].second) \subseteq r[b].first
        /\ \A s \in fn.succ[b] : r[s].first \subseteq r[b].second

Solution == {r \in [fn.block -> [first : LivenessInfo, second : LivenessInfo]] :
                Solves(r)}

(***************************************************************************)
(* The block being processed holds what its exit value implies at the      *)
(* position reached; a block nobody has to look at again satisfies its     *)
(* equations; and an entry value never exceeds what the exit value         *)
(* implies, so that a later visit can only make it grow.                   *)
(* (compBackwardDataflow: blocks off the worklist are up to date.)         *)
(***************************************************************************)
ValueInFlight == bb # NoBlock => dfval = LiveBelow(bb, ii, result[bb].second)

\* compBackwardDataflow: a block off the worklist is up to date with its successors
\* and its own code.
SettledBlocks ==
    \A b \in fn.block \ worklist :
        /\ \A s \in fn.succ[b] : result[s].first \subseteq result[b].second
        /\ b # bb => result[b].first = LiveBelow(b, 0, result[b].second)

EntryBelowExit ==
    \A b \in fn.block : result[b].first \subseteq LiveBelow(b, 0, result[b].second)

\* Nothing is reported live that some solution of the equations leaves out
\* (the solver never overshoots, in whatever order it takes the blocks).
BelowEverySolution ==
    \A r \in Solution : \A b \in fn.block :
        /\ result[b].first \subseteq r[b].first
        /\ result[b].second \subseteq r[b].second

\* When the worklist is empty the result is the least solution.
LeastSolutionWhenDone == Done => result \in Solution /\ BelowEverySolution

(***************************************************************************)
(* When the worklist is empty, v is live on entry to b exactly when a path *)
(* of the control flow graph starts at b and reaches a use of v without    *)
(* passing a definition of v. Two different descriptions of liveness: the  *)
(* equations and the paths.                                                *)
(***************************************************************************)
UpwardExposed(b, v) == v \in LiveBelow(b, 0, {})

Transparent(b, v) == \A i \in 1 .. Len(fn.code[b]) : ~Defines(b, i, v)

LivePath(p, v) ==
    /\ UpwardExposed(p[Len(p)], v)
    /\ \A i \in 1 .. Len(p) - 1 : p[i + 1] \in fn.succ[p[i]] /\ Transparent(p[i], v)

\* Paths without a repeated block are enough.
PathsFrom(b) ==
    {p \in UNION {[1 .. n -> fn.block] : n \in 1 .. Cardinality(fn.block)} : p[1] = b}

\* The result of compBackwardDataflow, in whatever order the blocks were taken, is
\* liveness along the paths.
LiveOnPaths ==
    Done => \A b \in fn.block : \A v \in Inst :
                v \in result[b].first <=> \E p \in PathsFrom(b) : LivePath(p, v)

\* Both values of a block only grow (the reason the iteration ends).
Grows ==
    \A b \in fn.block : /\ result[b].first \subseteq result'[b].first
                        /\ result[b].second \subseteq result'[b].second

\* No step takes a value away from a block's result.
Growing == [][Grows]_vars

\* The comment of Dataflow.h asks for a monotone function so that the
\* iteration terminates: liveness is one.
Termination == <>Done
=============================================================================
