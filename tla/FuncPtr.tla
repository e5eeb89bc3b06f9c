------------------------------ MODULE FuncPtr ------------------------------
(***************************************************************************)
(* The function-pointer analysis of assignment3: the forward worklist      *)
(* solver of Dataflow.h, which calls itself through processCallInst of     *)
(* FuncPtr.cpp for every callee it finds, under the loop of runOnModule.   *)
(*                                                                         *)
(* The C++ call stack is the sequence "stack", its last frame the running  *)
(* one. The maps result, CalleeMap, CallerMap and AllocMap are shared by   *)
(* all the frames, as in the code.                                         *)
(*                                                                         *)
(* std::set<BasicBlock *> and std::set<Function *> iterate in the order of *)
(* addresses, which the allocator decides: the model takes any element.    *)
(***************************************************************************)
EXTENDS PointsTo

CONSTANTS
    Program,    \* the modules the pass may be run on
    MaxDepth    \* bound on the depth of the recursion over callees

(***************************************************************************)
(* A module is a record:                                                   *)
(*   fun      the functions that are not intrinsics, in module order       *)
(*   block    per function its basic blocks; {} for a declaration          *)
(*   entry    per function with a body its entry block                     *)
(*   exit     per function its block without successors, or NoBlock        *)
(*   param    per function the sequence of its parameters                  *)
(*   code     per block its instructions that the analysis looks at        *)
(*   succ     per block its successors                                     *)
(*   constant the constants i32 0, i32 1, ... used as allocation sites     *)
(*   value    every value the analysis may meet                            *)
(***************************************************************************)
NoBlock == "no block"

FuncsOf(p) == {p.fun[i] : i \in DOMAIN p.fun}
BlocksOf(p) == UNION {p.block[f] : f \in FuncsOf(p)}
InstsOf(p) == UNION {{p.code[b][i] : i \in DOMAIN p.code[b]} : b \in BlocksOf(p)}

\* What mapAllocSite may be asked about.
Allocations(p) == {i.dst : i \in {inst \in InstsOf(p) : inst.op \in {"alloca", "call"}}}

IsInstr(p, i) ==
    /\ i.op \in {"alloca", "load", "store", "memcpy", "cast", "gep", "phi", "call", "ret"}
    /\ i.op # "ret" => i.dst \in p.value
    /\ i.src \in Seq(p.value)
    /\ i.op \in {"load", "store", "memcpy", "cast", "gep", "phi"} => i.src # <<>>

IsModule(p) ==
    /\ p.fun \in Seq(p.value)
    /\ NoBlock \notin BlocksOf(p)
    /\ \A f, g \in FuncsOf(p) : f # g => p.block[f] \cap p.block[g] = {}
    /\ \A f \in FuncsOf(p) :
          /\ p.exit[f] \in p.block[f] \cup {NoBlock}
          /\ p.block[f] # {} => p.entry[f] \in p.block[f]
          \* no external function other than malloc is called
          /\ p.block[f] = {} => f = "malloc"
          \* setExitBlock asserts that a function has one exit block
          /\ \A b \in p.block[f] : /\ p.succ[b] \subseteq p.block[f]
                                   /\ p.succ[b] = {} => b = p.exit[f]
    /\ \A b \in BlocksOf(p) : p.code[b] \in Seq(InstsOf(p))
    /\ \A i \in InstsOf(p) : IsInstr(p, i)
    /\ p.constant \in Seq(p.value)
    /\ \A m, n \in DOMAIN p.constant : p.constant[m] = p.constant[n] => m = n
    /\ IsFiniteSet(Allocations(p)) /\ Cardinality(Allocations(p)) <= Len(p.constant)

ASSUME ProgramAssumption ==
    /\ MaxDepth \in Nat
    /\ \A p \in Program : IsModule(p)

VARIABLES
    prog,           \* the module under analysis
    next,           \* runOnModule: index of the function to analyse next
    stack,          \* the running activations of compForwardDataflowInter
    result,         \* per block seen so far: .first on entry, .second on exit
    CalleeMap,      \* per call instruction the functions linked to it
    CallerMap,      \* per function the call instructions linked to it
    AllocMap        \* per allocation seen so far its site

vars == <<prog, next, stack, result, CalleeMap, CallerMap, AllocMap>>

Func == FuncsOf(prog)
Blocks == BlocksOf(prog)
Pred(b) == {c \in Blocks : b \in prog.succ[c]}
CallSites == {i.dst : i \in {inst \in InstsOf(prog) : inst.op = "call"}}

Facts == [prog.value -> SUBSET prog.value]
NoFacts == [v \in prog.value |-> {}]

\* "trick: let function points-to function"
InitVal == [v \in prog.value |-> IF v \in Func THEN {v} ELSE {}]

\* An activation: the function, its worklist, the block in hand and the position
\* in it, the value flowing through. While processCallInst handles a call: the
\* callees (of a memcpy, the targets) its loop has still to visit, and the merge
\* of the values on exit of the callees it has visited.
Frame == [fn : Func, worklist : SUBSET Blocks, bb : Blocks \cup {NoBlock}, ii : Nat,
          dfval : Facts, calling : BOOLEAN, todo : SUBSET prog.value, out : Facts]

\* The shape of the pass's state: call sites are linked to functions only, every
\* value flowing is a points-to map, and every frame analyses a function.
TypeOK ==
    /\ prog \in Program
    /\ next \in 1 .. Len(prog.fun) + 1
    /\ stack \in Seq(Frame)
    /\ DOMAIN result \subseteq Blocks
    /\ result \in [DOMAIN result -> [first : Facts, second : Facts]]
    /\ CalleeMap \in [CallSites -> SUBSET Func]
    /\ CallerMap \in [Func -> SUBSET CallSites]
    /\ DOMAIN AllocMap \subseteq Allocations(prog)
    /\ AllocMap \in [DOMAIN AllocMap -> prog.value]
-----------------------------------------------------------------------------
Running == stack # <<>>
Top == stack[Len(stack)]
SetTop(frame) == stack' = [stack EXCEPT ![Len(stack)] = frame]
Inst == prog.code[Top.bb][Top.ii]
InBlock == Running /\ Top.bb # NoBlock /\ ~Top.calling
AtInst == InBlock /\ Top.ii <= Len(prog.code[Top.bb])

\* The values the solver starts a function with: blocks that have a result
\* already keep it.
Entered(r, f, initval) ==
    [b \in DOMAIN r \cup prog.block[f] |->
        IF b \in DOMAIN r THEN r[b] ELSE [first |-> initval, second |-> initval]]

Activation(f) ==
    [fn |-> f, worklist |-> prog.block[f], bb |-> NoBlock, ii |-> 1,
     dfval |-> NoFacts, calling |-> FALSE, todo |-> {}, out |-> NoFacts]

Init ==
    /\ prog \in Program
    /\ next = 1
    /\ stack = <<>>
    /\ result = << >>
    /\ CalleeMap = [c \in CallSites |-> {}]
    /\ CallerMap = [f \in Func |-> {}]
    /\ AllocMap = << >>

\* The loop of runOnModule reaches the next function.
StartFunction ==
    /\ ~Running
    /\ next <= Len(prog.fun)
    /\ stack' = <<Activation(prog.fun[next])>>
    /\ result' = Entered(result, prog.fun[next], InitVal)
    /\ next' = next + 1
    /\ UNCHANGED <<prog, CalleeMap, CallerMap, AllocMap>>

\* The value on entry of a block (the mutant forgets what it was before).
MergePredsOnly(b) ==
    [v \in prog.value |-> UNION {result[c].second[v] : c \in Pred(b)}]
MergePreds(b) ==
    [v \in prog.value |->
        result[b].first[v] \cup UNION {result[c].second[v] : c \in Pred(b)}]

\* Pop a block and merge what its predecessors give.
TakeBlock(b) ==
    /\ Running /\ Top.bb = NoBlock
    /\ b \in Top.worklist
    /\ result' = [result EXCEPT ![b].first = MergePreds(b)]
    /\ SetTop([Top EXCEPT !.worklist = @ \ {b}, !.bb = b, !.ii = 1,
                          !.dfval = MergePreds(b)])
    /\ UNCHANGED <<prog, next, CalleeMap, CallerMap, AllocMap>>

\* An instruction that neither allocates nor is a call.
ProcessInst ==
    /\ AtInst
    /\ Inst.op \notin {"alloca", "call", "memcpy"}
    /\ \E S \in Outcomes(Top.dfval, Inst, CallerMap[Top.fn]) :
          SetTop([Top EXCEPT !.dfval = S, !.ii = @ + 1])
    /\ UNCHANGED <<prog, next, result, CalleeMap, CallerMap, AllocMap>>

\* mapAllocSite: the site of v is the constant i32 n for the n-th allocation seen (the
\* mutant does not count them).
SiteUncounted(v) == IF v \in DOMAIN AllocMap THEN AllocMap[v] ELSE prog.constant[1]
SiteOf(v) ==
    IF v \in DOMAIN AllocMap THEN AllocMap[v]
    ELSE prog.constant[Cardinality(DOMAIN AllocMap) + 1]

MapAllocSite(v) ==
    AllocMap' = [x \in DOMAIN AllocMap \cup {v} |-> IF x = v THEN SiteOf(v) ELSE AllocMap[x]]

ProcessAlloca ==
    /\ AtInst
    /\ Inst.op = "alloca"
    /\ MapAllocSite(Inst.dst)
    /\ SetTop([Top EXCEPT !.dfval[Inst.dst] = {SiteOf(Inst.dst)}, !.ii = @ + 1])
    /\ UNCHANGED <<prog, next, result, CalleeMap, CallerMap>>

\* The functions getCallees finds (mutants: everything it visits; for an indirect call,
\* the functions with as many parameters as it has arguments).
LinkedVisited(inst) == SearchedFrom(Top.dfval, Func, Called(inst))
LinkedByArity(inst) ==
    IF Called(inst) \in Func THEN {Called(inst)}
    ELSE {f \in Func : Len(prog.param[f]) = Len(inst.src)}
Linked(inst) == SearchedFrom(Top.dfval, Func, Called(inst)) \cap Func

\* getCallees and linkCallSiteAndCallee, then the loop over the callees begins.
BeginCall ==
    /\ AtInst
    /\ Inst.op = "call"
    /\ CalleeMap' = [CalleeMap EXCEPT ![Inst.dst] = @ \cup Linked(Inst)]
    /\ CallerMap' = [f \in Func |-> IF f \in Linked(Inst) THEN CallerMap[f] \cup {Inst.dst}
                                                          ELSE CallerMap[f]]
    /\ IF CalleeMap'[Inst.dst] = {}
       THEN SetTop([Top EXCEPT !.ii = @ + 1])
       ELSE SetTop([Top EXCEPT !.calling = TRUE, !.todo = CalleeMap'[Inst.dst],
                               !.out = NoFacts])
    /\ UNCHANGED <<prog, next, result, AllocMap>>

\* A memcpy is a call without callees: its loop visits the targets of its
\* destination. (The code takes the targets of the source in the same order each
\* time; here the first one may differ between two targets of the destination.)
BeginMemCpy ==
    /\ AtInst
    /\ Inst.op = "memcpy"
    /\ SetTop([Top EXCEPT !.calling = TRUE, !.out = NoFacts,
                          !.todo = IF Top.dfval[Inst.src[1]] = {} THEN {}
                                   ELSE Top.dfval[Inst.dst]])
    /\ UNCHANGED <<prog, next, result, CalleeMap, CallerMap, AllocMap>>

CopyTo(x) ==
    /\ Running /\ Top.calling
    /\ Inst.op = "memcpy"
    /\ x \in Top.todo
    /\ \E S \in CopyOutcomes(Top.dfval, x, Inst.src[1]) :
          SetTop([Top EXCEPT !.dfval = S, !.todo = @ \ {x}])
    /\ UNCHANGED <<prog, next, result, CalleeMap, CallerMap, AllocMap>>

Calling(f) == Running /\ Top.calling /\ Inst.op = "call" /\ f \in Top.todo

CallMalloc ==
    /\ Calling("malloc")
    /\ MapAllocSite(Inst.dst)
    /\ SetTop([Top EXCEPT !.dfval[Inst.dst] = {SiteOf(Inst.dst)}, !.todo = @ \ {"malloc"}])
    /\ UNCHANGED <<prog, next, result, CalleeMap, CallerMap>>

\* S(p_i) = S(a_i), unless S(a_i) = {}. The code does it argument after argument:
\* the order tells only when f calls itself with its own parameters, and then the
\* recursion has no end.
PassArguments(S, f, args) ==
    LET passed(v) == UNION {S[args[i]] : i \in {j \in DOMAIN args : prog.param[f][j] = v}}
    IN  [v \in DOMAIN S |-> IF passed(v) = {} THEN S[v] ELSE passed(v)]

\* (*result)[entry].first is merged before the solver is started: an entry block
\* seen for the first time starts from an empty value and not from initval.
\* (The mutant passes nothing to an entry block that has a value already.)
MergeOnce(r, e, S) ==
    IF e \in DOMAIN r THEN r
    ELSE [b \in DOMAIN r \cup {e} |->
             IF b = e THEN [first |-> S, second |-> NoFacts] ELSE r[b]]
MergeIntoEntry(r, e, S) ==
    LET old == IF e \in DOMAIN r THEN r[e] ELSE [first |-> NoFacts, second |-> NoFacts]
    IN  [b \in DOMAIN r \cup {e} |->
            IF b = e THEN [old EXCEPT !.first = Merge(@, S)] ELSE r[b]]

EnterCallee(f) ==
    /\ Calling(f)
    /\ f # "malloc"
    /\ Len(stack) < MaxDepth
    /\ LET S == PassArguments(Top.dfval, f, Inst.src)
           caller == [Top EXCEPT !.dfval = S, !.todo = @ \ {f}]
       IN  /\ stack' = Append([stack EXCEPT ![Len(stack)] = caller], Activation(f))
           /\ result' = Entered(MergeIntoEntry(result, prog.entry[f], S), f, InitVal)
    /\ UNCHANGED <<prog, next, CalleeMap, CallerMap, AllocMap>>

\* The solver returns to processCallInst, which merges the value on exit. A
\* function that never returns has no exit block and contributes nothing.
ExitFacts(f) == IF prog.exit[f] = NoBlock THEN NoFacts ELSE result[prog.exit[f]].second

LeaveCallee ==
    /\ Len(stack) > 1
    /\ Top.bb = NoBlock /\ Top.worklist = {}
    /\ stack' = [SubSeq(stack, 1, Len(stack) - 1) EXCEPT
                    ![Len(stack) - 1].out = Merge(@, ExitFacts(Top.fn))]
    /\ UNCHANGED <<prog, next, result, CalleeMap, CallerMap, AllocMap>>

\* All callees are done: the call's value is theirs, if they have any (the mutant
\* does not ask whether they have any).
AfterCallAlways == Top.out
AfterCall == IF Top.out = NoFacts THEN Top.dfval ELSE Top.out

EndCall ==
    /\ Running /\ Top.calling
    /\ Top.todo = {}
    /\ SetTop([Top EXCEPT !.dfval = AfterCall, !.calling = FALSE, !.ii = @ + 1,
                          !.out = NoFacts])
    /\ UNCHANGED <<prog, next, result, CalleeMap, CallerMap, AllocMap>>

\* The blocks an exit value is propagated to (the mutant forgets them).
RequeueNone(b) == {}
Requeue(b) == prog.succ[b]

\* Whether there is anything to propagate (the mutant does not compare).
AlwaysChanged == TRUE
Changed == Top.dfval # result[Top.bb].second

\* The value reached the end of the block: if it changed, the successors are
\* put on the worklist.
FinishBlock ==
    /\ InBlock
    /\ Top.ii > Len(prog.code[Top.bb])
    /\ \/ /\ ~Changed
          /\ SetTop([Top EXCEPT !.bb = NoBlock, !.dfval = NoFacts])
          /\ UNCHANGED result
       \/ /\ Changed
          /\ SetTop([Top EXCEPT !.worklist = @ \cup Requeue(Top.bb),
                                !.bb = NoBlock, !.dfval = NoFacts])
          /\ result' = [result EXCEPT ![Top.bb].second = Top.dfval]
    /\ UNCHANGED <<prog, next, CalleeMap, CallerMap, AllocMap>>

FinishFunction ==
    /\ Len(stack) = 1
    /\ Top.bb = NoBlock /\ Top.worklist = {}
    /\ stack' = <<>>
    /\ UNCHANGED <<prog, next, result, CalleeMap, CallerMap, AllocMap>>

Done == ~Running /\ next > Len(prog.fun)

\* runOnModule has returned.
Finished == Done /\ UNCHANGED vars

Next ==
    \/ StartFunction
    \/ \E b \in Blocks : TakeBlock(b)
    \/ ProcessInst
    \/ ProcessAlloca
    \/ BeginCall
    \/ BeginMemCpy
    \/ \E x \in prog.value : CopyTo(x)
    \/ CallMalloc
    \/ \E f \in Func : EnterCallee(f)
    \/ LeaveCallee
    \/ EndCall
    \/ FinishBlock
    \/ FinishFunction
    \/ Finished

\* One thread runs the pass, and nothing blocks it.
Spec == Init /\ [][Next]_vars /\ WF_vars(Next)
-----------------------------------------------------------------------------
(***************************************************************************)
(* An edge of a control flow graph is stale when its target has not merged *)
(* what its source holds. The only targets of stale edges are the blocks   *)
(* some activation still has on its worklist, in spite of the nested       *)
(* activations that write to the same result map.                          *)
(***************************************************************************)
Waiting == UNION {stack[i].worklist : i \in DOMAIN stack}

\* compForwardDataflowInter, all its activations together: only blocks on a worklist
\* lack what a predecessor holds.
NoStaleEdge ==
    \A b \in DOMAIN result \ Waiting : \A c \in Pred(b) :
        \A v \in prog.value : result[c].second[v] \subseteq result[b].first[v]

\* While a callee is analysed, its entry holds at least what the caller holds at
\* the call, arguments included.
CalleeSeesCaller ==
    \A i \in 1 .. Len(stack) - 1 : \A v \in prog.value :
        stack[i].dfval[v] \subseteq result[prog.entry[stack[i + 1].fn]].first[v]

\* A call replaces the caller's facts by those on exit of the callees: a value that
\* pointed somewhere before the call still points somewhere after it.
KeepsPointers ==
    Running /\ Top.calling /\ Top.todo = {} /\ Len(stack') = Len(stack) =>
        \A v \in prog.value : Top.dfval[v] # {} => Top'.dfval[v] # {}

\* processCallInst never leaves a value that had a points-to set without one.
CallKeepsPointers == [][KeepsPointers]_vars

\* Why it may: every function can get from its entry to its exit, and a call that may be
\* malloc can be no other function. (A callee that never returns contributes nothing, and
\* a site malloc gives is dropped when another callee's exit replaces the facts.)
ReachesExit(p) ==
    \A f \in FuncsOf(p) : p.block[f] # {} =>
        /\ p.exit[f] # NoBlock
        /\ \A X \in SUBSET p.block[f] :
              p.entry[f] \in X /\ (\A b \in X : p.succ[b] \subseteq X) => p.exit[f] \in X

MallocAlone == \A c \in CallSites : "malloc" \in CalleeMap[c] => CalleeMap[c] = {"malloc"}

\* mapAllocSite gives no site to two allocations, in whatever order and however often they
\* are looked at: what is stored in one object is not read from another one.
SitesApart == \A v, w \in DOMAIN AllocMap : AllocMap[v] = AllocMap[w] => v = w

\* The value on entry of a block only grows, across visits, activations and
\* call sites (strong updates let the value on exit shrink).
Grows ==
    \A b \in DOMAIN result : \A v \in prog.value :
        result[b].first[v] \subseteq result'[b].first[v]

\* No step takes a value away from what a block has on entry.
EntriesGrow == [][Grows]_vars

\* The recursion over callees stays out of the functions it is in the midst of: then it is
\* no deeper than there are functions (FuncPtr.cpp:269 has no other bound), and no loop over
\* CalleeMap[CI] sees that set change. Without recursion in the module a call that seems to
\* reach a function in progress is an imprecision: callees keep what other callers passed.
AnalysedOnce == \A i, j \in DOMAIN stack : stack[i].fn = stack[j].fn => i = j

\* f has a call that is linked to g.
LinkedTo(f, g) ==
    \E b \in prog.block[f] : \E i \in DOMAIN prog.code[b] :
        prog.code[b][i].op = "call" /\ g \in CalleeMap[prog.code[b][i].dst]

\* The calls linked so far make no circle of functions (getCallees finds no recursion in a
\* module that has none, though callees keep what other callers passed them).
NoCircle == \A X \in (SUBSET Func) \ {{}} : \E f \in X : \A g \in X : ~LinkedTo(f, g)

\* The callees at each call are those the comment at the end of the test lists.
ExpectedCallees ==
    Done => \A i \in DOMAIN prog.expected : CalleeMap[prog.expected[i][1]] = prog.expected[i][2]

\* On a module without recursion the analysis ends (Dataflow.h: the caller must
\* ensure that "the fixedpoint" terminates).
Termination == <>Done
=============================================================================
