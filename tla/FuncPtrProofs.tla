--------------------------- MODULE FuncPtrProofs ---------------------------
(***************************************************************************)
(* Theorems about the analysis of FuncPtr.tla, for every module, every     *)
(* depth of the recursion and every order of blocks and callees.           *)
(*                                                                         *)
(* The solver's activations share one result map. What makes that safe is  *)
(* that an activation puts all blocks of its function on its worklist, and *)
(* that a value on entry is only merged into.                              *)
(***************************************************************************)
EXTENDS FuncPtr, FiniteSetTheorems, TLAPS

Entry == [first : Facts, second : Facts]

\* An activation works on its own function, whose blocks all have a result, and
\* stands at a call or a memcpy while it handles one.
FrameOK(fr) ==
    /\ prog.block[fr.fn] \subseteq DOMAIN result
    /\ fr.worklist \subseteq prog.block[fr.fn]
    /\ fr.bb \in prog.block[fr.fn] \cup {NoBlock}
    /\ fr.ii >= 1
    /\ fr.calling => /\ fr.bb # NoBlock
                     /\ fr.ii <= Len(prog.code[fr.bb])
                     /\ prog.code[fr.bb][fr.ii].op \in {"call", "memcpy"}

StackOK == \A i \in DOMAIN stack : FrameOK(stack[i])

TInv == TypeOK /\ StackOK

-----------------------------------------------------------------------------
\* What a module is.
LEMMA ModuleShape ==
  ASSUME prog \in Program
  PROVE  /\ IsModule(prog)
         /\ Func \subseteq prog.value
         /\ NoBlock \notin Blocks
         /\ \A f \in Func : prog.block[f] \subseteq Blocks
         /\ \A f \in Func : f # "malloc" => prog.entry[f] \in prog.block[f]
  <1>1. IsModule(prog)
    BY ProgramAssumption
  <1>2. \A i \in DOMAIN prog.fun : prog.fun[i] \in prog.value
    BY <1>1 DEF IsModule
  <1>3. Func \subseteq prog.value
    BY <1>2 DEF Func, FuncsOf
  <1>4. NoBlock \notin Blocks
    BY <1>1 DEF IsModule, Blocks
  <1>5. \A f \in Func : prog.block[f] \subseteq Blocks
    BY DEF Func, Blocks, BlocksOf
  <1>6. ASSUME NEW f \in FuncsOf(prog), f # "malloc"
        PROVE  prog.entry[f] \in prog.block[f]
    <2>1. /\ prog.block[f] # {} => prog.entry[f] \in prog.block[f]
          /\ prog.block[f] = {} => f = "malloc"
      BY <1>1 DEF IsModule
    <2> QED
      BY <1>6, <2>1
  <1> QED
    BY <1>1, <1>3, <1>4, <1>5, <1>6 DEF Func

\* The instruction at a position of a block.
LEMMA InstShape ==
  ASSUME prog \in Program, NEW b \in Blocks, NEW k \in Nat \ {0}, k <= Len(prog.code[b])
  PROVE  /\ prog.code[b][k] \in InstsOf(prog)
         /\ IsInstr(prog, prog.code[b][k])
  <1>1. prog.code[b] \in Seq(InstsOf(prog))
    BY ModuleShape DEF IsModule, Blocks
  <1>2. prog.code[b][k] \in InstsOf(prog)
    BY <1>1
  <1> QED
    BY <1>2, ModuleShape DEF IsModule

-----------------------------------------------------------------------------
(***************************************************************************)
(* The operators of PointsTo.tla take points-to maps to points-to maps.    *)
(***************************************************************************)
LEMMA NoFactsOK == NoFacts \in Facts
  BY DEF NoFacts, Facts

LEMMA InitValOK ==
  ASSUME prog \in Program
  PROVE  InitVal \in Facts
  BY DEF InitVal, Facts

LEMMA MergeOK ==
  ASSUME NEW S \in Facts, NEW T \in Facts
  PROVE  Merge(S, T) \in Facts
  BY DEF Merge, Facts

LEMMA UpdateOK ==
  ASSUME NEW S \in Facts, NEW dst, NEW src \in prog.value, NEW strong \in BOOLEAN
  PROVE  Update(S, dst, src, strong) \in Facts
  BY DEF Update, Facts

LEMMA FirstStrongOK ==
  ASSUME NEW S \in Facts, NEW dst, NEW first \in prog.value, NEW rest \in SUBSET prog.value
  PROVE  UpdateFirstStrong(S, dst, first, rest) \in Facts
  <1> DEFINE T == Update(S, dst, first, TRUE)
  <1>1. T \in Facts
    BY UpdateOK
  <1>2. UNION {T[v] : v \in rest} \subseteq prog.value
    BY <1>1 DEF Facts
  <1>3. UpdateFirstStrong(S, dst, first, rest)
           = [T EXCEPT ![dst] = T[dst] \cup UNION {T[v] : v \in rest}]
    BY DEF UpdateFirstStrong
  <1> HIDE DEF T
  <1> QED
    BY <1>1, <1>2, <1>3 DEF Facts

LEMMA LoadOK ==
  ASSUME NEW S \in Facts, NEW a, NEW b \in prog.value, NEW T \in LoadOutcomes(S, a, b)
  PROVE  T \in Facts
  <1>1. S[b] \subseteq prog.value
    BY DEF Facts
  <1>2. ASSUME NEW v \in S[b]
        PROVE  UpdateFirstStrong(S, a, v, S[b] \ {v}) \in Facts
    BY <1>1, <1>2, FirstStrongOK
  <1> QED
    BY <1>2 DEF LoadOutcomes

LEMMA StoreOK ==
  ASSUME NEW S \in Facts, NEW p \in prog.value, NEW v \in prog.value
  PROVE  StoreOutcome(S, p, v) \in Facts
  <1>1. [x \in DOMAIN S |-> IF x \in S[p] THEN S[x] \cup S[v] ELSE S[x]] \in Facts
    BY DEF Facts
  <1>2. \A x : Update(S, x, v, TRUE) \in Facts
    BY UpdateOK
  <1> QED
    BY <1>1, <1>2 DEF StoreOutcome

LEMMA CopyOK ==
  ASSUME NEW S \in Facts, NEW x, NEW s \in prog.value, NEW T \in CopyOutcomes(S, x, s)
  PROVE  T \in Facts
  <1>1. S[s] \subseteq prog.value
    BY DEF Facts
  <1>2. ASSUME NEW v \in S[s]
        PROVE  UpdateFirstStrong(S, x, v, S[s] \ {v}) \in Facts
    BY <1>1, <1>2, FirstStrongOK
  <1> QED
    BY <1>2 DEF CopyOutcomes

LEMMA ReturnOK ==
  ASSUME NEW S \in Facts, NEW callers, NEW v \in prog.value
  PROVE  ReturnOutcome(S, callers, v) \in Facts
  BY DEF ReturnOutcome, Facts

LEMMA PhiOK ==
  ASSUME NEW S \in Facts, NEW a, NEW vs \in Seq(prog.value), vs # <<>>
  PROVE  PhiOutcome(S, a, vs) \in Facts
  <1>1. vs[1] \in prog.value /\ {vs[i] : i \in 2 .. Len(vs)} \subseteq prog.value
    OBVIOUS
  <1> QED
    BY <1>1, FirstStrongOK DEF PhiOutcome

LEMMA OutcomesOK ==
  ASSUME NEW S \in Facts, NEW inst, IsInstr(prog, inst),
         inst.op \notin {"alloca", "call", "memcpy"},
         NEW callers, NEW T \in Outcomes(S, inst, callers)
  PROVE  T \in Facts
  <1>1. CASE inst.op = "load"
    BY <1>1, LoadOK DEF Outcomes, IsInstr
  <1>2. CASE inst.op = "store"
    <2>1. inst.dst \in prog.value /\ inst.src[1] \in prog.value
      BY <1>2 DEF IsInstr
    <2> QED
      BY <1>2, <2>1, StoreOK DEF Outcomes
  <1>3. CASE inst.op \in {"cast", "gep"}
    <2>1. inst.src[1] \in prog.value
      BY <1>3 DEF IsInstr
    <2>2. Outcomes(S, inst, callers) = {Update(S, inst.dst, inst.src[1], TRUE)}
      BY <1>3 DEF Outcomes
    <2> QED
      BY <2>1, <2>2, UpdateOK
  <1>4. CASE inst.op = "phi"
    BY <1>4, PhiOK DEF Outcomes, IsInstr
  <1>5. CASE inst.op = "ret"
    BY <1>5, ReturnOK DEF Outcomes, IsInstr
  <1> QED
    BY <1>1, <1>2, <1>3, <1>4, <1>5 DEF IsInstr

LEMMA PassOK ==
  ASSUME NEW S \in Facts, NEW f, NEW args \in Seq(prog.value)
  PROVE  PassArguments(S, f, args) \in Facts
  <1> DEFINE passed(v) == UNION {S[args[i]] : i \in {j \in DOMAIN args : prog.param[f][j] = v}}
  <1>1. \A v : passed(v) \subseteq prog.value
    BY DEF Facts
  <1>2. PassArguments(S, f, args) = [v \in prog.value |-> IF passed(v) = {} THEN S[v] ELSE passed(v)]
    BY DEF PassArguments, Facts
  <1> HIDE DEF passed
  <1> QED
    BY <1>1, <1>2 DEF Facts

-----------------------------------------------------------------------------
(***************************************************************************)
(* The result map and the stack.                                           *)
(***************************************************************************)
ResultOK(r) == DOMAIN r \subseteq Blocks /\ r \in [DOMAIN r -> Entry]

LEMMA EnteredOK ==
  ASSUME prog \in Program, NEW r, ResultOK(r), NEW f \in Func
  PROVE  /\ ResultOK(Entered(r, f, InitVal))
         /\ DOMAIN Entered(r, f, InitVal) = DOMAIN r \cup prog.block[f]
         /\ \A b \in DOMAIN r : Entered(r, f, InitVal)[b] = r[b]
  <1>1. prog.block[f] \subseteq Blocks
    BY ModuleShape
  <1>2. [first |-> InitVal, second |-> InitVal] \in Entry
    BY InitValOK DEF Entry
  <1> QED
    BY <1>1, <1>2 DEF ResultOK, Entered

LEMMA MergeIntoEntryOK ==
  ASSUME NEW r, ResultOK(r), NEW e \in Blocks, NEW S \in Facts
  PROVE  /\ ResultOK(MergeIntoEntry(r, e, S))
         /\ DOMAIN MergeIntoEntry(r, e, S) = DOMAIN r \cup {e}
         /\ \A b \in DOMAIN r \ {e} : MergeIntoEntry(r, e, S)[b] = r[b]
         /\ e \in DOMAIN r => MergeIntoEntry(r, e, S)[e].second = r[e].second
         /\ e \in DOMAIN r => \A v \in prog.value :
               r[e].first[v] \subseteq MergeIntoEntry(r, e, S)[e].first[v]
         /\ \A v \in prog.value : S[v] \subseteq MergeIntoEntry(r, e, S)[e].first[v]
  <1> DEFINE old == IF e \in DOMAIN r THEN r[e] ELSE [first |-> NoFacts, second |-> NoFacts]
             new == [old EXCEPT !.first = Merge(old.first, S)]
  <1>1. old \in Entry
    BY NoFactsOK DEF ResultOK, Entry
  <1>2. Merge(old.first, S) \in Facts
    BY <1>1, MergeOK DEF Entry
  <1>3. new \in Entry /\ new.second = old.second /\ new.first = Merge(old.first, S)
    BY <1>1, <1>2 DEF Entry
  <1>4. MergeIntoEntry(r, e, S)
           = [b \in DOMAIN r \cup {e} |-> IF b = e THEN new ELSE r[b]]
    BY DEF MergeIntoEntry
  <1>5. \A v \in prog.value :
           old.first[v] \subseteq new.first[v] /\ S[v] \subseteq new.first[v]
    BY <1>1, <1>3 DEF Merge, Entry, Facts
  <1>6. e \in DOMAIN r => old = r[e]
    OBVIOUS
  <1> HIDE DEF old, new
  <1> QED
    BY <1>3, <1>4, <1>5, <1>6 DEF ResultOK

\* What depends on the module alone is the same after a step.
LEMMA FrozenSets ==
  ASSUME prog' = prog
  PROVE  /\ Func' = Func /\ Blocks' = Blocks /\ CallSites' = CallSites
         /\ Facts' = Facts /\ NoFacts' = NoFacts /\ InitVal' = InitVal
         /\ Frame' = Frame /\ Entry' = Entry
  BY DEF Func, Blocks, CallSites, Facts, NoFacts, InitVal, Frame, Entry

LEMMA Frozen ==
  ASSUME [Next]_vars
  PROVE  prog' = prog
  BY DEF Next, vars, StartFunction, TakeBlock, ProcessInst, ProcessAlloca, BeginCall, BeginMemCpy,
         CopyTo, CallMalloc, EnterCallee, LeaveCallee, EndCall, FinishBlock, FinishFunction, Finished

LEMMA FrameKept ==
  ASSUME NEW fr, FrameOK(fr), prog' = prog, DOMAIN result \subseteq DOMAIN result'
  PROVE  FrameOK(fr)'
  BY DEF FrameOK

LEMMA TopOK ==
  ASSUME TInv, Running
  PROVE  /\ Len(stack) \in Nat \ {0}
         /\ Top \in Frame
         /\ FrameOK(Top)
  BY DEF TInv, TypeOK, StackOK, Running, Top

\* An activation that has gone on to another instruction is an activation.
LEMMA Advance ==
  ASSUME NEW fr \in Frame, NEW S \in Facts
  PROVE  /\ fr.ii + 1 \in Nat
         /\ [fr EXCEPT !.dfval = S, !.ii = fr.ii + 1] \in Frame
  <1>1. fr.ii + 1 \in Nat
    BY DEF Frame
  <1>2. \A n \in Nat : [fr EXCEPT !.dfval = S, !.ii = n] \in Frame
    BY DEF Frame
  <1> QED
    BY <1>1, <1>2

\* Replacing the running activation by a proper one.
LEMMA SetTopOK ==
  ASSUME TInv, Running, NEW fr \in Frame, FrameOK(fr), SetTop(fr), prog' = prog,
         DOMAIN result \subseteq DOMAIN result'
  PROVE  stack' \in Seq(Frame') /\ StackOK'
  <1>1. stack \in Seq(Frame) /\ Len(stack) \in Nat \ {0}
    BY TopOK DEF TInv, TypeOK
  <1>2. stack' \in Seq(Frame) /\ Len(stack') = Len(stack)
    BY <1>1 DEF SetTop
  <1>3. \A i \in DOMAIN stack' : stack'[i] = stack[i] \/ stack'[i] = fr
    BY <1>1 DEF SetTop
  <1>4. DOMAIN stack' = DOMAIN stack
    BY <1>1, <1>2
  <1>5. \A i \in DOMAIN stack' : FrameOK(stack'[i])
    BY <1>3, <1>4 DEF TInv, StackOK
  <1>6. \A i \in DOMAIN stack' : FrameOK(stack[i])'
    BY <1>5, FrameKept DEF FrameOK
  <1> QED
    BY <1>2, <1>6, FrozenSets DEF StackOK

-----------------------------------------------------------------------------
(***************************************************************************)
(* The state keeps its shape: one lemma per action.                        *)
(***************************************************************************)
LEMMA AllocOK ==
  ASSUME TInv, NEW v \in Allocations(prog), MapAllocSite(v)
  PROVE  /\ SiteOf(v) \in prog.value
         /\ DOMAIN AllocMap' \subseteq Allocations(prog)
         /\ AllocMap' \in [DOMAIN AllocMap' -> prog.value]
  <1>1. /\ IsFiniteSet(Allocations(prog))
        /\ Cardinality(Allocations(prog)) <= Len(prog.constant)
        /\ prog.constant \in Seq(prog.value)
    BY ModuleShape DEF IsModule, TInv, TypeOK
  <1>2. DOMAIN AllocMap \subseteq Allocations(prog) /\ AllocMap \in [DOMAIN AllocMap -> prog.value]
    BY DEF TInv, TypeOK
  <1>3. SiteOf(v) \in prog.value
    <2>1. CASE v \in DOMAIN AllocMap
      BY <1>2, <2>1 DEF SiteOf
    <2>2. CASE v \notin DOMAIN AllocMap
      <3> DEFINE D == DOMAIN AllocMap
      <3>1. IsFiniteSet(D) /\ Cardinality(D) \in Nat
        BY <1>1, <1>2, FS_Subset, FS_CardinalityType
      <3>2. Cardinality(D \cup {v}) = Cardinality(D) + 1
        BY <2>2, <3>1, FS_AddElement
      <3>3. Cardinality(D \cup {v}) <= Cardinality(Allocations(prog))
        BY <1>1, <1>2, FS_Subset
      <3>4. Cardinality(Allocations(prog)) \in Nat
        BY <1>1, FS_CardinalityType
      <3>5. Cardinality(D) + 1 \in 1 .. Len(prog.constant)
        BY <1>1, <3>1, <3>2, <3>3, <3>4
      <3> QED
        BY <1>1, <2>2, <3>5 DEF SiteOf
    <2> QED
      BY <2>1, <2>2
  <1> QED
    BY <1>2, <1>3 DEF MapAllocSite

\* The instruction in hand, and the block it is in.
LEMMA InstOK ==
  ASSUME TInv, AtInst
  PROVE  /\ IsInstr(prog, Inst)
         /\ Inst \in InstsOf(prog)
         /\ Inst.op = "call" => Inst.dst \in CallSites
         /\ Inst.op \in {"alloca", "call"} => Inst.dst \in Allocations(prog)
  <1>1. Top \in Frame /\ FrameOK(Top) /\ Top.bb \in Blocks
    BY TopOK DEF AtInst, InBlock, Frame
  <1>2. Top.ii \in Nat \ {0}
    BY <1>1 DEF Frame, FrameOK
  <1> QED
    BY <1>1, <1>2, InstShape DEF TInv, TypeOK, AtInst, Inst, CallSites, Allocations

LEMMA CallingOK ==
  ASSUME TInv, Running, Top.calling
  PROVE  /\ IsInstr(prog, Inst)
         /\ Inst \in InstsOf(prog)
         /\ Inst.op \in {"call", "memcpy"}
         /\ Inst.op = "call" => Inst.dst \in CallSites
         /\ Inst.op \in {"alloca", "call"} => Inst.dst \in Allocations(prog)
  <1>1. Top \in Frame /\ FrameOK(Top)
    BY TopOK
  <1>2. /\ Top.ii \in Nat \ {0} /\ Top.bb \in Blocks
        /\ Top.ii <= Len(prog.code[Top.bb])
        /\ Inst.op \in {"call", "memcpy"}
    BY <1>1 DEF Frame, FrameOK, Inst
  <1> QED
    BY <1>2, InstShape DEF TInv, TypeOK, Inst, CallSites, Allocations

\* What stays of the invariant when only the running activation changes.
LEMMA OnlyTop ==
  ASSUME TInv, Running, NEW fr \in Frame, FrameOK(fr), SetTop(fr),
         UNCHANGED <<prog, next, result, CalleeMap, CallerMap, AllocMap>>
  PROVE  TInv'
  <1>1. stack' \in Seq(Frame') /\ StackOK'
    BY SetTopOK
  <1> QED
    BY <1>1, FrozenSets DEF TInv, TypeOK

LEMMA KeepProcessInst ==
  ASSUME TInv, ProcessInst
  PROVE  TInv'
  <1>1. PICK S \in Outcomes(Top.dfval, Inst, CallerMap[Top.fn]) :
           SetTop([Top EXCEPT !.dfval = S, !.ii = @ + 1])
    BY DEF ProcessInst
  <1>2. Top \in Frame /\ FrameOK(Top) /\ Running /\ ~Top.calling
    BY TopOK DEF ProcessInst, AtInst, InBlock
  <1>3. S \in Facts
    BY <1>2, InstOK, OutcomesOK DEF ProcessInst, Frame
  <1> DEFINE fr == [Top EXCEPT !.dfval = S, !.ii = @ + 1]
  <1>4. fr \in Frame
    BY <1>2, <1>3, Advance
  <1>5. /\ fr.fn = Top.fn /\ fr.worklist = Top.worklist /\ fr.bb = Top.bb
        /\ fr.ii = Top.ii + 1 /\ fr.calling = Top.calling /\ Top.ii \in Nat
    BY <1>2 DEF Frame
  <1>6. FrameOK(fr)
    BY <1>2, <1>5 DEF FrameOK
  <1> QED
    BY <1>1, <1>2, <1>4, <1>6, OnlyTop DEF ProcessInst

\* Blocks of other functions are neither predecessors nor successors.
LEMMA FlowInFunction ==
  ASSUME prog \in Program, NEW f \in Func, NEW b \in prog.block[f]
  PROVE  Pred(b) \subseteq prog.block[f] /\ prog.succ[b] \subseteq prog.block[f]
  <1> IsModule(prog)
    BY ModuleShape
  <1>1. ASSUME NEW g \in Func, NEW c \in prog.block[g]
        PROVE  prog.succ[c] \subseteq prog.block[g]
    <2>1. g \in FuncsOf(prog)
      BY DEF Func
    <2>2. \A x \in prog.block[g] : prog.succ[x] \subseteq prog.block[g]
      BY <2>1 DEF IsModule
    <2> QED
      BY <2>2
  <1>2. \A g \in Func : g # f => prog.block[f] \cap prog.block[g] = {}
    BY Zenon DEF IsModule, Func
  <1>3. ASSUME NEW c \in Blocks, b \in prog.succ[c] PROVE c \in prog.block[f]
    <2>1. PICK g \in Func : c \in prog.block[g]
      BY DEF Blocks, BlocksOf, Func
    <2> QED
      BY <1>1, <1>2, <1>3, <2>1
  <1> QED
    BY <1>1, <1>3 DEF Pred

LEMMA ActivationOK ==
  ASSUME prog \in Program, NEW f \in Func
  PROVE  /\ Activation(f) \in Frame
         /\ prog' = prog /\ prog.block[f] \subseteq DOMAIN result' => FrameOK(Activation(f))'
  <1>1. prog.block[f] \subseteq Blocks
    BY ModuleShape
  <1>2. Activation(f) \in Frame
    BY <1>1, NoFactsOK DEF Activation, Frame
  <1> QED
    BY <1>2 DEF Activation, FrameOK

LEMMA KeepStartFunction ==
  ASSUME TInv, StartFunction
  PROVE  TInv'
  <1>1. prog \in Program /\ prog' = prog /\ prog.fun[next] \in Func /\ prog.fun \in Seq(prog.value)
    BY ModuleShape DEF TInv, TypeOK, StartFunction, Func, FuncsOf, IsModule
  <1>2. PICK f \in Func : f = prog.fun[next]
    BY <1>1
  <1>3. /\ stack' = <<Activation(f)>>
        /\ result' = Entered(result, f, InitVal)
    BY <1>2 DEF StartFunction
  <1>4. ResultOK(result)
    BY DEF TInv, TypeOK, ResultOK, Entry
  <1>5. ResultOK(result') /\ prog.block[f] \subseteq DOMAIN result'
    <2>1. /\ ResultOK(Entered(result, f, InitVal))
          /\ DOMAIN Entered(result, f, InitVal) = DOMAIN result \cup prog.block[f]
      BY <1>1, <1>4, EnteredOK
    <2> QED
      BY <1>3, <2>1
  <1>6. Activation(f) \in Frame /\ FrameOK(Activation(f))'
    BY <1>1, <1>5, ActivationOK
  <1>7. Activation(f)' = Activation(f)
    BY <1>1, FrozenSets DEF Activation
  <1>8. stack' \in Seq(Frame) /\ DOMAIN stack' = {1} /\ stack'[1] = Activation(f)
    BY <1>3, <1>6
  <1>9. StackOK'
    BY <1>6, <1>7, <1>8 DEF StackOK, FrameOK
  <1>10. next' \in 1 .. Len(prog.fun) + 1
    BY <1>1 DEF TInv, TypeOK, StartFunction
  <1> QED
    BY <1>1, <1>5, <1>8, <1>9, <1>10, FrozenSets DEF TInv, TypeOK, ResultOK, Entry, StartFunction

\* The value on entry of a block that has a result is a points-to map.
LEMMA MergePredsOK ==
  ASSUME TInv, NEW f \in Func, NEW b \in prog.block[f], prog.block[f] \subseteq DOMAIN result
  PROVE  MergePreds(b) \in Facts
  <1>1. Pred(b) \subseteq DOMAIN result /\ b \in DOMAIN result
    BY FlowInFunction DEF TInv, TypeOK
  <1>2. \A c \in DOMAIN result : result[c].first \in Facts /\ result[c].second \in Facts
    BY DEF TInv, TypeOK
  <1>3. \A v \in prog.value :
           result[b].first[v] \cup UNION {result[c].second[v] : c \in Pred(b)} \subseteq prog.value
    BY <1>1, <1>2 DEF Facts
  <1> QED
    BY <1>3 DEF MergePreds, Facts

LEMMA KeepTakeBlock ==
  ASSUME TInv, NEW b \in Blocks, TakeBlock(b)
  PROVE  TInv'
  <1>1. /\ Running /\ Top \in Frame /\ FrameOK(Top)
        /\ b \in Top.worklist /\ prog' = prog
    BY TopOK DEF TakeBlock
  <1>2. Top.fn \in Func /\ b \in prog.block[Top.fn] /\ b \in DOMAIN result
    BY <1>1 DEF Frame, FrameOK
  <1>3. MergePreds(b) \in Facts
    BY <1>1, <1>2, MergePredsOK DEF FrameOK
  <1> DEFINE M == MergePreds(b)
             fr == [Top EXCEPT !.worklist = @ \ {b}, !.bb = b, !.ii = 1, !.dfval = M]
  <1>4. \A S \in Facts : [Top EXCEPT !.worklist = @ \ {b}, !.bb = b, !.ii = 1, !.dfval = S] \in Frame
    BY <1>1 DEF Frame
  <1>5. fr \in Frame
    BY <1>3, <1>4
  <1>6. /\ fr.fn = Top.fn /\ fr.worklist = Top.worklist \ {b} /\ fr.bb = b
        /\ fr.ii = 1 /\ fr.calling = Top.calling
    BY <1>1 DEF Frame
  <1>7. result' = [result EXCEPT ![b].first = M] /\ SetTop(fr)
    BY DEF TakeBlock
  <1>8. result \in [DOMAIN result -> Entry]
    BY DEF TInv, TypeOK, Entry
  <1> HIDE DEF M, fr
  <1>9. result' \in [DOMAIN result -> Entry] /\ DOMAIN result' = DOMAIN result
    BY <1>3, <1>7, <1>8 DEF Entry, M
  <1>10. FrameOK(fr)
    BY <1>1, <1>2, <1>6 DEF FrameOK, TakeBlock, SetTop
  <1>11. stack' \in Seq(Frame') /\ StackOK'
    BY <1>1, <1>5, <1>7, <1>9, <1>10, SetTopOK
  <1> QED
    BY <1>1, <1>9, <1>11, FrozenSets DEF TInv, TypeOK, TakeBlock, Entry

\* Writing one set into a points-to map.
LEMMA PutOK ==
  ASSUME NEW S \in Facts, NEW x, NEW s \in SUBSET prog.value
  PROVE  [S EXCEPT ![x] = s] \in Facts
  BY DEF Facts

LEMMA KeepProcessAlloca ==
  ASSUME TInv, ProcessAlloca
  PROVE  TInv'
  <1>1. Top \in Frame /\ FrameOK(Top) /\ Running /\ ~Top.calling /\ AtInst
    BY TopOK DEF ProcessAlloca, AtInst, InBlock
  <1>2. Inst.dst \in Allocations(prog) /\ MapAllocSite(Inst.dst)
    BY <1>1, InstOK DEF ProcessAlloca
  <1>3. PICK v \in Allocations(prog) : v = Inst.dst
    BY <1>2
  <1>4. /\ SiteOf(v) \in prog.value
        /\ DOMAIN AllocMap' \subseteq Allocations(prog)
        /\ AllocMap' \in [DOMAIN AllocMap' -> prog.value]
    BY <1>2, <1>3, AllocOK
  <1> DEFINE S == [Top.dfval EXCEPT ![Inst.dst] = {SiteOf(Inst.dst)}]
             fr == [Top EXCEPT !.dfval = S, !.ii = Top.ii + 1]
  <1>5. Top.dfval \in Facts /\ {SiteOf(Inst.dst)} \in SUBSET prog.value
    BY <1>1, <1>3, <1>4 DEF Frame
  <1>6. S \in Facts
    BY <1>5, PutOK
  <1>7. SetTop([Top EXCEPT !.dfval[Inst.dst] = {SiteOf(Inst.dst)}, !.ii = @ + 1])
    BY DEF ProcessAlloca
  <1>8. SetTop(fr)
    BY <1>7
  <1> HIDE DEF S
  <1>9. fr \in Frame
    BY <1>1, <1>6, Advance
  <1>10. /\ fr.fn = Top.fn /\ fr.worklist = Top.worklist /\ fr.bb = Top.bb
         /\ fr.ii = Top.ii + 1 /\ fr.calling = Top.calling /\ Top.ii \in Nat
    BY <1>1 DEF Frame
  <1>11. FrameOK(fr)
    BY <1>1, <1>10 DEF FrameOK
  <1>12. stack' \in Seq(Frame') /\ StackOK' /\ prog' = prog
    BY <1>1, <1>8, <1>9, <1>11, SetTopOK DEF ProcessAlloca
  <1> QED
    BY <1>4, <1>12, FrozenSets DEF TInv, TypeOK, ProcessAlloca

\* An activation that begins to handle a call or a memcpy is an activation.
LEMMA BeginOK ==
  ASSUME NEW fr \in Frame, NEW todo \in SUBSET prog.value
  PROVE  [fr EXCEPT !.calling = TRUE, !.todo = todo, !.out = NoFacts] \in Frame
  BY NoFactsOK DEF Frame

LEMMA KeepBeginCall ==
  ASSUME TInv, BeginCall
  PROVE  TInv'
  <1>1. Top \in Frame /\ FrameOK(Top) /\ Running /\ ~Top.calling /\ AtInst
    BY TopOK DEF BeginCall, AtInst, InBlock
  <1>2. Inst.dst \in CallSites /\ Inst.op = "call" /\ prog' = prog
    BY <1>1, InstOK DEF BeginCall
  <1>3. Linked(Inst) \subseteq Func
    BY DEF Linked
  <1>4. CalleeMap' \in [CallSites -> SUBSET Func] /\ CallerMap' \in [Func -> SUBSET CallSites]
    BY <1>2, <1>3 DEF TInv, TypeOK, BeginCall
  <1>5. CalleeMap'[Inst.dst] \subseteq prog.value
    BY <1>2, <1>4, ModuleShape DEF TInv, TypeOK
  <1> DEFINE past == [Top EXCEPT !.ii = Top.ii + 1]
             begun == [Top EXCEPT !.calling = TRUE, !.todo = CalleeMap'[Inst.dst], !.out = NoFacts]
  <1>6. SetTop(past) \/ SetTop(begun)
    BY DEF BeginCall
  <1>7. past \in Frame /\ FrameOK(past)
    <2>1. Top.ii + 1 \in Nat /\ \A n \in Nat : [Top EXCEPT !.ii = n] \in Frame
      BY <1>1 DEF Frame
    <2>2. past \in Frame
      BY <2>1
    <2>3. /\ past.fn = Top.fn /\ past.worklist = Top.worklist /\ past.bb = Top.bb
          /\ past.ii = Top.ii + 1 /\ past.calling = Top.calling /\ Top.ii \in Nat
      BY <1>1 DEF Frame
    <2> QED
      BY <1>1, <2>2, <2>3 DEF FrameOK
  <1>8. begun \in Frame /\ FrameOK(begun)
    <2>1. begun \in Frame
      BY <1>1, <1>5, BeginOK
    <2>2. /\ begun.fn = Top.fn /\ begun.worklist = Top.worklist /\ begun.bb = Top.bb
          /\ begun.ii = Top.ii
      BY <1>1 DEF Frame
    <2>3. Top.bb # NoBlock /\ Top.ii <= Len(prog.code[Top.bb]) /\ prog.code[Top.bb][Top.ii].op = "call"
      BY <1>1, <1>2 DEF AtInst, InBlock, Inst
    <2> QED
      BY <1>1, <2>1, <2>2, <2>3 DEF FrameOK
  <1> HIDE DEF past, begun
  <1>9. stack' \in Seq(Frame') /\ StackOK'
    BY <1>1, <1>2, <1>6, <1>7, <1>8, SetTopOK DEF BeginCall
  <1> QED
    BY <1>2, <1>4, <1>9, FrozenSets DEF TInv, TypeOK, BeginCall

LEMMA KeepBeginMemCpy ==
  ASSUME TInv, BeginMemCpy
  PROVE  TInv'
  <1>1. Top \in Frame /\ FrameOK(Top) /\ Running /\ ~Top.calling /\ AtInst
    BY TopOK DEF BeginMemCpy, AtInst, InBlock
  <1> DEFINE todo == IF Top.dfval[Inst.src[1]] = {} THEN {} ELSE Top.dfval[Inst.dst]
             fr == [Top EXCEPT !.calling = TRUE, !.todo = todo, !.out = NoFacts]
  <1>2. todo \subseteq prog.value
    <2>1. Inst.dst \in prog.value
      BY <1>1, InstOK DEF BeginMemCpy, IsInstr
    <2> QED
      BY <1>1, <2>1 DEF Frame, Facts
  <1>3. SetTop(fr)
    BY <1>1 DEF BeginMemCpy, Frame
  <1>4. fr \in Frame
    BY <1>1, <1>2, BeginOK
  <1> HIDE DEF todo
  <1>5. fr.fn = Top.fn /\ fr.worklist = Top.worklist /\ fr.bb = Top.bb /\ fr.ii = Top.ii
    BY <1>1 DEF Frame
  <1>6. Top.bb # NoBlock /\ Top.ii <= Len(prog.code[Top.bb]) /\ prog.code[Top.bb][Top.ii].op = "memcpy"
    BY <1>1 DEF BeginMemCpy, AtInst, InBlock, Inst
  <1>7. FrameOK(fr)
    BY <1>1, <1>5, <1>6 DEF FrameOK
  <1> QED
    BY <1>1, <1>3, <1>4, <1>7, OnlyTop DEF BeginMemCpy

LEMMA KeepCopyTo ==
  ASSUME TInv, NEW x \in prog.value, CopyTo(x)
  PROVE  TInv'
  <1>1. PICK S \in CopyOutcomes(Top.dfval, x, Inst.src[1]) :
           SetTop([Top EXCEPT !.dfval = S, !.todo = @ \ {x}])
    BY DEF CopyTo
  <1>2. Top \in Frame /\ FrameOK(Top) /\ Running /\ Top.calling
    BY TopOK DEF CopyTo
  <1>3. Inst.src[1] \in prog.value
    BY <1>2, CallingOK DEF CopyTo, IsInstr
  <1>4. S \in Facts
    BY <1>1, <1>2, <1>3, CopyOK DEF Frame
  <1> DEFINE fr == [Top EXCEPT !.dfval = S, !.todo = @ \ {x}]
  <1>5. fr \in Frame
    BY <1>2, <1>4 DEF Frame
  <1>6. /\ fr.fn = Top.fn /\ fr.worklist = Top.worklist /\ fr.bb = Top.bb
        /\ fr.ii = Top.ii /\ fr.calling = Top.calling
    BY <1>2 DEF Frame
  <1>7. FrameOK(fr)
    BY <1>2, <1>6 DEF FrameOK
  <1> QED
    BY <1>1, <1>2, <1>5, <1>7, OnlyTop DEF CopyTo

LEMMA KeepCallMalloc ==
  ASSUME TInv, CallMalloc
  PROVE  TInv'
  <1>1. Top \in Frame /\ FrameOK(Top) /\ Running /\ Top.calling
    BY TopOK DEF CallMalloc, Calling
  <1>2. Inst.dst \in Allocations(prog) /\ MapAllocSite(Inst.dst)
    BY <1>1, CallingOK DEF CallMalloc, Calling
  <1>3. PICK v \in Allocations(prog) : v = Inst.dst
    BY <1>2
  <1>4. /\ SiteOf(v) \in prog.value
        /\ DOMAIN AllocMap' \subseteq Allocations(prog)
        /\ AllocMap' \in [DOMAIN AllocMap' -> prog.value]
    BY <1>2, <1>3, AllocOK
  <1> DEFINE S == [Top.dfval EXCEPT ![Inst.dst] = {SiteOf(Inst.dst)}]
             fr == [Top EXCEPT !.dfval = S, !.todo = Top.todo \ {"malloc"}]
  <1>5. Top.dfval \in Facts /\ {SiteOf(Inst.dst)} \in SUBSET prog.value
    BY <1>1, <1>3, <1>4 DEF Frame
  <1>6. S \in Facts
    BY <1>5, PutOK
  <1>7. SetTop(fr)
    BY DEF CallMalloc
  <1> HIDE DEF S
  <1>8. fr \in Frame
    BY <1>1, <1>6 DEF Frame
  <1>9. /\ fr.fn = Top.fn /\ fr.worklist = Top.worklist /\ fr.bb = Top.bb
        /\ fr.ii = Top.ii /\ fr.calling = Top.calling
    BY <1>1 DEF Frame
  <1>10. FrameOK(fr)
    BY <1>1, <1>9 DEF FrameOK
  <1>11. stack' \in Seq(Frame') /\ StackOK' /\ prog' = prog
    BY <1>1, <1>7, <1>8, <1>10, SetTopOK DEF CallMalloc
  <1> QED
    BY <1>4, <1>11, FrozenSets DEF TInv, TypeOK, CallMalloc

\* The value a callee gives back is a points-to map.
LEMMA ExitFactsOK ==
  ASSUME TInv, NEW f \in Func, prog.block[f] \subseteq DOMAIN result
  PROVE  ExitFacts(f) \in Facts
  <1>1. prog.exit[f] \in prog.block[f] \cup {NoBlock}
    <2>1. IsModule(prog) /\ f \in FuncsOf(prog)
      BY ModuleShape DEF TInv, TypeOK, Func
    <2> QED
      BY <2>1 DEF IsModule
  <1>2. \A c \in DOMAIN result : result[c].second \in Facts
    BY DEF TInv, TypeOK
  <1> QED
    BY <1>1, <1>2, NoFactsOK DEF ExitFacts

LEMMA KeepLeaveCallee ==
  ASSUME TInv, LeaveCallee
  PROVE  TInv'
  <1>1. stack \in Seq(Frame) /\ Len(stack) \in Nat /\ Len(stack) > 1 /\ prog' = prog
    BY DEF TInv, TypeOK, LeaveCallee
  <1>2. Top \in Frame /\ FrameOK(Top)
    BY <1>1, TopOK DEF Running
  <1>3. ExitFacts(Top.fn) \in Facts
    BY <1>2, ExitFactsOK DEF Frame, FrameOK
  <1> DEFINE n == Len(stack) - 1
             low == SubSeq(stack, 1, n)
             fr == [stack[n] EXCEPT !.out = Merge(stack[n].out, ExitFacts(Top.fn))]
  <1>4. n \in Nat \ {0} /\ low \in Seq(Frame) /\ Len(low) = n /\ \A i \in 1 .. n : low[i] = stack[i]
    <2>0. \A m \in Nat : m > 1 => m - 1 \in Nat \ {0} /\ m - 1 <= m
      OBVIOUS
    <2>1. n \in Nat \ {0} /\ n <= Len(stack)
      BY <1>1, <2>0
    <2>2. \A s \in Seq(Frame) : \A m \in 1 .. Len(s) :
             /\ SubSeq(s, 1, m) \in Seq(Frame) /\ Len(SubSeq(s, 1, m)) = m
             /\ \A i \in 1 .. m : SubSeq(s, 1, m)[i] = s[i]
      OBVIOUS
    <2>3. n \in 1 .. Len(stack)
      BY <1>1, <2>1
    <2> HIDE DEF n
    <2> QED
      BY <1>1, <2>1, <2>2, <2>3
  <1>5. stack' = [low EXCEPT ![n] = fr]
    <2>1. stack' = [low EXCEPT ![n].out = Merge(low[n].out, ExitFacts(Top.fn))]
      BY DEF LeaveCallee
    <2>2. low[n] = stack[n]
      BY <1>4
    <2> HIDE DEF low, n
    <2> QED
      BY <2>1, <2>2
  <1>6. stack[n] \in Frame /\ FrameOK(stack[n])
    BY <1>1, <1>4 DEF TInv, StackOK
  <1>7. fr \in Frame
    <2>1. Merge(stack[n].out, ExitFacts(Top.fn)) \in Facts
      BY <1>3, <1>6, MergeOK DEF Frame
    <2>2. \A S \in Facts : [stack[n] EXCEPT !.out = S] \in Frame
      BY <1>6 DEF Frame
    <2> QED
      BY <2>1, <2>2
  <1>8. /\ fr.fn = stack[n].fn /\ fr.worklist = stack[n].worklist /\ fr.bb = stack[n].bb
        /\ fr.ii = stack[n].ii /\ fr.calling = stack[n].calling
    BY <1>6 DEF Frame
  <1>9. FrameOK(fr)
    BY <1>6, <1>8 DEF FrameOK
  <1> HIDE DEF n, low, fr
  <1>10. stack' \in Seq(Frame) /\ DOMAIN stack' = 1 .. n
    BY <1>4, <1>5, <1>7
  <1>11. \A i \in 1 .. n : stack'[i] = stack[i] \/ stack'[i] = fr
    BY <1>4, <1>5
  <1>12. \A i \in 1 .. n : FrameOK(stack[i])
    BY <1>1 DEF TInv, StackOK, n
  <1>13. \A i \in 1 .. n : FrameOK(stack'[i])
    BY <1>9, <1>11, <1>12
  <1>14. StackOK'
    BY <1>1, <1>10, <1>13 DEF StackOK, FrameOK, LeaveCallee
  <1> QED
    BY <1>1, <1>10, <1>14, FrozenSets DEF TInv, TypeOK, LeaveCallee

LEMMA KeepEndCall ==
  ASSUME TInv, EndCall
  PROVE  TInv'
  <1>1. Top \in Frame /\ FrameOK(Top) /\ Running
    BY TopOK DEF EndCall
  <1>2. AfterCall \in Facts
    BY <1>1 DEF AfterCall, Frame
  <1> DEFINE fr == [Top EXCEPT !.dfval = AfterCall, !.calling = FALSE, !.ii = Top.ii + 1,
                               !.out = NoFacts]
  <1>3. fr \in Frame
    <2>1. \A S \in Facts : \A k \in Nat :
             [Top EXCEPT !.dfval = S, !.calling = FALSE, !.ii = k, !.out = NoFacts] \in Frame
      BY <1>1, NoFactsOK DEF Frame
    <2>2. Top.ii + 1 \in Nat
      BY <1>1 DEF Frame
    <2> QED
      BY <1>2, <2>1, <2>2
  <1>4. SetTop(fr)
    BY DEF EndCall
  <1>5. /\ fr.fn = Top.fn /\ fr.worklist = Top.worklist /\ fr.bb = Top.bb
        /\ fr.ii = Top.ii + 1 /\ fr.calling = FALSE /\ Top.ii \in Nat
    BY <1>1 DEF Frame
  <1> HIDE DEF fr
  <1>6. FrameOK(fr)
    BY <1>1, <1>5 DEF FrameOK
  <1> QED
    BY <1>1, <1>3, <1>4, <1>6, OnlyTop DEF EndCall

LEMMA KeepFinishBlock ==
  ASSUME TInv, FinishBlock
  PROVE  TInv'
  <1>1. Top \in Frame /\ FrameOK(Top) /\ Running /\ Top.bb # NoBlock /\ ~Top.calling /\ prog' = prog
    BY TopOK DEF FinishBlock, InBlock
  <1>2. Top.fn \in Func /\ Top.bb \in prog.block[Top.fn] /\ Top.bb \in DOMAIN result
    BY <1>1 DEF Frame, FrameOK
  <1>3. prog.succ[Top.bb] \subseteq prog.block[Top.fn] /\ prog.block[Top.fn] \subseteq Blocks
    BY <1>2, FlowInFunction, ModuleShape DEF TInv, TypeOK
  <1> DEFINE quiet == [Top EXCEPT !.bb = NoBlock, !.dfval = NoFacts]
             more == [Top EXCEPT !.worklist = Top.worklist \cup prog.succ[Top.bb],
                                 !.bb = NoBlock, !.dfval = NoFacts]
  <1>4. quiet \in Frame /\ FrameOK(quiet)
    <2>1. quiet \in Frame
      BY <1>1, NoFactsOK DEF Frame
    <2>2. /\ quiet.fn = Top.fn /\ quiet.worklist = Top.worklist /\ quiet.bb = NoBlock
          /\ quiet.ii = Top.ii /\ quiet.calling = Top.calling
      BY <1>1 DEF Frame
    <2> QED
      BY <1>1, <2>1, <2>2 DEF FrameOK
  <1>5. more \in Frame /\ FrameOK(more)
    <2>1. more \in Frame
      BY <1>1, <1>3, NoFactsOK DEF Frame
    <2>2. /\ more.fn = Top.fn /\ more.worklist = Top.worklist \cup prog.succ[Top.bb]
          /\ more.bb = NoBlock /\ more.ii = Top.ii /\ more.calling = Top.calling
      BY <1>1 DEF Frame
    <2> QED
      BY <1>1, <1>3, <2>1, <2>2 DEF FrameOK
  <1>6. result \in [DOMAIN result -> Entry]
    BY DEF TInv, TypeOK, Entry
  <1>7. /\ SetTop(quiet) \/ SetTop(more)
        /\ result' = result \/ result' = [result EXCEPT ![Top.bb].second = Top.dfval]
    BY DEF FinishBlock, Requeue
  <1>8. result' \in [DOMAIN result -> Entry] /\ DOMAIN result' = DOMAIN result
    <2>1. [result EXCEPT ![Top.bb].second = Top.dfval] \in [DOMAIN result -> Entry]
      BY <1>1, <1>6 DEF Entry, Frame
    <2> QED
      BY <1>6, <1>7, <2>1
  <1> HIDE DEF quiet, more
  <1>9. stack' \in Seq(Frame') /\ StackOK'
    BY <1>1, <1>4, <1>5, <1>7, <1>8, SetTopOK
  <1> QED
    BY <1>1, <1>8, <1>9, FrozenSets DEF TInv, TypeOK, FinishBlock, Entry

LEMMA KeepFinishFunction ==
  ASSUME TInv, FinishFunction
  PROVE  TInv'
  <1>1. prog' = prog /\ stack' = <<>>
    BY DEF FinishFunction
  <1>2. StackOK' /\ stack' \in Seq(Frame)
    BY <1>1 DEF StackOK
  <1> QED
    BY <1>1, <1>2, FrozenSets DEF TInv, TypeOK, FinishFunction

\* The caller's facts as it passes them.
LEMMA PassedOK ==
  ASSUME TInv, NEW f \in Func, EnterCallee(f)
  PROVE  /\ Running /\ Top \in Frame /\ FrameOK(Top) /\ Top.calling
         /\ PassArguments(Top.dfval, f, Inst.src) \in Facts
  <1>1. Running /\ Top \in Frame /\ FrameOK(Top) /\ Top.calling
    BY TopOK DEF EnterCallee, Calling
  <1>2. Inst.src \in Seq(prog.value)
    BY <1>1, CallingOK DEF IsInstr
  <1> QED
    BY <1>1, <1>2, PassOK DEF Frame

\* What entering a callee does to the shared result map: only the callee's entry
\* changes, it only grows, and it takes in everything the caller holds.
LEMMA EnterResult ==
  ASSUME TInv, NEW f \in Func, EnterCallee(f)
  PROVE  \E e \in prog.block[f] :
            /\ e = prog.entry[f]
            /\ result' \in [DOMAIN result' -> Entry]
            /\ DOMAIN result' \subseteq Blocks
            /\ DOMAIN result' = DOMAIN result \cup prog.block[f]
            /\ \A b \in DOMAIN result \ {e} : result'[b] = result[b]
            /\ e \in DOMAIN result =>
                  /\ result'[e].second = result[e].second
                  /\ \A v \in prog.value : result[e].first[v] \subseteq result'[e].first[v]
            /\ \A v \in prog.value :
                  PassArguments(Top.dfval, f, Inst.src)[v] \subseteq result'[e].first[v]
  <1>1. prog \in Program /\ ResultOK(result) /\ f # "malloc"
    BY DEF TInv, TypeOK, ResultOK, Entry, EnterCallee
  <1>2. PICK e \in Blocks : e = prog.entry[f] /\ e \in prog.block[f]
    BY <1>1, ModuleShape
  <1>3. PICK S \in Facts : S = PassArguments(Top.dfval, f, Inst.src)
    BY PassedOK
  <1> DEFINE q == MergeIntoEntry(result, e, S)
  <1>4. /\ ResultOK(q)
        /\ DOMAIN q = DOMAIN result \cup {e}
        /\ \A b \in DOMAIN result \ {e} : q[b] = result[b]
        /\ e \in DOMAIN result => q[e].second = result[e].second
        /\ e \in DOMAIN result => \A v \in prog.value : result[e].first[v] \subseteq q[e].first[v]
        /\ \A v \in prog.value : S[v] \subseteq q[e].first[v]
    BY <1>1, MergeIntoEntryOK
  <1>5. result' = Entered(q, f, InitVal)
    BY <1>2, <1>3 DEF EnterCallee
  <1> HIDE DEF q
  <1>6. /\ ResultOK(Entered(q, f, InitVal))
        /\ DOMAIN Entered(q, f, InitVal) = DOMAIN q \cup prog.block[f]
        /\ \A b \in DOMAIN q : Entered(q, f, InitVal)[b] = q[b]
    BY <1>1, <1>4, EnteredOK
  <1>7. /\ ResultOK(result')
        /\ DOMAIN result' = DOMAIN result \cup prog.block[f]
        /\ \A b \in DOMAIN q : result'[b] = q[b]
    BY <1>2, <1>4, <1>5, <1>6
  <1>8. e \in DOMAIN q /\ result'[e] = q[e]
    BY <1>4, <1>7
  <1> QED
    BY <1>2, <1>3, <1>4, <1>7, <1>8 DEF ResultOK

\* The stack after a call: the caller without the callee to visit, the callee.
LEMMA EnterStack ==
  ASSUME TInv, NEW f \in Func, EnterCallee(f)
  PROVE  \E n \in Nat \ {0}, fr \in Frame :
            /\ n = Len(stack) /\ DOMAIN stack = 1 .. n
            /\ FrameOK(fr)
            /\ fr.fn = Top.fn /\ fr.worklist = Top.worklist /\ fr.bb = Top.bb
            /\ fr.ii = Top.ii /\ fr.calling = Top.calling /\ fr.out = Top.out
            /\ fr.todo = Top.todo \ {f}
            /\ fr.dfval = PassArguments(Top.dfval, f, Inst.src)
            /\ stack' \in Seq(Frame) /\ DOMAIN stack' = 1 .. n + 1
            /\ \A i \in 1 .. n - 1 : stack'[i] = stack[i]
            /\ stack'[n] = fr
            /\ stack'[n + 1] = Activation(f)
  <1>1. /\ Running /\ Top \in Frame /\ FrameOK(Top) /\ Top.calling
        /\ PassArguments(Top.dfval, f, Inst.src) \in Facts
    BY PassedOK
  <1>2. PICK n \in Nat \ {0} : n = Len(stack)
    BY TopOK, <1>1
  <1>3. PICK S \in Facts : S = PassArguments(Top.dfval, f, Inst.src)
    BY <1>1
  <1>4. stack \in Seq(Frame) /\ prog \in Program
    BY DEF TInv, TypeOK
  <1>5. PICK fr \in Frame : fr = [Top EXCEPT !.dfval = S, !.todo = @ \ {f}]
    BY <1>1 DEF Frame
  <1>6. /\ fr.fn = Top.fn /\ fr.worklist = Top.worklist /\ fr.bb = Top.bb
        /\ fr.ii = Top.ii /\ fr.calling = Top.calling /\ fr.dfval = S
        /\ fr.out = Top.out /\ fr.todo = Top.todo \ {f}
    BY <1>1, <1>5 DEF Frame
  <1>7. FrameOK(fr)
    BY <1>1, <1>6 DEF FrameOK
  <1> DEFINE low == [stack EXCEPT ![n] = fr]
  <1>8. stack' = Append(low, Activation(f))
    BY <1>2, <1>3, <1>5 DEF EnterCallee
  <1>9. low \in Seq(Frame) /\ Len(low) = n
    BY <1>2, <1>4
  <1>10. low[n] = fr /\ \A i \in 1 .. n - 1 : low[i] = stack[i]
    BY <1>2, <1>4
  <1>11. Activation(f) \in Frame
    BY <1>4, ActivationOK
  <1> HIDE DEF low
  <1>12. stack' \in Seq(Frame) /\ Len(stack') = n + 1
    BY <1>8, <1>9, <1>11
  <1>13. stack'[n + 1] = Activation(f) /\ \A i \in 1 .. n : stack'[i] = low[i]
    BY <1>8, <1>9, <1>11
  <1>14. DOMAIN stack' = 1 .. n + 1 /\ DOMAIN stack = 1 .. n
    BY <1>2, <1>4, <1>12
  <1>15. stack'[n] = fr /\ \A i \in 1 .. n - 1 : stack'[i] = stack[i]
    BY <1>10, <1>13
  <1> QED
    BY <1>2, <1>3, <1>6, <1>7, <1>12, <1>13, <1>14, <1>15

LEMMA KeepEnterCallee ==
  ASSUME TInv, NEW f \in Func, EnterCallee(f)
  PROVE  TInv'
  <1>1. PICK n \in Nat \ {0}, fr \in Frame :
           /\ DOMAIN stack = 1 .. n
           /\ FrameOK(fr)
           /\ stack' \in Seq(Frame) /\ DOMAIN stack' = 1 .. n + 1
           /\ \A i \in 1 .. n - 1 : stack'[i] = stack[i]
           /\ stack'[n] = fr /\ stack'[n + 1] = Activation(f)
    BY EnterStack
  <1>2. prog \in Program /\ prog' = prog /\ f # "malloc"
    BY DEF TInv, TypeOK, EnterCallee
  <1>3. /\ result' \in [DOMAIN result' -> Entry]
        /\ DOMAIN result' \subseteq Blocks
        /\ DOMAIN result' = DOMAIN result \cup prog.block[f]
    BY EnterResult
  <1>4. FrameOK(Activation(f))'
    BY <1>2, <1>3, ActivationOK
  <1>5. \A i \in 1 .. n : FrameOK(stack'[i])
    BY <1>1 DEF TInv, StackOK
  <1>6. Activation(f)' = Activation(f)
    BY <1>2, FrozenSets DEF Activation
  <1>7. \A i \in 1 .. n + 1 : FrameOK(stack[i])'
    <2>1. \A i \in 1 .. n : FrameOK(stack[i])'
      BY <1>2, <1>3, <1>5 DEF FrameOK
    <2>2. FrameOK(stack[n + 1])'
      BY <1>1, <1>4, <1>6 DEF FrameOK
    <2>3. \A i \in 1 .. n + 1 : i \in 1 .. n \/ i = n + 1
      BY <1>1
    <2> QED
      BY <2>1, <2>2, <2>3
  <1> QED
    BY <1>1, <1>2, <1>3, <1>7, FrozenSets DEF TInv, TypeOK, StackOK, EnterCallee, Entry

-----------------------------------------------------------------------------
LEMMA InitTInv ==
  ASSUME Init
  PROVE  TInv
  <1>1. prog \in Program /\ prog.fun \in Seq(prog.value)
    BY ModuleShape DEF Init, IsModule
  <1>2. next \in 1 .. Len(prog.fun) + 1
    BY <1>1 DEF Init
  <1>3. stack \in Seq(Frame) /\ StackOK
    BY DEF Init, StackOK
  <1>4. DOMAIN result = {} /\ result \in [{} -> Entry]
    BY DEF Init
  <1>5. DOMAIN AllocMap = {} /\ AllocMap \in [{} -> prog.value]
    BY DEF Init
  <1>6. CalleeMap \in [CallSites -> SUBSET Func] /\ CallerMap \in [Func -> SUBSET CallSites]
    BY DEF Init
  <1> QED
    BY <1>1, <1>2, <1>3, <1>4, <1>5, <1>6 DEF TInv, TypeOK, Entry

LEMMA KeepStutter ==
  ASSUME TInv, UNCHANGED vars
  PROVE  TInv'
  <1>1. prog' = prog /\ stack' = stack /\ result' = result
    BY DEF vars
  <1>2. StackOK'
    BY <1>1 DEF TInv, StackOK, FrameOK
  <1> QED
    BY <1>2, FrozenSets DEF TInv, TypeOK, vars

LEMMA NextTInv ==
  ASSUME TInv, [Next]_vars
  PROVE  TInv'
  <1>1. CASE StartFunction
    BY <1>1, KeepStartFunction
  <1>2. ASSUME NEW b \in Blocks, TakeBlock(b) PROVE TInv'
    BY <1>2, KeepTakeBlock
  <1>3. CASE ProcessInst
    BY <1>3, KeepProcessInst
  <1>4. CASE ProcessAlloca
    BY <1>4, KeepProcessAlloca
  <1>5. CASE BeginCall
    BY <1>5, KeepBeginCall
  <1>6. CASE BeginMemCpy
    BY <1>6, KeepBeginMemCpy
  <1>7. ASSUME NEW x \in prog.value, CopyTo(x) PROVE TInv'
    BY <1>7, KeepCopyTo
  <1>8. CASE CallMalloc
    BY <1>8, KeepCallMalloc
  <1>9. ASSUME NEW f \in Func, EnterCallee(f) PROVE TInv'
    BY <1>9, KeepEnterCallee
  <1>10. CASE LeaveCallee
    BY <1>10, KeepLeaveCallee
  <1>11. CASE EndCall
    BY <1>11, KeepEndCall
  <1>12. CASE FinishBlock
    BY <1>12, KeepFinishBlock
  <1>13. CASE FinishFunction
    BY <1>13, KeepFinishFunction
  <1>14. CASE Finished \/ UNCHANGED vars
    BY <1>14, KeepStutter DEF Finished
  <1> QED
    BY <1>1, <1>2, <1>3, <1>4, <1>5, <1>6, <1>7, <1>8, <1>9, <1>10, <1>11, <1>12, <1>13, <1>14
    DEF Next

\* The two invariants together: every activation works on its own function, and
\* all the blocks of that function have a result.
THEOREM Shape == Spec => []TInv
  BY InitTInv, NextTInv, PTL DEF Spec

\* For every module, every depth of recursion and every order of blocks, callees
\* and targets, call sites are linked to functions only, every value flowing is a
\* points-to map, and mapAllocSite never runs out of constants.
THEOREM TypeCorrect == Spec => []TypeOK
  BY Shape, PTL DEF TInv

-----------------------------------------------------------------------------
(***************************************************************************)
(* The value on entry of a block only grows. Four actions write to result. *)
(***************************************************************************)
Kept == DOMAIN result \subseteq DOMAIN result' /\ Grows

\* A step that writes a value on exit, or nothing.
LEMMA SameEntries ==
  ASSUME DOMAIN result' = DOMAIN result,
         \A b \in DOMAIN result : result'[b].first = result[b].first
  PROVE  Kept
  BY DEF Kept, Grows

LEMMA StartResult ==
  ASSUME TInv, StartFunction
  PROVE  \E f \in Func :
            /\ stack = <<>> /\ stack' = <<Activation(f)>> /\ prog' = prog
            /\ DOMAIN result' = DOMAIN result \cup prog.block[f]
            /\ \A b \in DOMAIN result : result'[b] = result[b]
  <1>1. prog \in Program /\ prog' = prog /\ prog.fun[next] \in Func /\ stack = <<>>
    BY ModuleShape DEF TInv, TypeOK, StartFunction, Func, FuncsOf, IsModule, Running
  <1>2. PICK f \in Func : f = prog.fun[next]
    BY <1>1
  <1>3. ResultOK(result)
    BY DEF TInv, TypeOK, ResultOK, Entry
  <1>4. /\ DOMAIN Entered(result, f, InitVal) = DOMAIN result \cup prog.block[f]
        /\ \A b \in DOMAIN result : Entered(result, f, InitVal)[b] = result[b]
    BY <1>1, <1>3, EnteredOK
  <1>5. stack' = <<Activation(f)>> /\ result' = Entered(result, f, InitVal)
    BY <1>2 DEF StartFunction
  <1> QED
    BY <1>1, <1>4, <1>5

\* A block is taken from the worklist of the running activation, and its value on
\* entry takes in what it was and what the predecessors have on exit.
LEMMA TakeResult ==
  ASSUME TInv, NEW b \in Blocks, TakeBlock(b)
  PROVE  /\ b \in DOMAIN result /\ DOMAIN result' = DOMAIN result
         /\ \A c \in DOMAIN result : result'[c].second = result[c].second
         /\ \A c \in DOMAIN result \ {b} : result'[c] = result[c]
         /\ \A v \in prog.value : result[b].first[v] \subseteq result'[b].first[v]
         /\ \A v \in prog.value : \A c \in Pred(b) :
               result[c].second[v] \subseteq result'[b].first[v]
  <1>1. Top \in Frame /\ FrameOK(Top) /\ b \in Top.worklist
    BY TopOK DEF TakeBlock
  <1>2. b \in DOMAIN result
    BY <1>1 DEF FrameOK
  <1>3. result \in [DOMAIN result -> Entry]
    BY DEF TInv, TypeOK, Entry
  <1> DEFINE M == MergePreds(b)
  <1>4. result' = [result EXCEPT ![b].first = M]
    BY DEF TakeBlock
  <1>5. \A v \in prog.value :
           M[v] = result[b].first[v] \cup UNION {result[c].second[v] : c \in Pred(b)}
    BY DEF MergePreds
  <1> HIDE DEF M
  <1>6. /\ DOMAIN result' = DOMAIN result /\ result'[b].first = M
        /\ result'[b].second = result[b].second
        /\ \A c \in DOMAIN result \ {b} : result'[c] = result[c]
    BY <1>2, <1>3, <1>4 DEF Entry
  <1>7. \A v \in prog.value : \A c \in Pred(b) :
           result[c].second[v] \subseteq UNION {result[d].second[v] : d \in Pred(b)}
    OBVIOUS
  <1> QED
    BY <1>2, <1>5, <1>6, <1>7

\* The value of the block in hand is stored, if it changed.
LEMMA FinishResult ==
  ASSUME TInv, FinishBlock
  PROVE  /\ Top.bb \in DOMAIN result /\ DOMAIN result' = DOMAIN result
         /\ \A c \in DOMAIN result : result'[c].first = result[c].first
         /\ \A c \in DOMAIN result \ {Top.bb} : result'[c] = result[c]
  <1>1. Top \in Frame /\ FrameOK(Top) /\ Top.bb # NoBlock
    BY TopOK DEF FinishBlock, InBlock
  <1>2. Top.bb \in DOMAIN result
    BY <1>1 DEF FrameOK
  <1>3. result \in [DOMAIN result -> Entry]
    BY DEF TInv, TypeOK, Entry
  <1>4. result' = result \/ result' = [result EXCEPT ![Top.bb].second = Top.dfval]
    BY DEF FinishBlock
  <1> QED
    BY <1>2, <1>3, <1>4 DEF Entry

LEMMA StepKept ==
  ASSUME TInv, [Next]_vars
  PROVE  Kept
  <1>1. CASE StartFunction
    BY <1>1, StartResult, SameEntries DEF Kept, Grows
  <1>2. ASSUME NEW b \in Blocks, TakeBlock(b) PROVE Kept
    BY <1>2, TakeResult DEF Kept, Grows
  <1>3. ASSUME NEW f \in Func, EnterCallee(f) PROVE Kept
    BY <1>3, EnterResult DEF Kept, Grows
  <1>4. CASE FinishBlock
    BY <1>4, FinishResult, SameEntries
  <1>5. CASE result' = result
    BY <1>5, SameEntries
  <1> QED
    BY <1>1, <1>2, <1>3, <1>4, <1>5
    DEF Next, vars, ProcessInst, ProcessAlloca, BeginCall, BeginMemCpy, CopyTo, CallMalloc,
        LeaveCallee, EndCall, FinishFunction, Finished

\* No step, of whatever activation, takes a value away from what a block has on
\* entry: the merges of processCallInst and of compForwardDataflowInter only add.
THEOREM EntriesOnlyGrow == Spec => EntriesGrow
  <1>1. TInv /\ [Next]_vars => Grows
    BY StepKept DEF Kept
  <1>2. Spec => []TInv /\ [][Next]_vars
    BY Shape, PTL DEF Spec
  <1> QED
    BY <1>1, <1>2, PTL DEF EntriesGrow

-----------------------------------------------------------------------------
(***************************************************************************)
(* What a step does to the activations, worklists first.                   *)
(***************************************************************************)
\* The steps that move the running activation on and write no result.
Moves == ProcessInst \/ ProcessAlloca \/ BeginCall \/ BeginMemCpy \/ CallMalloc \/ EndCall
            \/ \E x \in prog.value : CopyTo(x)

\* The running activation becomes fr, the others stay.
Replaced(fr) ==
    /\ DOMAIN stack' = DOMAIN stack
    /\ Len(stack) \in DOMAIN stack
    /\ stack'[Len(stack)] = fr
    /\ \A i \in DOMAIN stack \ {Len(stack)} : stack'[i] = stack[i]

LEMMA SetTopReplaces ==
  ASSUME TInv, Running, NEW fr, SetTop(fr)
  PROVE  Replaced(fr)
  <1>1. stack \in Seq(Frame) /\ Len(stack) \in Nat \ {0}
    BY TopOK DEF TInv, TypeOK
  <1>2. Len(stack) \in DOMAIN stack
    BY <1>1
  <1> QED
    BY <1>2 DEF SetTop, Replaced

LEMMA MovesTop ==
  ASSUME TInv, Moves
  PROVE  /\ prog' = prog /\ result' = result
         /\ \E fr : Replaced(fr) /\ fr.fn = Top.fn /\ fr.worklist = Top.worklist
  <1>1. Running /\ prog' = prog /\ result' = result
    BY DEF Moves, ProcessInst, ProcessAlloca, BeginCall, BeginMemCpy, CallMalloc, EndCall, CopyTo,
           AtInst, InBlock, Calling
  <1>2. Top \in Frame
    BY <1>1, TopOK
  <1>3. \E fr : SetTop(fr) /\ fr.fn = Top.fn /\ fr.worklist = Top.worklist
    <2>1. CASE ProcessInst
      <3>0. PICK S \in Outcomes(Top.dfval, Inst, CallerMap[Top.fn]) :
               SetTop([Top EXCEPT !.dfval = S, !.ii = @ + 1])
        BY <2>1 DEF ProcessInst
      <3> DEFINE fr == [Top EXCEPT !.dfval = S, !.ii = @ + 1]
      <3>1. fr.fn = Top.fn /\ fr.worklist = Top.worklist
        BY <1>2 DEF Frame
      <3>2. SetTop(fr)
        BY <3>0
      <3> HIDE DEF fr
      <3> QED
        BY <3>1, <3>2
    <2>2. CASE ProcessAlloca
      <3> DEFINE fr == [Top EXCEPT !.dfval[Inst.dst] = {SiteOf(Inst.dst)}, !.ii = @ + 1]
      <3>1. fr.fn = Top.fn /\ fr.worklist = Top.worklist
        BY <1>2 DEF Frame
      <3>2. SetTop(fr)
        BY <2>2 DEF ProcessAlloca
      <3> HIDE DEF fr
      <3> QED
        BY <3>1, <3>2
    <2>3. CASE BeginCall
      <3> DEFINE past == [Top EXCEPT !.ii = @ + 1]
                 begun == [Top EXCEPT !.calling = TRUE, !.todo = CalleeMap'[Inst.dst], !.out = NoFacts]
      <3>1. /\ past.fn = Top.fn /\ past.worklist = Top.worklist
            /\ begun.fn = Top.fn /\ begun.worklist = Top.worklist
        BY <1>2 DEF Frame
      <3>2. SetTop(past) \/ SetTop(begun)
        BY <2>3 DEF BeginCall
      <3> HIDE DEF past, begun
      <3> QED
        BY <3>1, <3>2
    <2>4. CASE BeginMemCpy
      <3> DEFINE fr == [Top EXCEPT !.calling = TRUE, !.out = NoFacts,
                                   !.todo = IF Top.dfval[Inst.src[1]] = {} THEN {}
                                            ELSE Top.dfval[Inst.dst]]
      <3>1. fr.fn = Top.fn /\ fr.worklist = Top.worklist
        BY <1>2 DEF Frame
      <3>2. SetTop(fr)
        BY <2>4 DEF BeginMemCpy
      <3> HIDE DEF fr
      <3> QED
        BY <3>1, <3>2
    <2>5. CASE CallMalloc
      <3> DEFINE fr == [Top EXCEPT !.dfval[Inst.dst] = {SiteOf(Inst.dst)},
                                   !.todo = @ \ {"malloc"}]
      <3>1. fr.fn = Top.fn /\ fr.worklist = Top.worklist
        BY <1>2 DEF Frame
      <3>2. SetTop(fr)
        BY <2>5 DEF CallMalloc
      <3> HIDE DEF fr
      <3> QED
        BY <3>1, <3>2
    <2>6. CASE EndCall
      <3> DEFINE fr == [Top EXCEPT !.dfval = AfterCall, !.calling = FALSE, !.ii = @ + 1,
                                   !.out = NoFacts]
      <3>1. fr.fn = Top.fn /\ fr.worklist = Top.worklist
        BY <1>2 DEF Frame
      <3>2. SetTop(fr)
        BY <2>6 DEF EndCall
      <3> HIDE DEF fr
      <3> QED
        BY <3>1, <3>2
    <2>7. ASSUME NEW x \in prog.value, CopyTo(x)
          PROVE  \E fr : SetTop(fr) /\ fr.fn = Top.fn /\ fr.worklist = Top.worklist
      <3>0. PICK S \in CopyOutcomes(Top.dfval, x, Inst.src[1]) :
               SetTop([Top EXCEPT !.dfval = S, !.todo = @ \ {x}])
        BY <2>7 DEF CopyTo
      <3> DEFINE fr == [Top EXCEPT !.dfval = S, !.todo = @ \ {x}]
      <3>1. fr.fn = Top.fn /\ fr.worklist = Top.worklist
        BY <1>2 DEF Frame
      <3>2. SetTop(fr)
        BY <3>0
      <3> HIDE DEF fr
      <3> QED
        BY <3>1, <3>2
    <2> QED
      BY <2>1, <2>2, <2>3, <2>4, <2>5, <2>6, <2>7 DEF Moves
  <1> QED
    BY <1>1, <1>3, SetTopReplaces

\* The running activation is a proper one, like the others.
LEMMA TopInStack ==
  ASSUME TInv, Running
  PROVE  Len(stack) \in DOMAIN stack /\ Top = stack[Len(stack)]
  <1>1. stack \in Seq(Frame) /\ Len(stack) \in Nat \ {0}
    BY TopOK DEF TInv, TypeOK
  <1> QED
    BY <1>1 DEF Top

\* The worklists of all activations, when only that of the running one changes.
LEMMA WaitingReplaced ==
  ASSUME TInv, Running, NEW fr, Replaced(fr)
  PROVE  /\ Waiting \subseteq Waiting' \cup (Top.worklist \ fr.worklist)
         /\ fr.worklist \subseteq Waiting'
  <1>1. Len(stack) \in DOMAIN stack /\ Top = stack[Len(stack)]
    BY TopInStack
  <1>2. fr.worklist \subseteq Waiting'
    BY <1>1 DEF Replaced, Waiting
  <1>3. \A i \in DOMAIN stack \ {Len(stack)} : stack[i].worklist \subseteq Waiting'
    BY DEF Replaced, Waiting
  <1>4. Top.worklist \subseteq Waiting' \cup (Top.worklist \ fr.worklist)
    BY <1>2
  <1> QED
    BY <1>1, <1>2, <1>3, <1>4 DEF Waiting

\* The stack without its last activation.
LEMMA Popped ==
  ASSUME TInv, LeaveCallee
  PROVE  \E n \in Nat \ {0} :
            /\ DOMAIN stack = 1 .. n + 1 /\ Len(stack) = n + 1 /\ Top = stack[n + 1]
            /\ DOMAIN stack' = 1 .. n /\ Len(stack') = n
            /\ \A i \in 1 .. n - 1 : stack'[i] = stack[i]
            /\ stack'[n].worklist = stack[n].worklist /\ stack'[n].fn = stack[n].fn
            /\ stack'[n].dfval = stack[n].dfval
            /\ stack'[n].bb = stack[n].bb /\ stack'[n].ii = stack[n].ii
            /\ stack'[n].calling = stack[n].calling /\ stack'[n].todo = stack[n].todo
            /\ stack'[n].out = Merge(stack[n].out, ExitFacts(Top.fn))
  <1>1. stack \in Seq(Frame) /\ Len(stack) \in Nat /\ Len(stack) > 1
    BY DEF TInv, TypeOK, LeaveCallee
  <1>2. \A m \in Nat : m > 1 => \E n \in Nat \ {0} : m = n + 1 /\ n = m - 1
    <2>1. ASSUME NEW m \in Nat, m > 1
          PROVE  m - 1 \in Nat \ {0} /\ m = (m - 1) + 1
      BY <2>1
    <2> QED
      BY <2>1
  <1>3. PICK n \in Nat \ {0} : Len(stack) = n + 1 /\ Len(stack) - 1 = n
    BY <1>1, <1>2
  <1> DEFINE low == SubSeq(stack, 1, n)
  <1>4. low \in Seq(Frame) /\ Len(low) = n /\ \A i \in 1 .. n : low[i] = stack[i]
    BY <1>1, <1>3
  <1>5. stack' = [low EXCEPT ![n].out = Merge(@, ExitFacts(Top.fn))]
    BY <1>3 DEF LeaveCallee
  <1> HIDE DEF low
  <1>6. low[n] \in Frame /\ DOMAIN low = 1 .. n
    BY <1>4
  <1>7. DOMAIN stack' = 1 .. n /\ \A i \in 1 .. n - 1 : stack'[i] = low[i]
    BY <1>5, <1>6
  <1>8. stack'[n] = [low[n] EXCEPT !.out = Merge(low[n].out, ExitFacts(Top.fn))]
    BY <1>5, <1>6
  <1>9. /\ stack'[n].worklist = low[n].worklist /\ stack'[n].fn = low[n].fn
        /\ stack'[n].dfval = low[n].dfval
        /\ stack'[n].bb = low[n].bb /\ stack'[n].ii = low[n].ii
        /\ stack'[n].calling = low[n].calling /\ stack'[n].todo = low[n].todo
        /\ stack'[n].out = Merge(low[n].out, ExitFacts(Top.fn))
    BY <1>6, <1>8 DEF Frame
  <1>10. DOMAIN stack = 1 .. n + 1
    BY <1>1, <1>3
  <1>11. Len(stack') = n
    <2>1. stack' \in Seq(Frame')
      BY KeepLeaveCallee DEF TInv, TypeOK
    <2> QED
      BY <1>7, <2>1
  <1> QED
    BY <1>3, <1>4, <1>7, <1>9, <1>10, <1>11 DEF Top

-----------------------------------------------------------------------------
(***************************************************************************)
(* No stale edge. The predecessors of a block that has a result have one,  *)
(* since an activation gives one to all the blocks of its function.        *)
(***************************************************************************)
PredsSeen == \A b \in DOMAIN result : Pred(b) \subseteq DOMAIN result

EdgeInv == TInv /\ PredsSeen /\ NoStaleEdge

\* A block outside a function has no predecessor in it.
LEMMA PredOutside ==
  ASSUME prog \in Program, NEW f \in Func, NEW b, b \notin prog.block[f]
  PROVE  Pred(b) \cap prog.block[f] = {}
  BY FlowInFunction DEF Pred

LEMMA PredKept ==
  ASSUME prog' = prog
  PROVE  \A b : Pred(b)' = Pred(b)
  BY FrozenSets DEF Pred

\* A step that gives results to the blocks of one function at most.
LEMMA KeepPredsSeen ==
  ASSUME TInv, PredsSeen, prog' = prog, NEW f \in Func,
         \/ DOMAIN result' = DOMAIN result
         \/ DOMAIN result' = DOMAIN result \cup prog.block[f]
  PROVE  PredsSeen'
  <1>1. \A b \in prog.block[f] : Pred(b) \subseteq prog.block[f]
    BY FlowInFunction DEF TInv, TypeOK
  <1>2. \A b \in DOMAIN result' : Pred(b) \subseteq DOMAIN result'
    BY <1>1 DEF PredsSeen
  <1> QED
    BY <1>2, PredKept DEF PredsSeen

\* A function that is entered has all its blocks on a worklist, and the results of
\* all other blocks stay.
LEMMA KeepEdgesEntering ==
  ASSUME EdgeInv, NEW f \in Func, prog' = prog,
         DOMAIN result' = DOMAIN result \cup prog.block[f],
         \A b \in DOMAIN result \ prog.block[f] : result'[b] = result[b],
         Waiting \cup prog.block[f] \subseteq Waiting'
  PROVE  PredsSeen' /\ NoStaleEdge'
  <1>1. PredsSeen'
    BY KeepPredsSeen DEF EdgeInv
  <1>2. ASSUME NEW b \in DOMAIN result' \ Waiting', NEW c \in Pred(b), NEW v \in prog.value
        PROVE  result'[c].second[v] \subseteq result'[b].first[v]
    <2>1. b \in DOMAIN result \ Waiting /\ b \notin prog.block[f]
      BY <1>2
    <2>2. c \in DOMAIN result /\ c \notin prog.block[f]
      BY <1>2, <2>1, PredOutside DEF EdgeInv, PredsSeen, TInv, TypeOK
    <2>3. result'[b] = result[b] /\ result'[c] = result[c]
      BY <2>1, <2>2
    <2> QED
      BY <1>2, <2>1, <2>3 DEF EdgeInv, NoStaleEdge
  <1> QED
    BY <1>1, <1>2, PredKept DEF NoStaleEdge

\* A step that writes no result and takes nothing from the worklists.
LEMMA KeepEdgesSame ==
  ASSUME EdgeInv, prog' = prog, result' = result, Waiting \subseteq Waiting'
  PROVE  PredsSeen' /\ NoStaleEdge'
  BY PredKept DEF EdgeInv, PredsSeen, NoStaleEdge

LEMMA KeepEdgesTakeBlock ==
  ASSUME EdgeInv, NEW b \in Blocks, TakeBlock(b)
  PROVE  PredsSeen' /\ NoStaleEdge'
  <1>1. TInv /\ Running /\ prog' = prog /\ Top \in Frame
    BY TopOK DEF EdgeInv, TakeBlock
  <1>2. /\ DOMAIN result' = DOMAIN result
        /\ \A c \in DOMAIN result : result'[c].second = result[c].second
        /\ \A c \in DOMAIN result \ {b} : result'[c] = result[c]
        /\ \A v \in prog.value : \A c \in Pred(b) :
              result[c].second[v] \subseteq result'[b].first[v]
    BY <1>1, TakeResult
  <1>3. PredsSeen'
    BY <1>2, <1>1, PredKept DEF EdgeInv, PredsSeen
  <1>4. Waiting \subseteq Waiting' \cup {b}
    <2> DEFINE fr == [Top EXCEPT !.worklist = @ \ {b}, !.bb = b, !.ii = 1, !.dfval = MergePreds(b)]
    <2>1. fr.worklist = Top.worklist \ {b}
      BY <1>1 DEF Frame
    <2>2. SetTop(fr)
      BY DEF TakeBlock
    <2> HIDE DEF fr
    <2>3. PICK g : SetTop(g) /\ g.worklist = Top.worklist \ {b}
      BY <2>1, <2>2
    <2>4. Waiting \subseteq Waiting' \cup (Top.worklist \ g.worklist)
      BY <1>1, <2>3, SetTopReplaces, WaitingReplaced
    <2> QED
      BY <2>3, <2>4
  <1>5. ASSUME NEW d \in DOMAIN result' \ Waiting', NEW c \in Pred(d), NEW v \in prog.value
        PROVE  result'[c].second[v] \subseteq result'[d].first[v]
    <2>1. c \in DOMAIN result
      BY <1>2, <1>5 DEF EdgeInv, PredsSeen
    <2>2. CASE d = b
      BY <1>2, <1>5, <2>1, <2>2
    <2>3. CASE d # b
      <3>1. d \in DOMAIN result \ Waiting
        BY <1>2, <1>4, <1>5, <2>3
      <3> QED
        BY <1>2, <1>5, <2>1, <2>3, <3>1 DEF EdgeInv, NoStaleEdge
    <2> QED
      BY <2>2, <2>3
  <1> QED
    BY <1>1, <1>3, <1>5, PredKept DEF NoStaleEdge

LEMMA KeepEdgesFinishBlock ==
  ASSUME EdgeInv, FinishBlock
  PROVE  PredsSeen' /\ NoStaleEdge'
  <1>1. /\ TInv /\ Running /\ prog' = prog /\ Top \in Frame /\ FrameOK(Top)
        /\ Top.bb \in DOMAIN result /\ Top.bb \in Blocks
    BY TopOK, FinishResult DEF EdgeInv, FinishBlock, InBlock, TInv, TypeOK
  <1> DEFINE quiet == [Top EXCEPT !.bb = NoBlock, !.dfval = NoFacts]
             more == [Top EXCEPT !.worklist = @ \cup prog.succ[Top.bb],
                                 !.bb = NoBlock, !.dfval = NoFacts]
  <1>2. quiet.worklist = Top.worklist /\ more.worklist = Top.worklist \cup prog.succ[Top.bb]
    BY <1>1 DEF Frame
  <1>3. \/ SetTop(quiet) /\ result' = result
        \/ SetTop(more)
    BY DEF FinishBlock, Requeue
  <1> HIDE DEF quiet, more
  <1>4. CASE SetTop(quiet) /\ result' = result
    <2>1. PICK g : SetTop(g) /\ g.worklist = Top.worklist
      BY <1>2, <1>4
    <2>2. Waiting \subseteq Waiting'
      BY <1>1, <2>1, SetTopReplaces, WaitingReplaced
    <2> QED
      BY <1>1, <1>4, <2>2, KeepEdgesSame
  <1>5. CASE SetTop(more)
    <2>1. PICK g : SetTop(g) /\ g.worklist = Top.worklist \cup prog.succ[Top.bb]
      BY <1>2, <1>5
    <2>2. Waiting \subseteq Waiting' /\ prog.succ[Top.bb] \subseteq Waiting'
      BY <1>1, <2>1, SetTopReplaces, WaitingReplaced
    <2>3. /\ DOMAIN result' = DOMAIN result
          /\ \A c \in DOMAIN result : result'[c].first = result[c].first
          /\ \A c \in DOMAIN result \ {Top.bb} : result'[c] = result[c]
      BY <1>1, FinishResult
    <2>4. ASSUME NEW d \in DOMAIN result' \ Waiting', NEW c \in Pred(d), NEW v \in prog.value
          PROVE  result'[c].second[v] \subseteq result'[d].first[v]
      <3>1. d \in DOMAIN result \ Waiting /\ c \in DOMAIN result
        BY <2>2, <2>3, <2>4 DEF EdgeInv, PredsSeen
      <3>2. c # Top.bb
        BY <2>2, <2>4 DEF Pred
      <3>3. result[c].second[v] \subseteq result[d].first[v]
        BY <2>4, <3>1 DEF EdgeInv, NoStaleEdge
      <3> QED
        BY <2>3, <3>1, <3>2, <3>3
    <2>5. PredsSeen'
      BY <1>1, <2>3, PredKept DEF EdgeInv, PredsSeen
    <2> QED
      BY <1>1, <2>4, <2>5, PredKept DEF NoStaleEdge
  <1> QED
    BY <1>3, <1>4, <1>5

LEMMA KeepEdgesStart ==
  ASSUME EdgeInv, StartFunction
  PROVE  PredsSeen' /\ NoStaleEdge'
  <1>1. PICK f \in Func :
           /\ stack = <<>> /\ stack' = <<Activation(f)>> /\ prog' = prog
           /\ DOMAIN result' = DOMAIN result \cup prog.block[f]
           /\ \A b \in DOMAIN result : result'[b] = result[b]
    BY StartResult DEF EdgeInv
  <1>2. Waiting = {}
    BY <1>1 DEF Waiting
  <1>3. stack'[1].worklist = prog.block[f] /\ 1 \in DOMAIN stack'
    BY <1>1 DEF Activation
  <1>4. prog.block[f] \subseteq Waiting'
    BY <1>3 DEF Waiting
  <1> QED
    BY <1>1, <1>2, <1>4, KeepEdgesEntering

LEMMA KeepEdgesEnterCallee ==
  ASSUME EdgeInv, NEW f \in Func, EnterCallee(f)
  PROVE  PredsSeen' /\ NoStaleEdge'
  <1>1. TInv /\ prog' = prog
    BY DEF EdgeInv, EnterCallee
  <1>2. /\ DOMAIN result' = DOMAIN result \cup prog.block[f]
        /\ \A b \in DOMAIN result \ prog.block[f] : result'[b] = result[b]
    BY <1>1, EnterResult
  <1>3. PICK n \in Nat \ {0}, fr \in Frame :
           /\ n = Len(stack) /\ DOMAIN stack = 1 .. n
           /\ fr.worklist = Top.worklist
           /\ DOMAIN stack' = 1 .. n + 1
           /\ \A i \in 1 .. n - 1 : stack'[i] = stack[i]
           /\ stack'[n] = fr /\ stack'[n + 1] = Activation(f)
    BY <1>1, EnterStack
  <1>4. \A i \in 1 .. n : i \in 1 .. n + 1 /\ stack'[i].worklist = stack[i].worklist
    <2>1. \A i \in 1 .. n : i \in 1 .. n - 1 \/ i = n
      OBVIOUS
    <2> QED
      BY <1>3, <2>1 DEF Top
  <1>5. Waiting \subseteq Waiting'
    BY <1>3, <1>4 DEF Waiting
  <1>6. n + 1 \in DOMAIN stack' /\ stack'[n + 1].worklist = prog.block[f]
    BY <1>3 DEF Activation
  <1>7. prog.block[f] \subseteq Waiting'
    BY <1>6 DEF Waiting
  <1> QED
    BY <1>1, <1>2, <1>5, <1>7, KeepEdgesEntering

LEMMA KeepEdgesMoves ==
  ASSUME EdgeInv, Moves
  PROVE  PredsSeen' /\ NoStaleEdge'
  <1>1. TInv /\ Running
    BY DEF EdgeInv, Moves, ProcessInst, ProcessAlloca, BeginCall, BeginMemCpy, CallMalloc, EndCall,
           CopyTo, AtInst, InBlock, Calling
  <1>2. PICK fr : Replaced(fr) /\ fr.worklist = Top.worklist
    BY <1>1, MovesTop
  <1>3. Waiting \subseteq Waiting'
    BY <1>1, <1>2, WaitingReplaced
  <1> QED
    BY <1>1, <1>3, MovesTop, KeepEdgesSame

LEMMA KeepEdgesLeave ==
  ASSUME EdgeInv, LeaveCallee \/ FinishFunction
  PROVE  PredsSeen' /\ NoStaleEdge'
  <1>1. TInv /\ prog' = prog /\ result' = result
    BY DEF EdgeInv, LeaveCallee, FinishFunction
  <1>2. CASE LeaveCallee
    <2>1. PICK n \in Nat \ {0} :
             /\ DOMAIN stack = 1 .. n + 1 /\ Top = stack[n + 1]
             /\ DOMAIN stack' = 1 .. n
             /\ \A i \in 1 .. n - 1 : stack'[i] = stack[i]
             /\ stack'[n].worklist = stack[n].worklist
      BY <1>1, <1>2, Popped
    <2>2. stack[n + 1].worklist = {}
      BY <1>2, <2>1 DEF LeaveCallee
    <2>3. \A i \in 1 .. n + 1 : i \in 1 .. n - 1 \/ i = n \/ i = n + 1
      OBVIOUS
    <2>4. n \in 1 .. n /\ 1 .. n - 1 \subseteq 1 .. n
      OBVIOUS
    <2>5. Waiting \subseteq Waiting'
      BY <2>1, <2>2, <2>3, <2>4 DEF Waiting
    <2> QED
      BY <1>1, <2>5, KeepEdgesSame
  <1>3. CASE FinishFunction
    <2>1. stack \in Seq(Frame) /\ Len(stack) = 1 /\ stack[1].worklist = {}
      BY <1>1, <1>3 DEF FinishFunction, Top, TInv, TypeOK
    <2>2. DOMAIN stack = {1}
      BY <2>1
    <2>3. Waiting = {}
      BY <2>1, <2>2 DEF Waiting
    <2> QED
      BY <1>1, <2>3, KeepEdgesSame
  <1> QED
    BY <1>2, <1>3

LEMMA NextEdgeInv ==
  ASSUME EdgeInv, [Next]_vars
  PROVE  EdgeInv'
  <1>1. TInv'
    BY NextTInv DEF EdgeInv
  <1>2. CASE StartFunction
    BY <1>1, <1>2, KeepEdgesStart DEF EdgeInv
  <1>3. ASSUME NEW b \in Blocks, TakeBlock(b) PROVE EdgeInv'
    BY <1>1, <1>3, KeepEdgesTakeBlock DEF EdgeInv
  <1>4. ASSUME NEW f \in Func, EnterCallee(f) PROVE EdgeInv'
    BY <1>1, <1>4, KeepEdgesEnterCallee DEF EdgeInv
  <1>5. CASE Moves
    BY <1>1, <1>5, KeepEdgesMoves DEF EdgeInv
  <1>6. CASE LeaveCallee \/ FinishFunction
    BY <1>1, <1>6, KeepEdgesLeave DEF EdgeInv
  <1>7. CASE FinishBlock
    BY <1>1, <1>7, KeepEdgesFinishBlock DEF EdgeInv
  <1>8. CASE UNCHANGED vars
    <2>1. prog' = prog /\ result' = result /\ Waiting' = Waiting
      BY <1>8 DEF vars, Waiting
    <2> QED
      BY <1>1, <2>1, KeepEdgesSame DEF EdgeInv
  <1> QED
    BY <1>2, <1>3, <1>4, <1>5, <1>6, <1>7, <1>8 DEF Next, Moves, Finished

\* All activations together leave no edge stale whose target no worklist holds: when
\* the pass ends, every block has merged what its predecessors hold, although nested
\* activations wrote to the same map.
THEOREM EdgesFresh == Spec => []NoStaleEdge
  <1>1. Init => EdgeInv
    <2> SUFFICES ASSUME Init PROVE EdgeInv
      OBVIOUS
    <2>1. DOMAIN result = {}
      BY DEF Init
    <2> QED
      BY <2>1, InitTInv DEF EdgeInv, PredsSeen, NoStaleEdge
  <1>2. EdgeInv /\ [Next]_vars => EdgeInv'
    BY NextEdgeInv
  <1>3. EdgeInv => NoStaleEdge
    BY DEF EdgeInv
  <1> QED
    BY <1>1, <1>2, <1>3, PTL DEF Spec

-----------------------------------------------------------------------------
(***************************************************************************)
(* A callee's entry holds what its caller holds. It takes that in when the *)
(* callee is entered, it only grows, and the caller stands still.          *)
(***************************************************************************)
CalleesHaveBodies == \A i \in DOMAIN stack \ {1} : stack[i].fn # "malloc"

CallInv == TInv /\ CalleesHaveBodies /\ CalleeSeesCaller

\* Whatever a step merges into a callee's entry, the caller's facts stay below it.
LEMMA PairKept ==
  ASSUME CallInv, Kept
  PROVE  \A i \in 1 .. Len(stack) - 1 : \A v \in prog.value :
            stack[i].dfval[v] \subseteq result'[prog.entry[stack[i + 1].fn]].first[v]
  <1>1. TInv /\ stack \in Seq(Frame) /\ prog \in Program
    BY DEF CallInv, TInv, TypeOK
  <1>2. ASSUME NEW i \in 1 .. Len(stack) - 1, NEW v \in prog.value
        PROVE  stack[i].dfval[v] \subseteq result'[prog.entry[stack[i + 1].fn]].first[v]
    <2>1. i + 1 \in DOMAIN stack /\ i + 1 # 1
      BY <1>1, <1>2
    <2>2. stack[i + 1].fn \in Func /\ FrameOK(stack[i + 1]) /\ stack[i + 1].fn # "malloc"
      <3>1. \A k \in DOMAIN stack : stack[k] \in Frame /\ FrameOK(stack[k])
        BY <1>1 DEF TInv, StackOK
      <3>2. \A k \in DOMAIN stack : stack[k].fn \in Func
        BY <3>1 DEF Frame
      <3> QED
        BY <2>1, <3>1, <3>2 DEF CallInv, CalleesHaveBodies
    <2>3. prog.entry[stack[i + 1].fn] \in DOMAIN result
      BY <1>1, <2>2, ModuleShape DEF FrameOK
    <2> DEFINE e == prog.entry[stack[i + 1].fn]
    <2>4. stack[i].dfval[v] \subseteq result[e].first[v]
      BY <1>2 DEF CallInv, CalleeSeesCaller
    <2>5. result[e].first[v] \subseteq result'[e].first[v]
      BY <1>2, <2>3 DEF Kept, Grows
    <2> QED
      BY <2>4, <2>5
  <1> QED
    BY <1>2

\* A step of the running activation.
LEMMA KeepCallReplaced ==
  ASSUME CallInv, TInv', Kept, prog' = prog, NEW fr, Replaced(fr), fr.fn = Top.fn, Running
  PROVE  CallInv'
  <1>1. stack \in Seq(Frame) /\ stack' \in Seq(Frame') /\ TInv
    BY DEF CallInv, TInv, TypeOK
  <1>2. DOMAIN stack' = DOMAIN stack /\ Len(stack') = Len(stack)
    BY <1>1 DEF Replaced
  <1>3. \A i \in DOMAIN stack : stack'[i].fn = stack[i].fn
    BY <1>1, TopInStack DEF Replaced
  <1>4. CalleesHaveBodies'
    BY <1>2, <1>3 DEF CallInv, CalleesHaveBodies
  <1>5. \A i \in 1 .. Len(stack) - 1 : /\ i \in DOMAIN stack /\ i # Len(stack)
                                       /\ i + 1 \in DOMAIN stack
    BY <1>1
  <1>6. \A i \in 1 .. Len(stack) - 1 : stack'[i] = stack[i] /\ stack'[i + 1].fn = stack[i + 1].fn
    BY <1>3, <1>5 DEF Replaced
  <1>7. \A i \in 1 .. Len(stack') - 1 : \A v \in prog.value :
           stack'[i].dfval[v] \subseteq result'[prog.entry[stack'[i + 1].fn]].first[v]
    BY <1>2, <1>6, PairKept
  <1> QED
    BY <1>4, <1>7 DEF CallInv, CalleeSeesCaller

LEMMA KeepCallTakeBlock ==
  ASSUME CallInv, TInv', Kept, NEW b \in Blocks, TakeBlock(b)
  PROVE  CallInv'
  <1>1. TInv /\ Running /\ prog' = prog /\ Top \in Frame
    BY TopOK DEF CallInv, TakeBlock
  <1> DEFINE fr == [Top EXCEPT !.worklist = @ \ {b}, !.bb = b, !.ii = 1, !.dfval = MergePreds(b)]
  <1>2. fr.fn = Top.fn
    BY <1>1 DEF Frame
  <1>3. SetTop(fr)
    BY DEF TakeBlock
  <1> HIDE DEF fr
  <1>4. PICK g : SetTop(g) /\ g.fn = Top.fn
    BY <1>2, <1>3
  <1> QED
    BY <1>1, <1>4, SetTopReplaces, KeepCallReplaced

LEMMA KeepCallFinishBlock ==
  ASSUME CallInv, TInv', Kept, FinishBlock
  PROVE  CallInv'
  <1>1. TInv /\ Running /\ prog' = prog /\ Top \in Frame
    BY TopOK DEF CallInv, FinishBlock, InBlock
  <1> DEFINE quiet == [Top EXCEPT !.bb = NoBlock, !.dfval = NoFacts]
             more == [Top EXCEPT !.worklist = @ \cup Requeue(Top.bb),
                                 !.bb = NoBlock, !.dfval = NoFacts]
  <1>2. quiet.fn = Top.fn /\ more.fn = Top.fn
    BY <1>1 DEF Frame
  <1>3. SetTop(quiet) \/ SetTop(more)
    BY DEF FinishBlock
  <1> HIDE DEF quiet, more
  <1>4. PICK g : SetTop(g) /\ g.fn = Top.fn
    BY <1>2, <1>3
  <1> QED
    BY <1>1, <1>4, SetTopReplaces, KeepCallReplaced

LEMMA KeepCallMoves ==
  ASSUME CallInv, TInv', Kept, Moves
  PROVE  CallInv'
  <1>1. TInv /\ Running /\ prog' = prog
    BY DEF CallInv, Moves, ProcessInst, ProcessAlloca, BeginCall, BeginMemCpy, CallMalloc, EndCall,
           CopyTo, AtInst, InBlock, Calling
  <1> QED
    BY <1>1, MovesTop, KeepCallReplaced

\* An activation alone has no caller.
LEMMA KeepCallAlone ==
  ASSUME TInv', DOMAIN stack' \subseteq {1}
  PROVE  CallInv'
  <1>1. stack' \in Seq(Frame')
    BY DEF TInv, TypeOK
  <1>2. 1 .. Len(stack') - 1 = {}
    BY <1>1
  <1> QED
    BY <1>2 DEF CallInv, CalleesHaveBodies, CalleeSeesCaller

LEMMA KeepCallEnterCallee ==
  ASSUME CallInv, TInv', Kept, NEW f \in Func, EnterCallee(f)
  PROVE  CallInv'
  <1>1. TInv /\ prog' = prog /\ f # "malloc"
    BY DEF CallInv, EnterCallee
  <1>2. PICK n \in Nat \ {0}, fr \in Frame :
           /\ n = Len(stack) /\ DOMAIN stack = 1 .. n
           /\ fr.fn = Top.fn
           /\ fr.dfval = PassArguments(Top.dfval, f, Inst.src)
           /\ stack' \in Seq(Frame) /\ DOMAIN stack' = 1 .. n + 1
           /\ \A i \in 1 .. n - 1 : stack'[i] = stack[i]
           /\ stack'[n] = fr /\ stack'[n + 1] = Activation(f)
    BY <1>1, EnterStack
  <1>3. \A v \in prog.value : fr.dfval[v] \subseteq result'[prog.entry[f]].first[v]
    BY <1>1, <1>2, EnterResult
  <1>4. /\ \A i \in 1 .. n : stack'[i].fn = stack[i].fn
        /\ stack'[n + 1].fn = f
    <2>1. \A i \in 1 .. n : i \in 1 .. n - 1 \/ i = n
      OBVIOUS
    <2> QED
      BY <1>2, <2>1 DEF Top, Activation
  <1>5. CalleesHaveBodies'
    <2>1. \A i \in 1 .. n + 1 : i \in 1 .. n \/ i = n + 1
      OBVIOUS
    <2> QED
      BY <1>1, <1>2, <1>4, <2>1 DEF CallInv, CalleesHaveBodies
  <1>6. Len(stack') - 1 = n
    <2>1. Len(stack') = n + 1
      BY <1>2
    <2>2. \A m \in Nat : m = n + 1 => m - 1 = n
      OBVIOUS
    <2> QED
      BY <2>1, <2>2
  <1>7. ASSUME NEW i \in 1 .. n, NEW v \in prog.value
        PROVE  stack'[i].dfval[v] \subseteq result'[prog.entry[stack'[i + 1].fn]].first[v]
    <2>1. CASE i = n
      BY <1>2, <1>3, <1>4, <1>7, <2>1
    <2>2. CASE i # n
      <3>1. i \in 1 .. n - 1 /\ i + 1 \in 1 .. n
        BY <1>7, <2>2
      <3>2. i \in 1 .. Len(stack) - 1
        BY <1>2, <3>1
      <3>3. stack[i].dfval[v] \subseteq result'[prog.entry[stack[i + 1].fn]].first[v]
        BY <1>7, <3>2, PairKept
      <3>4. stack'[i] = stack[i] /\ stack'[i + 1].fn = stack[i + 1].fn
        BY <1>2, <1>4, <3>1
      <3> QED
        BY <3>3, <3>4
    <2> QED
      BY <2>1, <2>2
  <1> QED
    BY <1>1, <1>5, <1>6, <1>7 DEF CallInv, CalleeSeesCaller

LEMMA KeepCallLeave ==
  ASSUME CallInv, TInv', Kept, LeaveCallee
  PROVE  CallInv'
  <1>1. TInv /\ prog' = prog
    BY DEF CallInv, LeaveCallee
  <1>2. PICK n \in Nat \ {0} :
           /\ DOMAIN stack = 1 .. n + 1 /\ Len(stack) = n + 1
           /\ DOMAIN stack' = 1 .. n /\ Len(stack') = n
           /\ \A i \in 1 .. n - 1 : stack'[i] = stack[i]
           /\ stack'[n].fn = stack[n].fn
    BY <1>1, Popped
  <1>3. \A i \in 1 .. n : i \in 1 .. n + 1 /\ stack'[i].fn = stack[i].fn
    <2>1. \A i \in 1 .. n : (i \in 1 .. n - 1 \/ i = n) /\ i \in 1 .. n + 1
      OBVIOUS
    <2> QED
      BY <1>2, <2>1
  <1>4. CalleesHaveBodies'
    BY <1>2, <1>3 DEF CallInv, CalleesHaveBodies
  <1>5. ASSUME NEW i \in 1 .. n - 1, NEW v \in prog.value
        PROVE  stack'[i].dfval[v] \subseteq result'[prog.entry[stack'[i + 1].fn]].first[v]
    <2>1. i \in 1 .. (n + 1) - 1 /\ i + 1 \in 1 .. n
      BY <1>5
    <2>2. stack[i].dfval[v] \subseteq result'[prog.entry[stack[i + 1].fn]].first[v]
      BY <1>2, <1>5, <2>1, PairKept
    <2> QED
      BY <1>2, <1>3, <1>5, <2>1, <2>2
  <1> QED
    BY <1>1, <1>2, <1>4, <1>5 DEF CallInv, CalleeSeesCaller

LEMMA NextCallInv ==
  ASSUME CallInv, [Next]_vars
  PROVE  CallInv'
  <1>1. TInv' /\ Kept
    BY NextTInv, StepKept DEF CallInv
  <1>2. CASE StartFunction
    BY <1>1, <1>2, KeepCallAlone DEF StartFunction
  <1>3. ASSUME NEW b \in Blocks, TakeBlock(b) PROVE CallInv'
    BY <1>1, <1>3, KeepCallTakeBlock
  <1>4. ASSUME NEW f \in Func, EnterCallee(f) PROVE CallInv'
    BY <1>1, <1>4, KeepCallEnterCallee
  <1>5. CASE Moves
    BY <1>1, <1>5, KeepCallMoves
  <1>6. CASE LeaveCallee
    BY <1>1, <1>6, KeepCallLeave
  <1>7. CASE FinishFunction
    BY <1>1, <1>7, KeepCallAlone DEF FinishFunction
  <1>8. CASE FinishBlock
    BY <1>1, <1>8, KeepCallFinishBlock
  <1>9. CASE UNCHANGED vars
    BY <1>1, <1>9 DEF CallInv, CalleesHaveBodies, CalleeSeesCaller, vars
  <1> QED
    BY <1>2, <1>3, <1>4, <1>5, <1>6, <1>7, <1>8, <1>9 DEF Next, Moves, Finished

\* While a callee is analysed, at whatever depth, its entry holds at least what the
\* caller holds at the call: processCallInst merges it in before it starts the solver,
\* and nothing the callee or its own callees do takes it away.
THEOREM CallerSeen == Spec => []CalleeSeesCaller
  <1>1. Init => CallInv
    <2> SUFFICES ASSUME Init PROVE CallInv
      OBVIOUS
    <2>1. stack = <<>>
      BY DEF Init
    <2> QED
      BY <2>1, InitTInv DEF CallInv, CalleesHaveBodies, CalleeSeesCaller
  <1>2. CallInv /\ [Next]_vars => CallInv'
    BY NextCallInv
  <1>3. CallInv => CalleeSeesCaller
    BY DEF CallInv
  <1> QED
    BY <1>1, <1>2, <1>3, PTL DEF Spec
-----------------------------------------------------------------------------
(***************************************************************************)
(* Sites. The n-th allocation seen gets the n-th constant, and keeps it.   *)
(***************************************************************************)
SitesCounted ==
    \A v \in DOMAIN AllocMap : \E m \in 1 .. Cardinality(DOMAIN AllocMap) : AllocMap[v] = prog.constant[m]

SiteInv == TInv /\ SitesApart /\ SitesCounted

LEMMA KeepSitesAlloc ==
  ASSUME SiteInv, prog' = prog, NEW v \in Allocations(prog), MapAllocSite(v)
  PROVE  SitesApart' /\ SitesCounted'
  <1> DEFINE D == DOMAIN AllocMap
             n == Cardinality(D)
  <1>1. /\ IsFiniteSet(Allocations(prog))
        /\ Cardinality(Allocations(prog)) <= Len(prog.constant)
        /\ prog.constant \in Seq(prog.value)
        /\ \A i, j \in DOMAIN prog.constant : prog.constant[i] = prog.constant[j] => i = j
    BY ModuleShape DEF IsModule, SiteInv, TInv, TypeOK
  <1>2. D \subseteq Allocations(prog) /\ D \cup {v} \subseteq Allocations(prog)
    BY DEF SiteInv, TInv, TypeOK
  <1>3. IsFiniteSet(D) /\ n \in Nat /\ Cardinality(Allocations(prog)) \in Nat
    BY <1>1, <1>2, FS_Subset, FS_CardinalityType
  <1>4. AllocMap' = [x \in D \cup {v} |-> IF x = v THEN SiteOf(v) ELSE AllocMap[x]]
    BY DEF MapAllocSite
  <1>5. CASE v \in D
    <2>1. DOMAIN AllocMap' = D /\ \A x \in D : AllocMap'[x] = AllocMap[x]
      BY <1>4, <1>5 DEF SiteOf
    <2> QED
      BY <2>1 DEF SiteInv, SitesApart, SitesCounted
  <1>6. CASE v \notin D
    <2>1. Cardinality(D \cup {v}) = n + 1
      BY <1>3, <1>6, FS_AddElement
    <2>2. Cardinality(D \cup {v}) <= Cardinality(Allocations(prog))
      BY <1>1, <1>2, FS_Subset
    <2>3. 1 .. n + 1 \subseteq DOMAIN prog.constant
      BY <1>1, <1>3, <2>1, <2>2
    <2>4. DOMAIN AllocMap' = D \cup {v} /\ AllocMap'[v] = prog.constant[n + 1]
      BY <1>4, <1>6 DEF SiteOf
    <2>5. \A x \in D : x # v /\ AllocMap'[x] = AllocMap[x]
      BY <1>4, <1>6
    <2>6. \A x \in D : \E m \in 1 .. n : AllocMap[x] = prog.constant[m]
      BY DEF SiteInv, SitesCounted
    <2>7. \A x \in D : AllocMap[x] # prog.constant[n + 1]
      <3> TAKE x \in D
      <3>1. PICK m \in 1 .. n : AllocMap[x] = prog.constant[m]
        BY <2>6
      <3>2. m # n + 1 /\ m \in 1 .. n + 1 /\ n + 1 \in 1 .. n + 1
        BY <1>3
      <3> QED
        BY <1>1, <2>3, <3>1, <3>2
    <2>8. SitesApart'
      BY <2>4, <2>5, <2>7 DEF SiteInv, SitesApart
    <2>9. \A x \in D : \E m \in 1 .. n + 1 : AllocMap'[x] = prog.constant[m]
      <3> TAKE x \in D
      <3>1. PICK m \in 1 .. n : AllocMap[x] = prog.constant[m]
        BY <2>6
      <3>2. m \in 1 .. n + 1
        BY <1>3
      <3> QED
        BY <2>5, <3>1, <3>2
    <2>10. \A x \in DOMAIN AllocMap' : \E m \in 1 .. n + 1 : AllocMap'[x] = prog.constant[m]
      <3>1. n + 1 \in 1 .. n + 1
        BY <1>3
      <3> QED
        BY <2>4, <2>9, <3>1
    <2>11. Cardinality(DOMAIN AllocMap') = n + 1
      BY <2>1, <2>4
    <2> QED
      BY <2>8, <2>10, <2>11 DEF SitesCounted
  <1> QED
    BY <1>5, <1>6

LEMMA NextSiteInv ==
  ASSUME SiteInv, [Next]_vars
  PROVE  SiteInv'
  <1>1. TInv'
    BY NextTInv DEF SiteInv
  <1>2. CASE prog' = prog /\ AllocMap' = AllocMap
    BY <1>1, <1>2 DEF SiteInv, SitesApart, SitesCounted
  <1>3. ASSUME prog' = prog, NEW v \in Allocations(prog), MapAllocSite(v)
        PROVE  SiteInv'
    BY <1>1, <1>3, KeepSitesAlloc DEF SiteInv
  <1>4. CASE ProcessAlloca
    <2>1. Inst.dst \in Allocations(prog)
      BY <1>4, InstOK DEF ProcessAlloca, SiteInv
    <2> QED
      BY <1>3, <1>4, <2>1 DEF ProcessAlloca
  <1>5. CASE CallMalloc
    <2>1. Inst.dst \in Allocations(prog)
      BY <1>5, CallingOK DEF CallMalloc, Calling, SiteInv
    <2> QED
      BY <1>3, <1>5, <2>1 DEF CallMalloc
  <1>6. ~ProcessAlloca /\ ~CallMalloc => prog' = prog /\ AllocMap' = AllocMap
    BY DEF Next, vars, StartFunction, TakeBlock, ProcessInst, BeginCall, BeginMemCpy, CopyTo,
           EnterCallee, LeaveCallee, EndCall, FinishBlock, FinishFunction, Finished
  <1> QED
    BY <1>2, <1>4, <1>5, <1>6

\* For every module and every order of the analysis, no two allocations share a site.
THEOREM OwnSites == Spec => []SitesApart
  <1>1. Init => SiteInv
    BY InitTInv DEF Init, SiteInv, SitesApart, SitesCounted
  <1>2. SiteInv /\ [Next]_vars => SiteInv'
    BY NextSiteInv
  <1>3. SiteInv => SitesApart
    BY DEF SiteInv
  <1> QED
    BY <1>1, <1>2, <1>3, PTL DEF Spec

-----------------------------------------------------------------------------
(***************************************************************************)
(* A call does not make a value point nowhere: what processCallInst puts   *)
(* in place of the caller's facts. It rests on what is above: a callee's   *)
(* entry holds what its caller holds, and an activation ends with no edge  *)
(* of its function stale.                                                  *)
(***************************************************************************)
\* Whatever points somewhere in S points somewhere in T.
Keeps(S, T) == \A v \in DOMAIN S : S[v] # {} => T[v] # {}

\* The instruction an activation is at, and whether that is the call of f.
InstOf(p, fr) == p.code[fr.bb][fr.ii]
Calls(p, C, fr, f) ==
    fr.calling /\ InstOf(p, fr).op = "call" /\ f \in C[InstOf(p, fr).dst]

\* A loop over callees runs over callees of its call; if it has merged an exit, one
\* of them has a body. A memcpy merges nothing.
FrameKeeps(p, C, fr) ==
    fr.calling =>
        /\ \/ fr.out = [v \in p.value |-> {}]
           \/ InstOf(p, fr).op = "call" /\ ~(C[InstOf(p, fr).dst] \subseteq {"malloc"})
        /\ InstOf(p, fr).op = "call" => fr.todo \subseteq C[InstOf(p, fr).dst]

\* The value in hand keeps what its block started with; what a call will put in its
\* place keeps what it holds.
HandKeeps(r, fr) == fr.bb # NoBlock => Keeps(r[fr.bb].first, fr.dfval)
OutKeeps(p, fr) ==
    fr.calling => fr.out = [v \in p.value |-> {}] \/ Keeps(fr.dfval, fr.out)

\* A block no activation has waiting or in hand has been run through.
InHand == {stack[i].bb : i \in DOMAIN stack}
BlocksKeep ==
    \A b \in DOMAIN result \ (Waiting \cup InHand) : Keeps(result[b].first, result[b].second)

FramesKeep ==
    \A i \in DOMAIN stack : HandKeeps(result, stack[i]) /\ FrameKeeps(prog, CalleeMap, stack[i])

CallersCall == \A i \in 1 .. Len(stack) - 1 : Calls(prog, CalleeMap, stack[i], stack[i + 1].fn)

TopKeeps == Running => OutKeeps(prog, Top)

KeepInv ==
    /\ EdgeInv /\ CallInv
    /\ BlocksKeep /\ FramesKeep /\ CallersCall /\ TopKeeps

\* When the theorem holds.
Regular == AnalysedOnce /\ MallocAlone /\ ReachesExit(prog)

-----------------------------------------------------------------------------
(***************************************************************************)
(* No instruction takes all a value points to away.                        *)
(***************************************************************************)
LEMMA KeepsSelf == \A S : Keeps(S, S)
  BY DEF Keeps

LEMMA KeepsMore ==
  ASSUME NEW S \in Facts, NEW T \in Facts, \A v \in prog.value : S[v] \subseteq T[v]
  PROVE  Keeps(S, T)
  BY DEF Keeps, Facts

LEMMA KeepsOn ==
  ASSUME NEW S \in Facts, NEW T \in Facts, NEW U, Keeps(S, T), Keeps(T, U)
  PROVE  Keeps(S, U)
  BY DEF Keeps, Facts

LEMMA UpdateKeeps ==
  ASSUME NEW S \in Facts, NEW dst, NEW src \in prog.value, NEW strong \in BOOLEAN
  PROVE  Keeps(S, Update(S, dst, src, strong))
  BY DEF Update, Facts, Keeps

LEMMA FirstStrongKeeps ==
  ASSUME NEW S \in Facts, NEW dst, NEW first \in prog.value, NEW rest \in SUBSET prog.value
  PROVE  Keeps(S, UpdateFirstStrong(S, dst, first, rest))
  <1> DEFINE T == Update(S, dst, first, TRUE)
             U == [T EXCEPT ![dst] = T[dst] \cup UNION {T[v] : v \in rest}]
  <1>1. T \in Facts /\ Keeps(S, T)
    BY UpdateOK, UpdateKeeps
  <1>2. UpdateFirstStrong(S, dst, first, rest) = U /\ U \in Facts
    BY FirstStrongOK DEF UpdateFirstStrong
  <1>3. \A v \in prog.value : T[v] \subseteq U[v]
    <2> HIDE DEF T
    <2> QED
      BY <1>1 DEF Facts
  <1> HIDE DEF T, U
  <1>4. Keeps(T, U)
    BY <1>1, <1>2, <1>3, KeepsMore
  <1> QED
    BY <1>1, <1>2, <1>4, KeepsOn

LEMMA LoadKeeps ==
  ASSUME NEW S \in Facts, NEW a, NEW b \in prog.value, NEW T \in LoadOutcomes(S, a, b)
  PROVE  Keeps(S, T)
  <1>1. S[b] \subseteq prog.value
    BY DEF Facts
  <1>2. ASSUME NEW v \in S[b]
        PROVE  Keeps(S, UpdateFirstStrong(S, a, v, S[b] \ {v}))
    BY <1>1, <1>2, FirstStrongKeeps
  <1> QED
    BY <1>2, KeepsSelf DEF LoadOutcomes

LEMMA StoreKeeps ==
  ASSUME NEW S \in Facts, NEW p \in prog.value, NEW v \in prog.value
  PROVE  Keeps(S, StoreOutcome(S, p, v))
  <1> DEFINE W == [x \in DOMAIN S |-> IF x \in S[p] THEN S[x] \cup S[v] ELSE S[x]]
  <1>1. Keeps(S, W)
    BY DEF Keeps, Facts
  <1>2. \A x : Keeps(S, Update(S, x, v, TRUE))
    BY UpdateKeeps
  <1> QED
    BY <1>1, <1>2 DEF StoreOutcome

LEMMA CopyKeeps ==
  ASSUME NEW S \in Facts, NEW x, NEW s \in prog.value, NEW T \in CopyOutcomes(S, x, s)
  PROVE  Keeps(S, T)
  <1>1. S[s] \subseteq prog.value
    BY DEF Facts
  <1>2. ASSUME NEW v \in S[s]
        PROVE  Keeps(S, UpdateFirstStrong(S, x, v, S[s] \ {v}))
    BY <1>1, <1>2, FirstStrongKeeps
  <1> QED
    BY <1>2 DEF CopyOutcomes

LEMMA OutcomesKeep ==
  ASSUME NEW S \in Facts, NEW inst, IsInstr(prog, inst),
         inst.op \notin {"alloca", "call", "memcpy"},
         NEW callers, NEW T \in Outcomes(S, inst, callers)
  PROVE  Keeps(S, T)
  <1>1. CASE inst.op = "load"
    BY <1>1, LoadKeeps DEF Outcomes, IsInstr
  <1>2. CASE inst.op = "store"
    <2>1. inst.dst \in prog.value /\ inst.src[1] \in prog.value
      BY <1>2 DEF IsInstr
    <2> QED
      BY <1>2, <2>1, StoreKeeps DEF Outcomes
  <1>3. CASE inst.op \in {"cast", "gep"}
    <2>1. inst.src[1] \in prog.value
      BY <1>3 DEF IsInstr
    <2>2. Outcomes(S, inst, callers) = {Update(S, inst.dst, inst.src[1], TRUE)}
      BY <1>3 DEF Outcomes
    <2> QED
      BY <2>1, <2>2, UpdateKeeps
  <1>4. CASE inst.op = "phi"
    <2>1. inst.src \in Seq(prog.value) /\ inst.src # <<>>
      BY <1>4 DEF IsInstr
    <2>2. inst.src[1] \in prog.value /\ {inst.src[i] : i \in 2 .. Len(inst.src)} \in SUBSET prog.value
      BY <2>1
    <2> QED
      BY <1>4, <2>2, FirstStrongKeeps DEF Outcomes, PhiOutcome
  <1>5. CASE inst.op = "ret"
    <2>1. \A v : Keeps(S, ReturnOutcome(S, callers, v))
      BY DEF Keeps, ReturnOutcome, Facts
    <2> QED
      BY <1>5, <2>1, KeepsSelf DEF Outcomes
  <1> QED
    BY <1>1, <1>2, <1>3, <1>4, <1>5 DEF IsInstr

LEMMA SiteKeeps ==
  ASSUME NEW S \in Facts, NEW a, NEW site
  PROVE  Keeps(S, [S EXCEPT ![a] = {site}])
  BY DEF Keeps, Facts

LEMMA PassKeeps ==
  ASSUME NEW S \in Facts, NEW f, NEW args
  PROVE  Keeps(S, PassArguments(S, f, args))
  <1> DEFINE passed(v) == UNION {S[args[i]] : i \in {j \in DOMAIN args : prog.param[f][j] = v}}
  <1>1. PassArguments(S, f, args) = [v \in DOMAIN S |-> IF passed(v) = {} THEN S[v] ELSE passed(v)]
    BY DEF PassArguments
  <1> HIDE DEF passed
  <1> QED
    BY <1>1 DEF Keeps, Facts

LEMMA MergeKeeps ==
  ASSUME NEW S \in Facts, NEW T \in Facts, NEW U \in Facts, Keeps(S, U)
  PROVE  Keeps(S, Merge(T, U))
  BY DEF Keeps, Merge, Facts

-----------------------------------------------------------------------------
(***************************************************************************)
(* Activations of different functions do not get in each other's way.      *)
(***************************************************************************)
Links(C, D) == \A c \in CallSites : C[c] \subseteq D[c]

\* What an activation stands at while it handles a call.
LEMMA CallShape ==
  ASSUME TInv, NEW fr \in Frame, FrameOK(fr), fr.calling
  PROVE  /\ InstOf(prog, fr).op \in {"call", "memcpy"}
         /\ InstOf(prog, fr).op = "call" => InstOf(prog, fr).dst \in CallSites
  <1>1. /\ fr.ii \in Nat \ {0} /\ fr.bb \in Blocks /\ fr.ii <= Len(prog.code[fr.bb])
        /\ InstOf(prog, fr).op \in {"call", "memcpy"}
    BY DEF Frame, FrameOK, InstOf
  <1> QED
    BY <1>1, InstShape DEF TInv, TypeOK, InstOf, CallSites

LEMMA MoreCallees ==
  ASSUME TInv, NEW fr \in Frame, FrameOK(fr), NEW C, NEW D, Links(C, D)
  PROVE  /\ FrameKeeps(prog, C, fr) => FrameKeeps(prog, D, fr)
         /\ \A f : Calls(prog, C, fr, f) => Calls(prog, D, fr, f)
  <1>1. CASE fr.calling
    <2>1. InstOf(prog, fr).op = "call" => C[InstOf(prog, fr).dst] \subseteq D[InstOf(prog, fr).dst]
      BY <1>1, CallShape DEF Links
    <2> QED
      BY <2>1 DEF FrameKeeps, Calls
  <1>2. CASE ~fr.calling
    BY <1>2 DEF FrameKeeps, Calls
  <1> QED
    BY <1>1, <1>2

LEMMA StackShape ==
  ASSUME TInv
  PROVE  /\ \A i \in DOMAIN stack : stack[i] \in Frame /\ FrameOK(stack[i])
         /\ \A b \in DOMAIN result : result[b].first \in Facts /\ result[b].second \in Facts
         /\ DOMAIN result \subseteq Blocks /\ NoBlock \notin Blocks /\ prog \in Program
  BY ModuleShape DEF TInv, TypeOK, StackOK

\* The blocks of different functions are different.
LEMMA BlocksApart ==
  ASSUME prog \in Program
  PROVE  \A f, g \in Func : f # g => prog.block[f] \cap prog.block[g] = {}
  <1>1. IsModule(prog)
    BY ModuleShape
  <1> QED
    BY <1>1, Zenon DEF IsModule, Func

\* The other activations neither hold nor wait for a block of a function they are
\* not in.
LEMMA Apart ==
  ASSUME TInv, NEW f \in Func, NEW b \in prog.block[f],
         NEW i \in DOMAIN stack, stack[i].fn # f
  PROVE  stack[i].bb # b /\ b \notin stack[i].worklist
  <1>1. stack[i] \in Frame /\ FrameOK(stack[i]) /\ prog \in Program /\ NoBlock \notin Blocks
    BY StackShape
  <1>2. stack[i].fn \in Func
    BY <1>1 DEF Frame
  <1>3. b \notin prog.block[stack[i].fn] /\ b \in Blocks
    BY <1>1, <1>2, BlocksApart, ModuleShape
  <1> QED
    BY <1>1, <1>3 DEF FrameOK

LEMMA OthersApart ==
  ASSUME TInv, AnalysedOnce, Running, NEW b \in prog.block[Top.fn]
  PROVE  \A i \in DOMAIN stack \ {Len(stack)} : stack[i].bb # b /\ b \notin stack[i].worklist
  <1>1. Top.fn \in Func /\ Len(stack) \in DOMAIN stack /\ Top = stack[Len(stack)]
    BY TopOK, TopInStack DEF Frame
  <1>2. \A i \in DOMAIN stack \ {Len(stack)} : stack[i].fn # Top.fn
    BY <1>1 DEF AnalysedOnce
  <1> QED
    BY <1>1, <1>2, Apart

-----------------------------------------------------------------------------
(***************************************************************************)
(* A callee hands back what it was given: from its entry, where its caller *)
(* left it, along edges that are not stale, through blocks that have been  *)
(* run through, to its exit.                                               *)
(***************************************************************************)
LEMMA ExitReached ==
  ASSUME KeepInv, Regular, LeaveCallee, NEW n \in Nat \ {0}, Len(stack) = n + 1
  PROVE  Keeps(stack[n].dfval, ExitFacts(Top.fn))
  <1> DEFINE f == Top.fn
             S == stack[n].dfval
             X == {b \in prog.block[f] : Keeps(S, result[b].first)}
  <1>1. TInv /\ Running /\ Top \in Frame /\ FrameOK(Top) /\ Top.bb = NoBlock /\ Top.worklist = {}
    <2>1. TInv /\ Running
      BY DEF KeepInv, EdgeInv, LeaveCallee, Running, TInv, TypeOK
    <2> QED
      BY <2>1, TopOK DEF LeaveCallee
  <1>2. /\ n \in DOMAIN stack /\ n + 1 \in DOMAIN stack /\ Top = stack[n + 1]
        /\ n \in 1 .. Len(stack) - 1 /\ n + 1 # 1
    <2>1. stack \in Seq(Frame)
      BY <1>1 DEF TInv, TypeOK
    <2> QED
      BY <2>1 DEF Top
  <1>3. S \in Facts /\ f \in Func /\ f # "malloc" /\ prog.block[f] \subseteq DOMAIN result
    <2>1. stack[n] \in Frame /\ stack[n + 1] \in Frame
      BY <1>1, <1>2, StackShape
    <2>2. f # "malloc"
      BY <1>2 DEF KeepInv, CallInv, CalleesHaveBodies
    <2> QED
      BY <1>1, <2>1, <2>2 DEF Frame, FrameOK
  <1>4. prog.entry[f] \in X
    <2>1. prog.entry[f] \in prog.block[f]
      BY <1>1, <1>3, ModuleShape DEF TInv, TypeOK
    <2>2. \A v \in prog.value : S[v] \subseteq result[prog.entry[f]].first[v]
      BY <1>2 DEF KeepInv, CallInv, CalleeSeesCaller
    <2>3. result[prog.entry[f]].first \in Facts
      BY <1>1, <1>3, <2>1, StackShape
    <2> HIDE DEF S, f
    <2> QED
      BY <1>3, <2>1, <2>2, <2>3, KeepsMore
  <1>5. ASSUME NEW b \in prog.block[f]
        PROVE  b \in DOMAIN result \ (Waiting \cup InHand)
    <2>1. \A i \in DOMAIN stack \ {n + 1} : stack[i].bb # b /\ b \notin stack[i].worklist
      BY <1>1, <1>5, OthersApart DEF Regular
    <2>2. stack[n + 1].worklist = {} /\ stack[n + 1].bb = NoBlock
      BY <1>1, <1>2
    <2>3. b # NoBlock /\ b \in DOMAIN result
      BY <1>1, <1>3, <1>5, StackShape
    <2> QED
      BY <2>1, <2>2, <2>3 DEF Waiting, InHand
  <1>6. ASSUME NEW b \in X
        PROVE  Keeps(S, result[b].second)
    <2>1. /\ Keeps(S, result[b].first) /\ Keeps(result[b].first, result[b].second)
          /\ b \in DOMAIN result
      BY <1>5, <1>6 DEF KeepInv, BlocksKeep
    <2>2. result[b].first \in Facts
      BY <1>1, <2>1, StackShape
    <2> HIDE DEF S
    <2> QED
      BY <1>3, <2>1, <2>2, KeepsOn
  <1>7. ASSUME NEW b \in X, NEW c \in prog.succ[b]
        PROVE  c \in X
    <2>1. c \in prog.block[f] /\ b \in Pred(c) /\ b \in DOMAIN result
      <3>1. prog.succ[b] \subseteq prog.block[f] /\ b \in Blocks
        BY <1>1, <1>3, <1>7, FlowInFunction, StackShape
      <3> QED
        BY <1>3, <1>7, <3>1 DEF Pred
    <2>2. c \in DOMAIN result \ Waiting
      BY <1>5, <2>1
    <2>3. \A v \in prog.value : result[b].second[v] \subseteq result[c].first[v]
      BY <2>1, <2>2 DEF KeepInv, EdgeInv, NoStaleEdge
    <2>4. result[b].second \in Facts /\ result[c].first \in Facts
      BY <1>1, <2>1, <2>2, StackShape
    <2>5. Keeps(S, result[b].second)
      BY <1>6, <1>7
    <2> HIDE DEF S, f
    <2>6. Keeps(result[b].second, result[c].first)
      BY <2>3, <2>4, KeepsMore
    <2>7. Keeps(S, result[c].first)
      BY <1>3, <2>4, <2>5, <2>6, KeepsOn
    <2> QED
      BY <2>1, <2>7
  <1>8. prog.exit[f] # NoBlock /\ prog.exit[f] \in X
    <2>1. prog.block[f] # {} /\ f \in FuncsOf(prog)
      BY <1>3, <1>4 DEF Func
    <2>2. X \in SUBSET prog.block[f] /\ \A b \in X : prog.succ[b] \subseteq X
      BY <1>7
    <2> HIDE DEF X, f
    <2> QED
      BY <1>4, <2>1, <2>2 DEF Regular, ReachesExit
  <1>9. Keeps(S, result[prog.exit[f]].second)
    BY <1>6, <1>8
  <1> HIDE DEF S, X
  <1> QED
    BY <1>8, <1>9 DEF ExitFacts, S

-----------------------------------------------------------------------------
(***************************************************************************)
(* One lemma per kind of step.                                             *)
(***************************************************************************)
\* The running activation becomes fr, the others stay as they are.
LEMMA HoldReplaced ==
  ASSUME KeepInv, EdgeInv', CallInv', BlocksKeep', prog' = prog, Running,
         Links(CalleeMap, CalleeMap'), NEW fr, Replaced(fr), fr.fn = Top.fn,
         \A i \in DOMAIN stack \ {Len(stack)} : HandKeeps(result', stack[i]),
         HandKeeps(result', fr), FrameKeeps(prog, CalleeMap', fr), OutKeeps(prog, fr)
  PROVE  KeepInv'
  <1>1. TInv /\ stack \in Seq(Frame) /\ stack' \in Seq(Frame')
    BY DEF KeepInv, EdgeInv, TInv, TypeOK
  <1>2. /\ DOMAIN stack' = DOMAIN stack /\ Len(stack') = Len(stack)
        /\ Len(stack) \in DOMAIN stack /\ Top = stack[Len(stack)]
    BY <1>1, TopInStack DEF Replaced
  <1>3. ASSUME NEW i \in DOMAIN stack
        PROVE  HandKeeps(result', stack'[i]) /\ FrameKeeps(prog, CalleeMap', stack'[i])
    <2>1. CASE i = Len(stack)
      BY <2>1 DEF Replaced
    <2>2. CASE i # Len(stack)
      <3>1. stack[i] \in Frame /\ FrameOK(stack[i]) /\ FrameKeeps(prog, CalleeMap, stack[i])
        BY <1>1, StackShape DEF KeepInv, FramesKeep
      <3>2. FrameKeeps(prog, CalleeMap', stack[i])
        BY <1>1, <3>1, MoreCallees
      <3> QED
        BY <2>2, <3>2 DEF Replaced
    <2> QED
      BY <2>1, <2>2
  <1>4. FramesKeep'
    BY <1>2, <1>3 DEF FramesKeep
  <1>5. \A i \in DOMAIN stack : stack'[i].fn = stack[i].fn
    BY <1>2 DEF Replaced
  <1>6. ASSUME NEW i \in 1 .. Len(stack) - 1
        PROVE  Calls(prog, CalleeMap', stack'[i], stack'[i + 1].fn)
    <2>1. i \in DOMAIN stack /\ i + 1 \in DOMAIN stack /\ i # Len(stack)
      BY <1>1, <1>6
    <2>2. stack[i] \in Frame /\ FrameOK(stack[i]) /\ Calls(prog, CalleeMap, stack[i], stack[i + 1].fn)
      BY <1>1, <1>6, <2>1, StackShape DEF KeepInv, CallersCall
    <2>3. Calls(prog, CalleeMap', stack[i], stack[i + 1].fn)
      BY <1>1, <2>2, MoreCallees
    <2> QED
      BY <1>5, <2>1, <2>3 DEF Replaced
  <1>7. CallersCall'
    BY <1>2, <1>6 DEF CallersCall
  <1>8. TopKeeps'
    <2>1. Top' = fr
      BY <1>2 DEF Top, Replaced
    <2> QED
      BY <2>1 DEF TopKeeps
  <1> QED
    BY <1>4, <1>7, <1>8 DEF KeepInv

\* What another activation has in hand, when only blocks of other functions change.
LEMMA HandsKept ==
  ASSUME KeepInv,
         \A b \in DOMAIN result : b \in InHand => result'[b].first = result[b].first
  PROVE  \A i \in DOMAIN stack : HandKeeps(result', stack[i])
  <1>1. ASSUME NEW i \in DOMAIN stack, stack[i].bb # NoBlock
        PROVE  stack[i].bb \in DOMAIN result /\ stack[i].bb \in InHand
    BY <1>1, StackShape DEF KeepInv, EdgeInv, FrameOK, InHand
  <1> QED
    BY <1>1 DEF HandKeeps, KeepInv, FramesKeep

LEMMA HoldTakeBlock ==
  ASSUME KeepInv, EdgeInv', CallInv', AnalysedOnce, NEW b \in Blocks, TakeBlock(b)
  PROVE  KeepInv'
  <1>1. TInv /\ Running /\ prog' = prog /\ CalleeMap' = CalleeMap /\ Top \in Frame /\ FrameOK(Top)
    BY TopOK DEF KeepInv, EdgeInv, TakeBlock
  <1>2. PICK M : M = MergePreds(b)
    OBVIOUS
  <1> DEFINE fr == [Top EXCEPT !.worklist = @ \ {b}, !.bb = b, !.ii = 1, !.dfval = M]
  <1>3. /\ fr.fn = Top.fn /\ fr.bb = b /\ fr.worklist = Top.worklist \ {b}
        /\ fr.calling = Top.calling /\ fr.dfval = M
    BY <1>1 DEF Frame
  <1>4. SetTop(fr)
    BY <1>2 DEF TakeBlock
  <1> HIDE DEF fr
  <1>5. Replaced(fr)
    BY <1>1, <1>4, SetTopReplaces
  <1>6. ~fr.calling /\ Top.bb = NoBlock /\ b \in prog.block[Top.fn]
    BY <1>1, <1>3 DEF FrameOK, TakeBlock
  <1>7. /\ b \in DOMAIN result /\ DOMAIN result' = DOMAIN result
        /\ \A c \in DOMAIN result \ {b} : result'[c] = result[c]
    BY <1>1, TakeResult
  <1>8. result'[b].first = M
    <2>1. result \in [DOMAIN result -> Entry]
      BY <1>1 DEF TInv, TypeOK, Entry
    <2>2. result' = [result EXCEPT ![b].first = M]
      BY <1>2 DEF TakeBlock
    <2> QED
      BY <1>7, <2>1, <2>2 DEF Entry
  <1>9. HandKeeps(result', fr)
    BY <1>3, <1>8, KeepsSelf DEF HandKeeps
  <1>10. \A i \in DOMAIN stack \ {Len(stack)} : HandKeeps(result', stack[i])
    <2>1. b \notin InHand
      <3>1. \A i \in DOMAIN stack \ {Len(stack)} : stack[i].bb # b
        BY <1>1, <1>6, OthersApart
      <3>2. NoBlock # b /\ Top = stack[Len(stack)]
        BY <1>1, <1>7, StackShape, TopInStack
      <3> QED
        BY <1>6, <3>1, <3>2 DEF InHand
    <2> QED
      BY <1>7, <2>1, HandsKept
  <1>11. BlocksKeep'
    <2>1. Waiting \subseteq Waiting' \cup {b}
      BY <1>1, <1>3, <1>5, WaitingReplaced
    <2>2. InHand \subseteq InHand' \cup {NoBlock} /\ b \in InHand'
      BY <1>1, <1>3, <1>5, <1>6, TopInStack DEF InHand, Replaced
    <2>3. ASSUME NEW c \in DOMAIN result' \ (Waiting' \cup InHand')
          PROVE  Keeps(result'[c].first, result'[c].second)
      <3>1. c \in DOMAIN result \ (Waiting \cup InHand) /\ c # b
        <4>1. c # NoBlock
          BY <1>1, <1>7, <2>3, StackShape
        <4> QED
          BY <1>7, <2>1, <2>2, <2>3, <4>1
      <3> QED
        BY <1>7, <3>1 DEF KeepInv, BlocksKeep
    <2> QED
      BY <2>3 DEF BlocksKeep
  <1>12. FrameKeeps(prog, CalleeMap', fr) /\ OutKeeps(prog, fr) /\ Links(CalleeMap, CalleeMap')
    BY <1>1, <1>6 DEF FrameKeeps, OutKeeps, Links
  <1> QED
    BY <1>1, <1>3, <1>5, <1>9, <1>10, <1>11, <1>12, HoldReplaced

LEMMA HoldFinishBlock ==
  ASSUME KeepInv, EdgeInv', CallInv', FinishBlock
  PROVE  KeepInv'
  <1>1. /\ TInv /\ Running /\ prog' = prog /\ CalleeMap' = CalleeMap
        /\ Top \in Frame /\ FrameOK(Top) /\ ~Top.calling /\ Top.bb # NoBlock
    BY TopOK DEF KeepInv, EdgeInv, FinishBlock, InBlock
  <1> DEFINE quiet == [Top EXCEPT !.bb = NoBlock, !.dfval = NoFacts]
             more == [Top EXCEPT !.worklist = @ \cup Requeue(Top.bb),
                                 !.bb = NoBlock, !.dfval = NoFacts]
             Passed(g) == /\ g.fn = Top.fn /\ g.bb = NoBlock /\ ~g.calling
                          /\ Top.worklist \subseteq g.worklist
  <1>2. Passed(quiet) /\ Passed(more)
    BY <1>1 DEF Frame
  <1>3. \/ SetTop(quiet) /\ result' = result /\ ~Changed
        \/ SetTop(more) /\ result' = [result EXCEPT ![Top.bb].second = Top.dfval]
    BY DEF FinishBlock
  <1> HIDE DEF quiet, more
  <1>4. PICK fr : SetTop(fr) /\ Passed(fr)
    BY <1>2, <1>3
  <1>5. Replaced(fr)
    BY <1>1, <1>4, SetTopReplaces
  <1>6. /\ Top.bb \in DOMAIN result /\ DOMAIN result' = DOMAIN result
        /\ \A c \in DOMAIN result : result'[c].first = result[c].first
        /\ \A c \in DOMAIN result \ {Top.bb} : result'[c] = result[c]
    BY <1>1, FinishResult
  <1>7. result'[Top.bb].second = Top.dfval
    <2>1. result \in [DOMAIN result -> Entry]
      BY <1>1 DEF TInv, TypeOK, Entry
    <2>2. CASE result' = result /\ ~Changed
      BY <2>2 DEF Changed
    <2>3. CASE result' = [result EXCEPT ![Top.bb].second = Top.dfval]
      BY <1>6, <2>1, <2>3 DEF Entry
    <2> QED
      BY <1>3, <2>2, <2>3
  <1>8. \A i \in DOMAIN stack \ {Len(stack)} : HandKeeps(result', stack[i])
    BY <1>6, HandsKept
  <1>9. HandKeeps(result', fr) /\ FrameKeeps(prog, CalleeMap', fr) /\ OutKeeps(prog, fr)
    BY <1>4 DEF HandKeeps, FrameKeeps, OutKeeps
  <1>10. BlocksKeep'
    <2>1. Waiting \subseteq Waiting'
      BY <1>1, <1>4, <1>5, WaitingReplaced
    <2>2. InHand \subseteq InHand' \cup {Top.bb}
      BY <1>1, <1>5, TopInStack DEF InHand, Replaced
    <2>3. ASSUME NEW c \in DOMAIN result' \ (Waiting' \cup InHand')
          PROVE  Keeps(result'[c].first, result'[c].second)
      <3>1. CASE c = Top.bb
        <4>1. HandKeeps(result, Top)
          BY <1>1, TopInStack DEF KeepInv, FramesKeep
        <4> QED
          BY <1>1, <1>6, <1>7, <3>1, <4>1 DEF HandKeeps
      <3>2. CASE c # Top.bb
        <4>1. c \in DOMAIN result \ (Waiting \cup InHand)
          BY <1>6, <2>1, <2>2, <2>3, <3>2
        <4> QED
          BY <1>6, <3>2, <4>1 DEF KeepInv, BlocksKeep
      <3> QED
        BY <3>1, <3>2
    <2> QED
      BY <2>3 DEF BlocksKeep
  <1>11. fr.fn = Top.fn /\ Links(CalleeMap, CalleeMap')
    BY <1>1, <1>4 DEF Links
  <1> HIDE DEF Passed
  <1> QED
    BY <1>1, <1>5, <1>8, <1>9, <1>10, <1>11, HoldReplaced

\* The running activation goes on in its block, and loses nothing of what it holds.
GoesOn(fr) ==
    /\ SetTop(fr)
    /\ fr.fn = Top.fn /\ fr.worklist = Top.worklist /\ fr.bb = Top.bb
    /\ Keeps(Top.dfval, fr.dfval)
    /\ FrameKeeps(prog, CalleeMap', fr) /\ OutKeeps(prog, fr)

MovesOn == Links(CalleeMap, CalleeMap') /\ \E fr : GoesOn(fr)

\* Between two calls.
LEMMA QuietGoesOn ==
  ASSUME NEW fr, SetTop(fr), fr.fn = Top.fn, fr.worklist = Top.worklist, fr.bb = Top.bb,
         ~fr.calling, Keeps(Top.dfval, fr.dfval)
  PROVE  GoesOn(fr)
  BY DEF GoesOn, FrameKeeps, OutKeeps

\* In the loop of the same call.
LEMMA CallGoesOn ==
  ASSUME TopKeeps, FrameKeeps(prog, CalleeMap, Top), Running, Top.calling, CalleeMap' = CalleeMap,
         NEW fr, SetTop(fr), fr.fn = Top.fn, fr.worklist = Top.worklist, fr.bb = Top.bb,
         fr.ii = Top.ii, fr.calling = Top.calling, fr.out = Top.out, Top.out = NoFacts,
         fr.todo \subseteq Top.todo, Keeps(Top.dfval, fr.dfval)
  PROVE  GoesOn(fr)
  <1>1. InstOf(prog, fr) = InstOf(prog, Top)
    BY DEF InstOf
  <1> QED
    BY <1>1 DEF GoesOn, FrameKeeps, OutKeeps, NoFacts

LEMMA TopHolds ==
  ASSUME KeepInv, Running
  PROVE  /\ TInv /\ Top \in Frame /\ FrameOK(Top) /\ Top.dfval \in Facts
         /\ FrameKeeps(prog, CalleeMap, Top) /\ HandKeeps(result, Top) /\ OutKeeps(prog, Top)
  <1>1. TInv
    BY DEF KeepInv, EdgeInv
  <1>2. Top \in Frame /\ FrameOK(Top) /\ Len(stack) \in DOMAIN stack /\ Top = stack[Len(stack)]
    BY <1>1, TopOK, TopInStack
  <1> QED
    BY <1>1, <1>2 DEF KeepInv, FramesKeep, TopKeeps, Frame

LEMMA ProcessInstMoves ==
  ASSUME KeepInv, ProcessInst
  PROVE  MovesOn
  <1>1. Running /\ ~Top.calling /\ AtInst /\ CalleeMap' = CalleeMap
    BY DEF ProcessInst, AtInst, InBlock
  <1>2. TInv /\ Top \in Frame /\ Top.dfval \in Facts
    BY <1>1, TopHolds
  <1>3. PICK S \in Outcomes(Top.dfval, Inst, CallerMap[Top.fn]) :
           SetTop([Top EXCEPT !.dfval = S, !.ii = @ + 1])
    BY DEF ProcessInst
  <1>4. Keeps(Top.dfval, S)
    BY <1>1, <1>2, InstOK, OutcomesKeep DEF ProcessInst
  <1> DEFINE fr == [Top EXCEPT !.dfval = S, !.ii = @ + 1]
  <1>5. /\ fr.fn = Top.fn /\ fr.worklist = Top.worklist /\ fr.bb = Top.bb
        /\ fr.calling = Top.calling /\ fr.dfval = S
    BY <1>2 DEF Frame
  <1>6. SetTop(fr)
    BY <1>3
  <1> HIDE DEF fr
  <1> QED
    BY <1>1, <1>4, <1>5, <1>6, QuietGoesOn DEF MovesOn, Links

LEMMA ProcessAllocaMoves ==
  ASSUME KeepInv, ProcessAlloca
  PROVE  MovesOn
  <1>1. Running /\ ~Top.calling /\ CalleeMap' = CalleeMap
    BY DEF ProcessAlloca, AtInst, InBlock
  <1>2. TInv /\ Top \in Frame /\ Top.dfval \in Facts
    BY <1>1, TopHolds
  <1>3. PICK S : S = [Top.dfval EXCEPT ![Inst.dst] = {SiteOf(Inst.dst)}]
    OBVIOUS
  <1>4. Keeps(Top.dfval, S)
    BY <1>2, <1>3, SiteKeeps
  <1> DEFINE fr == [Top EXCEPT !.dfval = S, !.ii = @ + 1]
  <1>5. /\ fr.fn = Top.fn /\ fr.worklist = Top.worklist /\ fr.bb = Top.bb
        /\ fr.calling = Top.calling /\ fr.dfval = S
    BY <1>2 DEF Frame
  <1>6. SetTop(fr)
    BY <1>3 DEF ProcessAlloca
  <1> HIDE DEF fr
  <1> QED
    BY <1>1, <1>4, <1>5, <1>6, QuietGoesOn DEF MovesOn, Links

LEMMA BeginCallMoves ==
  ASSUME KeepInv, BeginCall
  PROVE  MovesOn
  <1>1. Running /\ ~Top.calling /\ AtInst /\ Inst.op = "call"
    BY DEF BeginCall, AtInst, InBlock
  <1>2. TInv /\ Top \in Frame /\ Top.dfval \in Facts
    BY <1>1, TopHolds
  <1>3. Links(CalleeMap, CalleeMap')
    <2>1. CalleeMap' = [CalleeMap EXCEPT ![Inst.dst] = CalleeMap[Inst.dst] \cup Linked(Inst)]
      BY DEF BeginCall
    <2>2. CalleeMap \in [CallSites -> SUBSET Func]
      BY <1>2 DEF TInv, TypeOK
    <2> QED
      BY <2>1, <2>2 DEF Links
  <1> DEFINE past == [Top EXCEPT !.ii = @ + 1]
             begun == [Top EXCEPT !.calling = TRUE, !.todo = CalleeMap'[Inst.dst], !.out = NoFacts]
  <1>4. /\ past.fn = Top.fn /\ past.worklist = Top.worklist /\ past.bb = Top.bb
        /\ past.calling = Top.calling /\ past.dfval = Top.dfval
    BY <1>2 DEF Frame
  <1>5. /\ begun.fn = Top.fn /\ begun.worklist = Top.worklist /\ begun.bb = Top.bb
        /\ begun.ii = Top.ii /\ begun.dfval = Top.dfval
        /\ begun.todo = CalleeMap'[Inst.dst] /\ begun.out = NoFacts
    BY <1>2 DEF Frame
  <1>6. SetTop(past) \/ SetTop(begun)
    BY DEF BeginCall
  <1> HIDE DEF past, begun
  <1>7. CASE SetTop(past)
    BY <1>1, <1>3, <1>4, <1>7, KeepsSelf, QuietGoesOn DEF MovesOn
  <1>8. CASE SetTop(begun)
    <2>1. InstOf(prog, begun) = Inst
      BY <1>5 DEF InstOf, Inst
    <2>2. FrameKeeps(prog, CalleeMap', begun) /\ OutKeeps(prog, begun)
      BY <1>5, <2>1 DEF FrameKeeps, OutKeeps, NoFacts
    <2> QED
      BY <1>3, <1>5, <1>8, <2>2, KeepsSelf DEF MovesOn, GoesOn
  <1> QED
    BY <1>6, <1>7, <1>8

LEMMA BeginMemCpyMoves ==
  ASSUME KeepInv, BeginMemCpy
  PROVE  MovesOn
  <1>1. Running /\ ~Top.calling /\ Inst.op = "memcpy" /\ CalleeMap' = CalleeMap
    BY DEF BeginMemCpy, AtInst, InBlock
  <1>2. TInv /\ Top \in Frame /\ Top.dfval \in Facts
    BY <1>1, TopHolds
  <1> DEFINE fr == [Top EXCEPT !.calling = TRUE, !.out = NoFacts,
                               !.todo = IF Top.dfval[Inst.src[1]] = {} THEN {}
                                        ELSE Top.dfval[Inst.dst]]
  <1>3. /\ fr.fn = Top.fn /\ fr.worklist = Top.worklist /\ fr.bb = Top.bb
        /\ fr.ii = Top.ii /\ fr.dfval = Top.dfval /\ fr.out = NoFacts
    BY <1>2 DEF Frame
  <1>4. SetTop(fr)
    BY DEF BeginMemCpy
  <1> HIDE DEF fr
  <1>5. InstOf(prog, fr) = Inst
    BY <1>3 DEF InstOf, Inst
  <1>6. FrameKeeps(prog, CalleeMap', fr) /\ OutKeeps(prog, fr)
    BY <1>1, <1>3, <1>5 DEF FrameKeeps, OutKeeps, NoFacts
  <1>7. Links(CalleeMap, CalleeMap')
    BY <1>1 DEF Links
  <1> QED
    BY <1>3, <1>4, <1>6, <1>7, KeepsSelf DEF MovesOn, GoesOn

LEMMA CopyToMoves ==
  ASSUME KeepInv, NEW x \in prog.value, CopyTo(x)
  PROVE  MovesOn
  <1>1. Running /\ Top.calling /\ Inst.op = "memcpy" /\ CalleeMap' = CalleeMap
    BY DEF CopyTo
  <1>2. /\ TInv /\ Top \in Frame /\ Top.dfval \in Facts
        /\ FrameKeeps(prog, CalleeMap, Top)
    BY <1>1, TopHolds
  <1>3. PICK S \in CopyOutcomes(Top.dfval, x, Inst.src[1]) :
           SetTop([Top EXCEPT !.dfval = S, !.todo = @ \ {x}])
    BY DEF CopyTo
  <1>4. Keeps(Top.dfval, S)
    <2>1. IsInstr(prog, Inst)
      BY <1>1, <1>2, CallingOK
    <2>2. Inst.src[1] \in prog.value
      BY <1>1, <2>1 DEF IsInstr
    <2> QED
      BY <1>2, <2>2, CopyKeeps
  <1> DEFINE fr == [Top EXCEPT !.dfval = S, !.todo = @ \ {x}]
  <1>5. /\ fr.fn = Top.fn /\ fr.worklist = Top.worklist /\ fr.bb = Top.bb
        /\ fr.ii = Top.ii /\ fr.calling = Top.calling /\ fr.out = Top.out
        /\ fr.todo = Top.todo \ {x} /\ fr.dfval = S
    BY <1>2 DEF Frame
  <1>6. SetTop(fr)
    BY <1>3
  <1> HIDE DEF fr
  <1>7. Top.out = NoFacts
    BY <1>1, <1>2 DEF FrameKeeps, InstOf, Inst, NoFacts
  <1>8. TopKeeps
    BY DEF KeepInv
  <1> QED
    BY <1>1, <1>2, <1>4, <1>5, <1>6, <1>7, <1>8, CallGoesOn DEF MovesOn, Links

\* No exit has been merged at a call of malloc, which is a call of nothing else.
LEMMA CallMallocMoves ==
  ASSUME KeepInv, MallocAlone, CallMalloc
  PROVE  MovesOn
  <1>1. /\ Running /\ Top.calling /\ Inst.op = "call" /\ "malloc" \in Top.todo
        /\ CalleeMap' = CalleeMap
    BY DEF CallMalloc, Calling
  <1>2. /\ TInv /\ Top \in Frame /\ Top.dfval \in Facts
        /\ FrameKeeps(prog, CalleeMap, Top)
    BY <1>1, TopHolds
  <1>3. PICK S : S = [Top.dfval EXCEPT ![Inst.dst] = {SiteOf(Inst.dst)}]
    OBVIOUS
  <1>4. Keeps(Top.dfval, S)
    BY <1>2, <1>3, SiteKeeps
  <1> DEFINE fr == [Top EXCEPT !.dfval = S, !.todo = @ \ {"malloc"}]
  <1>5. /\ fr.fn = Top.fn /\ fr.worklist = Top.worklist /\ fr.bb = Top.bb
        /\ fr.ii = Top.ii /\ fr.calling = Top.calling /\ fr.out = Top.out
        /\ fr.todo = Top.todo \ {"malloc"} /\ fr.dfval = S
    BY <1>2 DEF Frame
  <1>6. SetTop(fr)
    BY <1>3 DEF CallMalloc
  <1> HIDE DEF fr
  <1>7. Top.out = NoFacts
    <2>1. Inst.dst \in CallSites
      BY <1>1, <1>2, CallingOK
    <2>2. InstOf(prog, Top) = Inst
      BY DEF InstOf, Inst
    <2>3. Top.todo \subseteq CalleeMap[Inst.dst]
      BY <1>1, <1>2, <2>2 DEF FrameKeeps
    <2>4. CalleeMap[Inst.dst] = {"malloc"}
      BY <1>1, <2>1, <2>3 DEF MallocAlone
    <2> QED
      BY <1>1, <1>2, <2>2, <2>4 DEF FrameKeeps, NoFacts
  <1>8. TopKeeps
    BY DEF KeepInv
  <1> QED
    BY <1>1, <1>2, <1>4, <1>5, <1>6, <1>7, <1>8, CallGoesOn DEF MovesOn, Links

LEMMA EndCallMoves ==
  ASSUME KeepInv, EndCall
  PROVE  MovesOn
  <1>1. Running /\ Top.calling /\ CalleeMap' = CalleeMap
    BY DEF EndCall
  <1>2. TInv /\ Top \in Frame /\ OutKeeps(prog, Top)
    BY <1>1, TopHolds
  <1>3. Keeps(Top.dfval, AfterCall)
    BY <1>1, <1>2, KeepsSelf DEF AfterCall, OutKeeps, NoFacts
  <1> DEFINE fr == [Top EXCEPT !.dfval = AfterCall, !.calling = FALSE, !.ii = @ + 1,
                               !.out = NoFacts]
  <1>4. /\ fr.fn = Top.fn /\ fr.worklist = Top.worklist /\ fr.bb = Top.bb
        /\ ~fr.calling /\ fr.dfval = AfterCall
    BY <1>2 DEF Frame
  <1>5. SetTop(fr)
    BY DEF EndCall
  <1> HIDE DEF fr
  <1> QED
    BY <1>1, <1>3, <1>4, <1>5, QuietGoesOn DEF MovesOn, Links

LEMMA AllMove ==
  ASSUME KeepInv, MallocAlone, Moves
  PROVE  MovesOn
  BY ProcessInstMoves, ProcessAllocaMoves, BeginCallMoves, BeginMemCpyMoves, CopyToMoves,
     CallMallocMoves, EndCallMoves DEF Moves

LEMMA HoldMoves ==
  ASSUME KeepInv, EdgeInv', CallInv', MallocAlone, Moves
  PROVE  KeepInv'
  <1>1. Running /\ prog' = prog /\ result' = result
    BY MovesTop DEF Moves, ProcessInst, ProcessAlloca, BeginCall, BeginMemCpy, CallMalloc, EndCall,
           CopyTo, AtInst, InBlock, Calling, KeepInv, EdgeInv
  <1>2. /\ TInv /\ FrameOK(Top) /\ Top.dfval \in Facts /\ HandKeeps(result, Top)
    BY <1>1, TopHolds
  <1>3. PICK fr : GoesOn(fr)
    BY AllMove DEF MovesOn
  <1>4. Replaced(fr) /\ Links(CalleeMap, CalleeMap')
    BY <1>1, <1>2, <1>3, SetTopReplaces, AllMove DEF GoesOn, MovesOn
  <1>5. HandKeeps(result', fr)
    <2>1. CASE Top.bb # NoBlock
      <3>1. Top.bb \in DOMAIN result
        BY <1>2, <2>1 DEF FrameOK
      <3>2. result[Top.bb].first \in Facts /\ Keeps(result[Top.bb].first, Top.dfval)
        BY <1>2, <2>1, <3>1, StackShape DEF HandKeeps
      <3>3. Keeps(result[Top.bb].first, fr.dfval)
        BY <1>2, <1>3, <3>2, KeepsOn DEF GoesOn
      <3> QED
        BY <1>1, <1>3, <3>3 DEF HandKeeps, GoesOn
    <2>2. CASE Top.bb = NoBlock
      BY <1>3, <2>2 DEF HandKeeps, GoesOn
    <2> QED
      BY <2>1, <2>2
  <1>6. \A i \in DOMAIN stack \ {Len(stack)} : HandKeeps(result', stack[i])
    BY <1>1 DEF KeepInv, FramesKeep
  <1>7. BlocksKeep'
    <2>1. Waiting \subseteq Waiting'
      BY <1>2, <1>1, <1>3, <1>4, WaitingReplaced DEF GoesOn
    <2>2. InHand \subseteq InHand'
      BY <1>1, <1>2, <1>3, <1>4, TopInStack DEF InHand, Replaced, GoesOn
    <2> QED
      BY <1>1, <2>1, <2>2 DEF KeepInv, BlocksKeep
  <1> QED
    BY <1>1, <1>3, <1>4, <1>5, <1>6, <1>7, HoldReplaced DEF GoesOn

\* A function is entered: its blocks all wait, and no other block changes.
LEMMA HoldEnter ==
  ASSUME KeepInv, EdgeInv', CallInv', AnalysedOnce', NEW f \in Func, EnterCallee(f)
  PROVE  KeepInv'
  <1>1. /\ Running /\ Top.calling /\ Inst.op = "call" /\ f \in Top.todo /\ f # "malloc"
        /\ prog' = prog /\ CalleeMap' = CalleeMap
    BY DEF EnterCallee, Calling
  <1>2. /\ TInv /\ Top \in Frame /\ FrameOK(Top) /\ Top.dfval \in Facts
        /\ FrameKeeps(prog, CalleeMap, Top) /\ HandKeeps(result, Top)
    BY <1>1, TopHolds
  <1>3. PICK n \in Nat \ {0}, fr \in Frame :
            /\ n = Len(stack) /\ DOMAIN stack = 1 .. n
            /\ fr.fn = Top.fn /\ fr.worklist = Top.worklist /\ fr.bb = Top.bb
            /\ fr.ii = Top.ii /\ fr.calling = Top.calling /\ fr.out = Top.out
            /\ fr.todo = Top.todo \ {f}
            /\ fr.dfval = PassArguments(Top.dfval, f, Inst.src)
            /\ stack' \in Seq(Frame) /\ DOMAIN stack' = 1 .. n + 1
            /\ \A i \in 1 .. n - 1 : stack'[i] = stack[i]
            /\ stack'[n] = fr
            /\ stack'[n + 1] = Activation(f)
    BY <1>2, EnterStack
  <1>4. /\ Len(stack') = n + 1 /\ (n + 1) - 1 = n /\ n \in 1 .. n + 1 /\ n + 1 \in 1 .. n + 1
        /\ \A i \in 1 .. n : (i \in 1 .. n - 1 \/ i = n) /\ i \in 1 .. n + 1 /\ i # n + 1
        /\ \A i \in 1 .. n + 1 : i \in 1 .. n - 1 \/ i = n \/ i = n + 1
        /\ \A i \in 1 .. n - 1 : i \in 1 .. n /\ i + 1 \in 1 .. n
    BY <1>3
  <1>5. Top = stack[n]
    BY <1>3 DEF Top
  <1>6. \A i \in 1 .. n : stack'[i].fn = stack[i].fn /\ stack'[i].bb = stack[i].bb
                          /\ stack'[i].worklist = stack[i].worklist
    BY <1>3, <1>4, <1>5
  <1>7. /\ stack'[n + 1].fn = f /\ stack'[n + 1].bb = NoBlock /\ ~stack'[n + 1].calling
        /\ stack'[n + 1].worklist = prog.block[f]
    BY <1>3 DEF Activation
  <1>8. \A i \in 1 .. n : stack[i].fn # f
    <2>1. \A i, j \in 1 .. n + 1 : stack'[i].fn = stack'[j].fn => i = j
      BY <1>3 DEF AnalysedOnce
    <2>2. \A i \in 1 .. n : stack'[i].fn # stack'[n + 1].fn
      BY <1>4, <2>1
    <2> QED
      BY <1>6, <1>7, <2>2
  <1>9. /\ DOMAIN result' = DOMAIN result \cup prog.block[f]
        /\ \A b \in DOMAIN result \ prog.block[f] : result'[b] = result[b]
    BY <1>2, EnterResult
  <1>10. InHand \cap prog.block[f] = {}
    BY <1>2, <1>3, <1>8, Apart DEF InHand
  <1>11. \A i \in 1 .. n : HandKeeps(result', stack[i])
    BY <1>3, <1>9, <1>10, HandsKept
  <1>12. HandKeeps(result', fr)
    <2>1. CASE Top.bb # NoBlock
      <3>1. Top.bb \in DOMAIN result /\ Top.bb \notin prog.block[f]
        BY <1>2, <1>3, <1>5, <1>10, <2>1 DEF FrameOK, InHand
      <3>2. result[Top.bb].first \in Facts /\ Keeps(result[Top.bb].first, Top.dfval)
        BY <1>2, <2>1, <3>1, StackShape DEF HandKeeps
      <3>3. Keeps(result[Top.bb].first, fr.dfval)
        BY <1>2, <1>3, <3>2, PassKeeps, KeepsOn
      <3> QED
        BY <1>3, <1>9, <3>1, <3>3 DEF HandKeeps
    <2>2. CASE Top.bb = NoBlock
      BY <1>3, <2>2 DEF HandKeeps
    <2> QED
      BY <2>1, <2>2
  <1>13. /\ InstOf(prog, fr) = Inst /\ InstOf(prog, Top) = Inst
         /\ f \in CalleeMap[Inst.dst]
    BY <1>1, <1>2, <1>3 DEF InstOf, Inst, FrameKeeps
  <1>14. FrameKeeps(prog, CalleeMap, fr) /\ Calls(prog, CalleeMap, fr, f)
    BY <1>1, <1>2, <1>3, <1>13 DEF FrameKeeps, Calls
  <1>15. FramesKeep'
    <2>1. ASSUME NEW i \in 1 .. n + 1
          PROVE  HandKeeps(result', stack'[i]) /\ FrameKeeps(prog, CalleeMap, stack'[i])
      <3>1. CASE i \in 1 .. n - 1
        <4>1. i \in DOMAIN stack /\ stack'[i] = stack[i]
          BY <1>3, <1>4, <3>1
        <4> QED
          BY <1>3, <1>11, <4>1 DEF KeepInv, FramesKeep
      <3>2. CASE i = n
        BY <1>3, <1>12, <1>14, <3>2
      <3>3. CASE i = n + 1
        BY <1>7, <3>3 DEF HandKeeps, FrameKeeps
      <3> QED
        BY <1>4, <3>1, <3>2, <3>3
    <2> QED
      BY <1>1, <1>3, <2>1 DEF FramesKeep
  <1>16. CallersCall'
    <2>1. ASSUME NEW i \in 1 .. n
          PROVE  Calls(prog, CalleeMap, stack'[i], stack'[i + 1].fn)
      <3>1. CASE i \in 1 .. n - 1
        <4>1. stack'[i] = stack[i] /\ stack'[i + 1].fn = stack[i + 1].fn
          BY <1>3, <1>4, <1>6, <3>1
        <4> QED
          BY <1>3, <3>1, <4>1 DEF KeepInv, CallersCall
      <3>2. CASE i = n
        BY <1>3, <1>7, <1>14, <3>2
      <3> QED
        BY <1>4, <3>1, <3>2
    <2> QED
      BY <1>1, <1>4, <2>1 DEF CallersCall
  <1>17. TopKeeps'
    <2>1. Top' = stack'[n + 1]
      BY <1>4 DEF Top
    <2> QED
      BY <1>7, <2>1 DEF TopKeeps, OutKeeps
  <1>18. BlocksKeep'
    <2>1. Waiting \subseteq Waiting' /\ prog.block[f] \subseteq Waiting'
      <3>1. \A i \in 1 .. n : i \in DOMAIN stack' /\ stack'[i].worklist = stack[i].worklist
        BY <1>3, <1>4, <1>6
      <3>2. Waiting \subseteq Waiting'
        BY <1>3, <3>1 DEF Waiting
      <3>3. n + 1 \in DOMAIN stack' /\ stack'[n + 1].worklist = prog.block[f]
        BY <1>3, <1>4, <1>7
      <3> QED
        BY <3>2, <3>3 DEF Waiting
    <2>2. InHand \subseteq InHand'
      BY <1>3, <1>4, <1>6 DEF InHand
    <2>3. ASSUME NEW c \in DOMAIN result' \ (Waiting' \cup InHand')
          PROVE  Keeps(result'[c].first, result'[c].second)
      <3>1. c \in DOMAIN result \ (Waiting \cup InHand) /\ c \notin prog.block[f]
        BY <1>9, <2>1, <2>2, <2>3
      <3> QED
        BY <1>9, <3>1 DEF KeepInv, BlocksKeep
    <2> QED
      BY <2>3 DEF BlocksKeep
  <1> QED
    BY <1>15, <1>16, <1>17, <1>18 DEF KeepInv

\* A function is left: its caller merges an exit that keeps what the caller holds.
LEMMA HoldLeave ==
  ASSUME KeepInv, EdgeInv', CallInv', Regular, LeaveCallee
  PROVE  KeepInv'
  <1>1. /\ TInv /\ prog' = prog /\ result' = result /\ CalleeMap' = CalleeMap
        /\ Top.bb = NoBlock /\ Top.worklist = {}
    BY DEF KeepInv, EdgeInv, LeaveCallee
  <1>2. PICK n \in Nat \ {0} :
            /\ DOMAIN stack = 1 .. n + 1 /\ Len(stack) = n + 1 /\ Top = stack[n + 1]
            /\ DOMAIN stack' = 1 .. n /\ Len(stack') = n
            /\ \A i \in 1 .. n - 1 : stack'[i] = stack[i]
            /\ stack'[n].worklist = stack[n].worklist /\ stack'[n].fn = stack[n].fn
            /\ stack'[n].dfval = stack[n].dfval
            /\ stack'[n].bb = stack[n].bb /\ stack'[n].ii = stack[n].ii
            /\ stack'[n].calling = stack[n].calling /\ stack'[n].todo = stack[n].todo
            /\ stack'[n].out = Merge(stack[n].out, ExitFacts(Top.fn))
    BY <1>1, Popped
  <1>3. /\ (n + 1) - 1 = n /\ n \in 1 .. n /\ n + 1 \in 1 .. n + 1 /\ n + 1 # 1
        /\ \A i \in 1 .. n : (i \in 1 .. n - 1 \/ i = n) /\ i \in 1 .. n + 1
        /\ \A i \in 1 .. n + 1 : i \in 1 .. n \/ i = n + 1
        /\ \A i \in 1 .. n - 1 : i \in 1 .. n /\ i + 1 \in 1 .. n
    OBVIOUS
  <1>4. \A i \in 1 .. n : stack'[i].fn = stack[i].fn /\ stack'[i].bb = stack[i].bb
                          /\ stack'[i].worklist = stack[i].worklist
    BY <1>2, <1>3
  <1>5. Calls(prog, CalleeMap, stack[n], Top.fn) /\ Top.fn # "malloc"
    BY <1>2, <1>3 DEF KeepInv, CallersCall, CallInv, CalleesHaveBodies
  <1>6. InstOf(prog, stack'[n]) = InstOf(prog, stack[n])
    BY <1>2 DEF InstOf
  <1>7. HandKeeps(result, stack'[n]) /\ FrameKeeps(prog, CalleeMap, stack'[n])
    <2>1. HandKeeps(result, stack[n]) /\ FrameKeeps(prog, CalleeMap, stack[n])
      BY <1>2, <1>3 DEF KeepInv, FramesKeep
    <2> QED
      BY <1>2, <1>5, <1>6, <2>1 DEF HandKeeps, FrameKeeps, Calls
  <1>8. FramesKeep'
    BY <1>1, <1>2, <1>3, <1>7 DEF KeepInv, FramesKeep
  <1>9. CallersCall'
    <2>1. ASSUME NEW i \in 1 .. n - 1
          PROVE  Calls(prog, CalleeMap, stack'[i], stack'[i + 1].fn)
      <3>1. stack'[i] = stack[i] /\ stack'[i + 1].fn = stack[i + 1].fn /\ i \in 1 .. n
        BY <1>2, <1>3, <1>4, <2>1
      <3> QED
        BY <1>2, <1>3, <3>1 DEF KeepInv, CallersCall
    <2> QED
      BY <1>1, <1>2, <2>1 DEF CallersCall
  <1>10. Keeps(stack[n].dfval, Merge(stack[n].out, ExitFacts(Top.fn)))
    <2>1. stack[n] \in Frame /\ Top \in Frame /\ FrameOK(Top)
      BY <1>1, <1>2, <1>3, StackShape
    <2>2. stack[n].dfval \in Facts /\ stack[n].out \in Facts /\ ExitFacts(Top.fn) \in Facts
      BY <1>1, <2>1, ExitFactsOK DEF Frame, FrameOK
    <2>3. Keeps(stack[n].dfval, ExitFacts(Top.fn))
      BY <1>2, ExitReached
    <2> QED
      BY <2>2, <2>3, MergeKeeps
  <1>11. TopKeeps'
    <2>1. Top' = stack'[n]
      BY <1>2 DEF Top
    <2>2. Keeps(stack'[n].dfval, stack'[n].out)
      BY <1>2, <1>10
    <2> QED
      BY <2>1, <2>2 DEF TopKeeps, OutKeeps
  <1>12. BlocksKeep'
    <2>1. Waiting \subseteq Waiting'
      BY <1>1, <1>2, <1>3, <1>4 DEF Waiting
    <2>2. InHand \subseteq InHand' \cup {NoBlock}
      BY <1>1, <1>2, <1>3, <1>4 DEF InHand
    <2>3. NoBlock \notin DOMAIN result
      BY <1>1, StackShape
    <2> QED
      BY <1>1, <2>1, <2>2, <2>3 DEF KeepInv, BlocksKeep
  <1> QED
    BY <1>8, <1>9, <1>11, <1>12 DEF KeepInv

\* runOnModule starts a function.
LEMMA HoldStart ==
  ASSUME KeepInv, EdgeInv', CallInv', StartFunction
  PROVE  KeepInv'
  <1>1. PICK f \in Func :
            /\ stack = <<>> /\ stack' = <<Activation(f)>> /\ prog' = prog
            /\ DOMAIN result' = DOMAIN result \cup prog.block[f]
            /\ \A b \in DOMAIN result : result'[b] = result[b]
    BY StartResult DEF KeepInv, EdgeInv
  <1>2. /\ DOMAIN stack' = {1} /\ Len(stack') = 1 /\ 1 .. 1 - 1 = {}
        /\ stack'[1].bb = NoBlock /\ ~stack'[1].calling /\ stack'[1].worklist = prog.block[f]
    BY <1>1 DEF Activation
  <1>3. FramesKeep' /\ CallersCall'
    BY <1>2 DEF FramesKeep, CallersCall, HandKeeps, FrameKeeps
  <1>4. TopKeeps'
    BY <1>2 DEF TopKeeps, OutKeeps, Top
  <1>5. BlocksKeep'
    <2>1. Waiting = {} /\ InHand = {} /\ prog.block[f] \subseteq Waiting'
      BY <1>1, <1>2 DEF Waiting, InHand
    <2>2. ASSUME NEW c \in DOMAIN result' \ (Waiting' \cup InHand')
          PROVE  Keeps(result'[c].first, result'[c].second)
      BY <1>1, <2>1, <2>2 DEF KeepInv, BlocksKeep
    <2> QED
      BY <2>2 DEF BlocksKeep
  <1> QED
    BY <1>3, <1>4, <1>5 DEF KeepInv

LEMMA HoldFinishFunction ==
  ASSUME KeepInv, EdgeInv', CallInv', FinishFunction
  PROVE  KeepInv'
  <1>1. /\ TInv /\ stack \in Seq(Frame) /\ Len(stack) = 1 /\ stack' = <<>> /\ result' = result
        /\ stack[1].bb = NoBlock /\ stack[1].worklist = {}
    BY DEF KeepInv, EdgeInv, TInv, TypeOK, FinishFunction, Top
  <1>2. DOMAIN stack = {1} /\ DOMAIN stack' = {} /\ 1 .. Len(stack') - 1 = {}
    BY <1>1
  <1>3. FramesKeep' /\ CallersCall' /\ TopKeeps'
    BY <1>1, <1>2 DEF FramesKeep, CallersCall, TopKeeps, Running
  <1>4. BlocksKeep'
    <2>1. Waiting = {} /\ InHand = {NoBlock} /\ NoBlock \notin DOMAIN result
      BY <1>1, <1>2, StackShape DEF Waiting, InHand
    <2> QED
      BY <1>1, <2>1 DEF KeepInv, BlocksKeep
  <1> QED
    BY <1>3, <1>4 DEF KeepInv

LEMMA NextKeepInv ==
  ASSUME KeepInv, Regular, Regular', [Next]_vars
  PROVE  KeepInv'
  <1>1. EdgeInv' /\ CallInv'
    BY NextEdgeInv, NextCallInv DEF KeepInv
  <1>2. AnalysedOnce /\ AnalysedOnce' /\ MallocAlone
    BY DEF Regular
  <1>3. CASE StartFunction
    BY <1>1, <1>3, HoldStart
  <1>4. ASSUME NEW b \in Blocks, TakeBlock(b) PROVE KeepInv'
    BY <1>1, <1>2, <1>4, HoldTakeBlock
  <1>5. ASSUME NEW f \in Func, EnterCallee(f) PROVE KeepInv'
    BY <1>1, <1>2, <1>5, HoldEnter
  <1>6. CASE Moves
    BY <1>1, <1>2, <1>6, HoldMoves
  <1>7. CASE LeaveCallee
    BY <1>1, <1>7, HoldLeave
  <1>8. CASE FinishFunction
    BY <1>1, <1>8, HoldFinishFunction
  <1>9. CASE FinishBlock
    BY <1>1, <1>9, HoldFinishBlock
  <1>10. CASE UNCHANGED vars
    BY <1>1, <1>10 DEF KeepInv, BlocksKeep, FramesKeep, CallersCall, TopKeeps, Waiting, InHand,
       Running, Top, vars
  <1> QED
    BY <1>3, <1>4, <1>5, <1>6, <1>7, <1>8, <1>9, <1>10 DEF Next, Moves, Finished

\* Only the end of a call is a step of an activation that has no callee left.
LEMMA StepKeepsPointers ==
  ASSUME KeepInv, MallocAlone, [Next]_vars
  PROVE  KeepsPointers
  <1> SUFFICES ASSUME Running, Top.calling, Top.todo = {}, Len(stack') = Len(stack),
                      NEW v \in prog.value, Top.dfval[v] # {}
               PROVE  Top'.dfval[v] # {}
    BY DEF KeepsPointers
  <1>1. TInv /\ Top \in Frame /\ FrameOK(Top) /\ Top.dfval \in Facts
    BY TopHolds
  <1>2. Top.bb # NoBlock
    BY <1>1 DEF FrameOK
  <1>3. CASE Moves
    <2>1. PICK fr : GoesOn(fr)
      BY <1>3, AllMove DEF MovesOn
    <2>2. Replaced(fr)
      BY <1>1, <2>1, SetTopReplaces DEF GoesOn
    <2>3. Top' = fr
      BY <2>2 DEF Replaced, Top
    <2> QED
      BY <1>1, <2>1, <2>3 DEF GoesOn, Keeps, Facts
  <1>4. CASE UNCHANGED vars
    BY <1>4 DEF vars, Top
  <1> QED
    BY <1>2, <1>3, <1>4 DEF Next, Moves, Finished, StartFunction, TakeBlock, EnterCallee, Calling,
       LeaveCallee, FinishBlock, InBlock, FinishFunction

\* A call does not make a value point nowhere, on every module, at every depth and in
\* every order: what processCallInst puts in place of the caller's facts has a set for
\* whatever the caller had one for. It takes that every function can get from its entry
\* to its exit, that a call of malloc can be no other function, and that no function is
\* entered while it is being analysed. Without the second, failing_allocator.
THEOREM CallsKeepPointers == Spec => ([]Regular => CallKeepsPointers)
  <1>1. Init => KeepInv
    <2> SUFFICES ASSUME Init PROVE KeepInv
      OBVIOUS
    <2>1. stack = <<>> /\ DOMAIN result = {} /\ 1 .. Len(stack) - 1 = {} /\ DOMAIN stack = {}
      BY DEF Init
    <2>2. EdgeInv
      BY <2>1, InitTInv DEF EdgeInv, PredsSeen, NoStaleEdge
    <2>3. CallInv
      BY <2>1, InitTInv DEF CallInv, CalleesHaveBodies, CalleeSeesCaller
    <2> QED
      BY <2>1, <2>2, <2>3 DEF KeepInv, BlocksKeep, FramesKeep, CallersCall, TopKeeps, Running
  <1>2. KeepInv /\ Regular /\ Regular' /\ [Next]_vars => KeepInv'
    BY NextKeepInv
  <1>3. KeepInv /\ Regular /\ [Next]_vars => KeepsPointers
    BY StepKeepsPointers DEF Regular
  <1>4. Spec => Init /\ [][Next]_vars
    BY PTL DEF Spec
  <1>5. Init /\ [][Next]_vars /\ []Regular => []KeepInv
    BY <1>1, <1>2, PTL
  <1>6. []KeepInv /\ []Regular /\ [][Next]_vars => [][KeepsPointers]_vars
    BY <1>3, PTL
  <1> QED
    BY <1>4, <1>5, <1>6, PTL DEF CallKeepsPointers
-----------------------------------------------------------------------------
(***************************************************************************)
(* How deep the recursion over callees goes. Each activation stands at a   *)
(* call that is linked to the function of the next one, so a function that *)
(* is analysed twice at a time lies on a circle of linked calls.           *)
(***************************************************************************)
\* What is left of a loop over callees are callees of its call.
Loops(p, C, fr) ==
    fr.calling /\ InstOf(p, fr).op = "call" => fr.todo \subseteq C[InstOf(p, fr).dst]

NestInv ==
    /\ TInv /\ CallersCall
    /\ \A i \in DOMAIN stack : Loops(prog, CalleeMap, stack[i])

LEMMA MoreLoops ==
  ASSUME TInv, NEW fr \in Frame, FrameOK(fr), NEW C, NEW D, Links(C, D), Loops(prog, C, fr)
  PROVE  Loops(prog, D, fr)
  <1>1. fr.calling /\ InstOf(prog, fr).op = "call" =>
            C[InstOf(prog, fr).dst] \subseteq D[InstOf(prog, fr).dst]
    BY CallShape DEF Links
  <1> QED
    BY <1>1 DEF Loops

\* When only the running activation changes.
LEMMA NestReplaced ==
  ASSUME NestInv, TInv', prog' = prog, Running, Links(CalleeMap, CalleeMap'),
         NEW fr, SetTop(fr), fr.fn = Top.fn, Loops(prog, CalleeMap', fr)
  PROVE  NestInv'
  <1>1. TInv /\ stack \in Seq(Frame) /\ stack' \in Seq(Frame') /\ Replaced(fr)
    BY SetTopReplaces DEF NestInv, TInv, TypeOK
  <1>2. /\ DOMAIN stack' = DOMAIN stack /\ Len(stack') = Len(stack)
        /\ Len(stack) \in DOMAIN stack /\ Top = stack[Len(stack)]
    BY <1>1, TopInStack DEF Replaced
  <1>3. ASSUME NEW i \in DOMAIN stack
        PROVE  Loops(prog, CalleeMap', stack'[i])
    <2>1. CASE i = Len(stack)
      BY <1>1, <2>1 DEF Replaced
    <2>2. CASE i # Len(stack)
      <3>1. stack[i] \in Frame /\ FrameOK(stack[i]) /\ Loops(prog, CalleeMap, stack[i])
        BY <1>1, StackShape DEF NestInv
      <3>2. Loops(prog, CalleeMap', stack[i])
        BY <1>1, <3>1, MoreLoops
      <3> QED
        BY <1>1, <2>2, <3>2 DEF Replaced
    <2> QED
      BY <2>1, <2>2
  <1>4. \A i \in DOMAIN stack : stack'[i].fn = stack[i].fn
    BY <1>1, <1>2 DEF Replaced
  <1>5. ASSUME NEW i \in 1 .. Len(stack) - 1
        PROVE  Calls(prog, CalleeMap', stack'[i], stack'[i + 1].fn)
    <2>1. i \in DOMAIN stack /\ i + 1 \in DOMAIN stack /\ i # Len(stack)
      BY <1>1, <1>5
    <2>2. stack[i] \in Frame /\ FrameOK(stack[i]) /\ Calls(prog, CalleeMap, stack[i], stack[i + 1].fn)
      BY <1>1, <1>5, <2>1, StackShape DEF NestInv, CallersCall
    <2>3. Calls(prog, CalleeMap', stack[i], stack[i + 1].fn)
      BY <1>1, <2>2, MoreCallees
    <2> QED
      BY <1>1, <1>4, <2>1, <2>3 DEF Replaced
  <1> QED
    BY <1>2, <1>3, <1>5 DEF NestInv, CallersCall

\* The running activation goes on: it leaves its loop, or stays in it and visits callees
\* of the call it is at.
LEMMA NestMoves ==
  ASSUME NestInv, TInv', Moves
  PROVE  NestInv'
  <1>1. Running /\ TInv /\ Top \in Frame /\ Loops(prog, CalleeMap, Top) /\ prog' = prog
    <2>1. Running
      BY DEF Moves, ProcessInst, ProcessAlloca, BeginCall, BeginMemCpy, CallMalloc, EndCall, CopyTo,
         AtInst, InBlock, Calling
    <2> QED
      BY <2>1, MovesTop, TopOK, TopInStack DEF NestInv
  <1>2. ASSUME NEW fr, SetTop(fr), fr.fn = Top.fn, ~fr.calling, CalleeMap' = CalleeMap
        PROVE  NestInv'
    BY <1>1, <1>2, NestReplaced DEF Loops, Links
  <1>3. ASSUME NEW fr, SetTop(fr), fr.fn = Top.fn, fr.bb = Top.bb, fr.ii = Top.ii,
               fr.calling = Top.calling, fr.todo \subseteq Top.todo, CalleeMap' = CalleeMap
        PROVE  NestInv'
    <2>1. InstOf(prog, fr) = InstOf(prog, Top)
      BY <1>3 DEF InstOf
    <2>2. Loops(prog, CalleeMap', fr)
      BY <1>1, <1>3, <2>1 DEF Loops
    <2> QED
      BY <1>1, <1>3, <2>2, NestReplaced DEF Links
  <1>4. CASE ProcessInst
    <2>1. PICK S \in Outcomes(Top.dfval, Inst, CallerMap[Top.fn]) :
             SetTop([Top EXCEPT !.dfval = S, !.ii = @ + 1])
      BY <1>4 DEF ProcessInst
    <2> DEFINE fr == [Top EXCEPT !.dfval = S, !.ii = @ + 1]
    <2>2. fr.fn = Top.fn /\ fr.calling = Top.calling
      BY <1>1 DEF Frame
    <2>3. SetTop(fr)
      BY <2>1
    <2> HIDE DEF fr
    <2> QED
      BY <1>2, <1>4, <2>2, <2>3 DEF ProcessInst, AtInst, InBlock
  <1>5. CASE ProcessAlloca
    <2> DEFINE fr == [Top EXCEPT !.dfval[Inst.dst] = {SiteOf(Inst.dst)}, !.ii = @ + 1]
    <2>1. fr.fn = Top.fn /\ fr.calling = Top.calling
      BY <1>1 DEF Frame
    <2>2. SetTop(fr)
      BY <1>5 DEF ProcessAlloca
    <2> HIDE DEF fr
    <2> QED
      BY <1>2, <1>5, <2>1, <2>2 DEF ProcessAlloca, AtInst, InBlock
  <1>6. CASE BeginCall
    <2>1. Links(CalleeMap, CalleeMap')
      <3>1. CalleeMap' = [CalleeMap EXCEPT ![Inst.dst] = CalleeMap[Inst.dst] \cup Linked(Inst)]
        BY <1>6 DEF BeginCall
      <3>2. CalleeMap \in [CallSites -> SUBSET Func]
        BY <1>1 DEF TInv, TypeOK
      <3> QED
        BY <3>1, <3>2 DEF Links
    <2> DEFINE past == [Top EXCEPT !.ii = @ + 1]
               begun == [Top EXCEPT !.calling = TRUE, !.todo = CalleeMap'[Inst.dst],
                                    !.out = NoFacts]
    <2>2. past.fn = Top.fn /\ past.calling = Top.calling
      BY <1>1 DEF Frame
    <2>3. /\ begun.fn = Top.fn /\ begun.bb = Top.bb /\ begun.ii = Top.ii
          /\ begun.todo = CalleeMap'[Inst.dst]
      BY <1>1 DEF Frame
    <2>4. SetTop(past) \/ SetTop(begun)
      BY <1>6 DEF BeginCall
    <2> HIDE DEF past, begun
    <2>5. Loops(prog, CalleeMap', past)
      BY <1>6, <2>2 DEF Loops, BeginCall, AtInst, InBlock
    <2>6. Loops(prog, CalleeMap', begun)
      <3>1. InstOf(prog, begun) = Inst
        BY <2>3 DEF InstOf, Inst
      <3> QED
        BY <2>3, <3>1 DEF Loops
    <2> QED
      BY <1>1, <2>1, <2>2, <2>3, <2>4, <2>5, <2>6, NestReplaced
  <1>7. CASE BeginMemCpy
    <2> DEFINE fr == [Top EXCEPT !.calling = TRUE, !.out = NoFacts,
                                 !.todo = IF Top.dfval[Inst.src[1]] = {} THEN {}
                                          ELSE Top.dfval[Inst.dst]]
    <2>1. fr.fn = Top.fn /\ fr.bb = Top.bb /\ fr.ii = Top.ii
      BY <1>1 DEF Frame
    <2>2. SetTop(fr)
      BY <1>7 DEF BeginMemCpy
    <2> HIDE DEF fr
    <2>3. InstOf(prog, fr).op = "memcpy" /\ CalleeMap' = CalleeMap
      BY <1>7, <2>1 DEF BeginMemCpy, InstOf, Inst
    <2> QED
      BY <1>1, <2>1, <2>2, <2>3, NestReplaced DEF Loops, Links
  <1>8. CASE CallMalloc
    <2> DEFINE fr == [Top EXCEPT !.dfval[Inst.dst] = {SiteOf(Inst.dst)},
                                 !.todo = @ \ {"malloc"}]
    <2>1. /\ fr.fn = Top.fn /\ fr.bb = Top.bb /\ fr.ii = Top.ii /\ fr.calling = Top.calling
          /\ fr.todo = Top.todo \ {"malloc"}
      BY <1>1 DEF Frame
    <2>2. SetTop(fr)
      BY <1>8 DEF CallMalloc
    <2> HIDE DEF fr
    <2> QED
      BY <1>3, <1>8, <2>1, <2>2 DEF CallMalloc
  <1>9. CASE EndCall
    <2> DEFINE fr == [Top EXCEPT !.dfval = AfterCall, !.calling = FALSE, !.ii = @ + 1,
                                 !.out = NoFacts]
    <2>1. fr.fn = Top.fn /\ ~fr.calling
      BY <1>1 DEF Frame
    <2>2. SetTop(fr)
      BY <1>9 DEF EndCall
    <2> HIDE DEF fr
    <2> QED
      BY <1>2, <1>9, <2>1, <2>2 DEF EndCall
  <1>10. ASSUME NEW x \in prog.value, CopyTo(x)
         PROVE  NestInv'
    <2>1. PICK S \in CopyOutcomes(Top.dfval, x, Inst.src[1]) :
             SetTop([Top EXCEPT !.dfval = S, !.todo = @ \ {x}])
      BY <1>10 DEF CopyTo
    <2> DEFINE fr == [Top EXCEPT !.dfval = S, !.todo = @ \ {x}]
    <2>2. /\ fr.fn = Top.fn /\ fr.bb = Top.bb /\ fr.ii = Top.ii /\ fr.calling = Top.calling
          /\ fr.todo = Top.todo \ {x}
      BY <1>1 DEF Frame
    <2>3. SetTop(fr)
      BY <2>1
    <2> HIDE DEF fr
    <2> QED
      BY <1>3, <1>10, <2>2, <2>3 DEF CopyTo
  <1> QED
    BY <1>4, <1>5, <1>6, <1>7, <1>8, <1>9, <1>10 DEF Moves

\* A block is taken or left: the activation is in no call.
LEMMA NestBlocks ==
  ASSUME NestInv, TInv', FinishBlock \/ \E b \in Blocks : TakeBlock(b)
  PROVE  NestInv'
  <1>1. Running /\ prog' = prog /\ CalleeMap' = CalleeMap
    BY DEF FinishBlock, TakeBlock, InBlock
  <1>2. TInv /\ Top \in Frame /\ FrameOK(Top)
    BY <1>1, TopOK DEF NestInv
  <1>3. \E fr : SetTop(fr) /\ fr.fn = Top.fn /\ ~fr.calling
    <2>1. CASE FinishBlock
      <3> DEFINE same == [Top EXCEPT !.bb = NoBlock, !.dfval = NoFacts]
                 more == [Top EXCEPT !.worklist = @ \cup Requeue(Top.bb),
                                     !.bb = NoBlock, !.dfval = NoFacts]
      <3>1. /\ same.fn = Top.fn /\ same.calling = Top.calling
            /\ more.fn = Top.fn /\ more.calling = Top.calling
        BY <1>2 DEF Frame
      <3>2. SetTop(same) \/ SetTop(more)
        BY <2>1 DEF FinishBlock
      <3>3. ~Top.calling
        BY <2>1 DEF FinishBlock, InBlock
      <3> HIDE DEF same, more
      <3> QED
        BY <3>1, <3>2, <3>3
    <2>2. ASSUME NEW b \in Blocks, TakeBlock(b)
          PROVE  \E fr : SetTop(fr) /\ fr.fn = Top.fn /\ ~fr.calling
      <3> DEFINE fr == [Top EXCEPT !.worklist = @ \ {b}, !.bb = b, !.ii = 1,
                                   !.dfval = MergePreds(b)]
      <3>1. fr.fn = Top.fn /\ fr.calling = Top.calling
        BY <1>2 DEF Frame
      <3>2. SetTop(fr)
        BY <2>2 DEF TakeBlock
      <3>3. ~Top.calling
        BY <1>2, <2>2 DEF TakeBlock, FrameOK
      <3> HIDE DEF fr
      <3> QED
        BY <3>1, <3>2, <3>3
    <2> QED
      BY <2>1, <2>2
  <1> QED
    BY <1>1, <1>3, NestReplaced DEF Loops, Links

\* The function entered is one its caller's call is linked to.
LEMMA NestEnter ==
  ASSUME NestInv, TInv', NEW f \in Func, EnterCallee(f)
  PROVE  NestInv'
  <1>1. /\ Running /\ Top.calling /\ Inst.op = "call" /\ f \in Top.todo
        /\ prog' = prog /\ CalleeMap' = CalleeMap
    BY DEF EnterCallee, Calling
  <1>2. TInv /\ Top \in Frame /\ Loops(prog, CalleeMap, Top)
    BY <1>1, TopOK, TopInStack DEF NestInv
  <1>3. PICK n \in Nat \ {0}, fr \in Frame :
            /\ n = Len(stack) /\ DOMAIN stack = 1 .. n
            /\ fr.fn = Top.fn /\ fr.bb = Top.bb /\ fr.ii = Top.ii /\ fr.calling = Top.calling
            /\ fr.todo = Top.todo \ {f}
            /\ DOMAIN stack' = 1 .. n + 1
            /\ \A i \in 1 .. n - 1 : stack'[i] = stack[i]
            /\ stack'[n] = fr
            /\ stack'[n + 1] = Activation(f)
    BY <1>2, EnterStack
  <1>4. /\ (n + 1) - 1 = n /\ \A i \in 1 .. n : i \in 1 .. n - 1 \/ i = n
        /\ \A i \in 1 .. n + 1 : i \in 1 .. n - 1 \/ i = n \/ i = n + 1
        /\ \A i \in 1 .. n - 1 : i \in 1 .. n /\ i + 1 \in 1 .. n
    BY <1>3
  <1>5. Len(stack') = n + 1
    <2>1. stack' \in Seq(Frame')
      BY DEF TInv, TypeOK
    <2> QED
      BY <1>3, <2>1
  <1>6. Top = stack[n]
    BY <1>3 DEF Top
  <1>7. /\ InstOf(prog, fr) = Inst /\ InstOf(prog, Top) = Inst
        /\ Loops(prog, CalleeMap, fr) /\ Calls(prog, CalleeMap, fr, f)
    <2>1. InstOf(prog, fr) = Inst /\ InstOf(prog, Top) = Inst
      BY <1>3 DEF InstOf, Inst
    <2> QED
      BY <1>1, <1>2, <1>3, <2>1 DEF Loops, Calls
  <1>8. stack'[n + 1].fn = f /\ ~stack'[n + 1].calling
    BY <1>3 DEF Activation
  <1>9. \A i \in 1 .. n + 1 : Loops(prog, CalleeMap, stack'[i])
    BY <1>3, <1>4, <1>7, <1>8 DEF NestInv, Loops
  <1>10. ASSUME NEW i \in 1 .. n
         PROVE  Calls(prog, CalleeMap, stack'[i], stack'[i + 1].fn)
    <2>1. CASE i \in 1 .. n - 1
      <3>1. stack'[i] = stack[i] /\ stack'[i + 1].fn = stack[i + 1].fn
        BY <1>3, <1>4, <1>6, <2>1
      <3> QED
        BY <1>3, <2>1, <3>1 DEF NestInv, CallersCall
    <2>2. CASE i = n
      BY <1>3, <1>7, <1>8, <2>2
    <2> QED
      BY <1>4, <2>1, <2>2
  <1> QED
    BY <1>1, <1>3, <1>4, <1>5, <1>9, <1>10 DEF NestInv, CallersCall

LEMMA NestLeave ==
  ASSUME NestInv, TInv', LeaveCallee
  PROVE  NestInv'
  <1>1. TInv /\ prog' = prog /\ CalleeMap' = CalleeMap
    BY DEF NestInv, LeaveCallee
  <1>2. PICK n \in Nat \ {0} :
            /\ DOMAIN stack = 1 .. n + 1 /\ Len(stack) = n + 1
            /\ DOMAIN stack' = 1 .. n /\ Len(stack') = n
            /\ \A i \in 1 .. n - 1 : stack'[i] = stack[i]
            /\ stack'[n].fn = stack[n].fn
            /\ stack'[n].bb = stack[n].bb /\ stack'[n].ii = stack[n].ii
            /\ stack'[n].calling = stack[n].calling /\ stack'[n].todo = stack[n].todo
    BY <1>1, Popped
  <1>3. /\ (n + 1) - 1 = n /\ n \in 1 .. n + 1
        /\ \A i \in 1 .. n : (i \in 1 .. n - 1 \/ i = n) /\ i \in 1 .. n + 1
        /\ \A i \in 1 .. n - 1 : i \in 1 .. n /\ i + 1 \in 1 .. n
    OBVIOUS
  <1>4. InstOf(prog, stack'[n]) = InstOf(prog, stack[n])
    BY <1>2 DEF InstOf
  <1>5. Loops(prog, CalleeMap, stack'[n])
    BY <1>2, <1>3, <1>4 DEF NestInv, Loops
  <1>6. \A i \in 1 .. n : Loops(prog, CalleeMap, stack'[i])
    BY <1>2, <1>3, <1>5 DEF NestInv
  <1>7. ASSUME NEW i \in 1 .. n - 1
        PROVE  Calls(prog, CalleeMap, stack'[i], stack'[i + 1].fn)
    <2>1. stack'[i] = stack[i] /\ stack'[i + 1].fn = stack[i + 1].fn /\ i \in 1 .. n
      BY <1>2, <1>3, <1>7
    <2> QED
      BY <1>2, <1>3, <2>1 DEF NestInv, CallersCall
  <1> QED
    BY <1>1, <1>2, <1>6, <1>7 DEF NestInv, CallersCall

LEMMA NextNestInv ==
  ASSUME NestInv, [Next]_vars
  PROVE  NestInv'
  <1>1. TInv'
    BY NextTInv DEF NestInv
  <1>2. CASE StartFunction
    <2>1. stack' = <<Activation(prog.fun[next])>>
      BY <1>2 DEF StartFunction
    <2>2. DOMAIN stack' = {1} /\ 1 .. Len(stack') - 1 = {} /\ ~stack'[1].calling
      BY <2>1 DEF Activation
    <2> QED
      BY <1>1, <2>2 DEF NestInv, CallersCall, Loops
  <1>3. CASE FinishFunction
    <2>1. DOMAIN stack' = {} /\ 1 .. Len(stack') - 1 = {}
      BY <1>3 DEF FinishFunction
    <2> QED
      BY <1>1, <2>1 DEF NestInv, CallersCall
  <1>4. CASE UNCHANGED vars
    BY <1>1, <1>4 DEF NestInv, CallersCall, vars
  <1> QED
    BY <1>1, <1>2, <1>3, <1>4, NestMoves, NestBlocks, NestEnter, NestLeave
    DEF Next, Moves, Finished

\* The functions from one activation of f to the next are linked in a circle.
LEMMA TwiceIsCircle ==
  ASSUME NestInv, NoCircle
  PROVE  AnalysedOnce
  <1> SUFFICES ASSUME NEW i \in DOMAIN stack, NEW j \in DOMAIN stack, i < j,
                      stack[i].fn = stack[j].fn
               PROVE  FALSE
    <2>1. stack \in Seq(Frame)
      BY DEF NestInv, TInv, TypeOK
    <2>2. \A m, n \in DOMAIN stack : m < n \/ n < m \/ m = n
      BY <2>1
    <2> QED
      BY <2>2, Zenon DEF AnalysedOnce
  <1>1. TInv /\ stack \in Seq(Frame) /\ prog \in Program
    BY DEF NestInv, TInv, TypeOK
  <1>2. /\ DOMAIN stack = 1 .. Len(stack) /\ i \in i .. j - 1
        /\ \A k \in i .. j - 1 : /\ k \in 1 .. Len(stack) - 1 /\ k \in DOMAIN stack
                                 /\ k + 1 = j \/ k + 1 \in i .. j - 1
    BY <1>1
  <1> DEFINE X == {stack[k].fn : k \in i .. j - 1}
  <1>3. X \in (SUBSET Func) \ {{}}
    <2>1. \A k \in DOMAIN stack : stack[k].fn \in Func
      BY <1>1, StackShape DEF Frame
    <2>2. \A k \in i .. j - 1 : stack[k].fn \in Func
      BY <1>2, <2>1
    <2>3. stack[i].fn \in X
      BY <1>2
    <2>4. X \subseteq Func
      BY <2>2
    <2> HIDE DEF X
    <2>5. X # {}
      BY <2>3
    <2> QED
      BY <2>4, <2>5, Zenon
  <1>4. ASSUME NEW k \in i .. j - 1
        PROVE  LinkedTo(stack[k].fn, stack[k + 1].fn) /\ stack[k + 1].fn \in X
    <2>1. Calls(prog, CalleeMap, stack[k], stack[k + 1].fn)
      BY <1>2 DEF NestInv, CallersCall
    <2>2. FrameOK(stack[k]) /\ stack[k] \in Frame /\ stack[k].calling
      BY <1>1, <1>2, <2>1, StackShape DEF Calls
    <2>3. /\ stack[k].bb \in prog.block[stack[k].fn]
          /\ stack[k].ii \in DOMAIN prog.code[stack[k].bb]
      <3>1. /\ stack[k].bb \in prog.block[stack[k].fn] /\ stack[k].bb \in Blocks
            /\ stack[k].ii \in Nat \ {0} /\ stack[k].ii <= Len(prog.code[stack[k].bb])
        BY <1>1, <2>2, StackShape DEF FrameOK, Frame
      <3>2. prog.code[stack[k].bb] \in Seq(InstsOf(prog))
        <4>1. IsModule(prog)
          BY <1>1, ModuleShape
        <4> QED
          BY <3>1, <4>1 DEF IsModule, Blocks
      <3> QED
        BY <3>1, <3>2
    <2>4. LinkedTo(stack[k].fn, stack[k + 1].fn)
      BY <2>1, <2>3 DEF Calls, InstOf, LinkedTo
    <2>5. stack[k + 1].fn \in X
      BY <1>2
    <2> QED
      BY <2>4, <2>5
  <1>5. \A f \in X : \E g \in X : LinkedTo(f, g)
    BY <1>4
  <1> HIDE DEF X
  <1> QED
    BY <1>3, <1>5 DEF NoCircle

\* The numbers up to n are n.
LEMMA UpTo ==
  ASSUME NEW n \in Nat
  PROVE  IsFiniteSet(1 .. n) /\ Cardinality(1 .. n) = n
  <1>1. IF 1 > n THEN 0 = n ELSE n - 1 + 1 = n
    OBVIOUS
  <1> QED
    BY <1>1, FS_Interval

\* Every activation but the last stands at a call that is linked to the function of the
\* next one, and what is left of a loop over callees are callees of its call: processCallInst
\* enters nothing that linkCallSiteAndCallee has not linked.
THEOREM Nesting == Spec => []NestInv
  <1>1. Init => NestInv
    <2> SUFFICES ASSUME Init PROVE NestInv
      OBVIOUS
    <2>1. 1 .. Len(stack) - 1 = {} /\ DOMAIN stack = {}
      BY DEF Init
    <2> QED
      BY <2>1, InitTInv DEF NestInv, CallersCall
  <1>2. NestInv /\ [Next]_vars => NestInv'
    BY NextNestInv
  <1> QED
    BY <1>1, <1>2, PTL DEF Spec

\* The recursion over callees stays out of the functions it is in the midst of as long as
\* the calls linked so far make no circle, on every module and in every order.
THEOREM AnalysedOnceAtATime == Spec => [](NoCircle => AnalysedOnce)
  <1>1. NestInv => (NoCircle => AnalysedOnce)
    BY TwiceIsCircle
  <1> QED
    BY <1>1, Nesting, PTL

\* And so there are never more activations than functions: compForwardDataflowInter, which
\* has no bound of its own on its recursion, needs none, and a model with MaxDepth that
\* large leaves no behaviour of the pass out.
THEOREM DepthBounded == Spec => [](NoCircle => Len(stack) <= Len(prog.fun))
  <1>1. ASSUME NestInv, NoCircle
        PROVE  Len(stack) <= Len(prog.fun)
    <2>1. TInv /\ stack \in Seq(Frame) /\ AnalysedOnce /\ IsModule(prog)
      BY <1>1, TwiceIsCircle, ModuleShape DEF NestInv, TInv, TypeOK
    <2>2. prog.fun \in Seq(prog.value) /\ Len(prog.fun) \in Nat /\ Len(stack) \in Nat
      BY <2>1 DEF IsModule
    <2>3. /\ DOMAIN stack = 1 .. Len(stack) /\ DOMAIN prog.fun = 1 .. Len(prog.fun)
      BY <2>1, <2>2
    <2>4. IsFiniteSet(Func) /\ Cardinality(Func) <= Len(prog.fun)
      <3>1. /\ IsFiniteSet(1 .. Len(prog.fun))
            /\ Cardinality(1 .. Len(prog.fun)) = Len(prog.fun)
        BY <2>2, UpTo
      <3> DEFINE names == [i \in 1 .. Len(prog.fun) |-> prog.fun[i]]
      <3>2. names \in Surjection(1 .. Len(prog.fun), Func)
        BY <2>3 DEF Surjection, FuncsOf, Func
      <3> HIDE DEF names
      <3> QED
        BY <3>1, <3>2, FS_Surjection
    <2>5. /\ IsFiniteSet(1 .. Len(stack)) /\ Cardinality(1 .. Len(stack)) = Len(stack)
      BY <2>2, UpTo
    <2> DEFINE fns == [i \in 1 .. Len(stack) |-> stack[i].fn]
    <2>6. fns \in Injection(1 .. Len(stack), Func)
      <3>1. \A i \in 1 .. Len(stack) : stack[i].fn \in Func
        BY <2>1, <2>3, StackShape DEF Frame
      <3>2. \A i, j \in 1 .. Len(stack) : stack[i].fn = stack[j].fn => i = j
        BY <2>1, <2>3 DEF AnalysedOnce
      <3> QED
        BY <3>1, <3>2 DEF Injection, IsInjective
    <2> HIDE DEF fns
    <2>7. Cardinality(1 .. Len(stack)) <= Cardinality(Func)
      BY <2>4, <2>6, FS_Injection
    <2>8. Cardinality(Func) \in Nat
      BY <2>4, FS_CardinalityType
    <2> QED
      BY <2>2, <2>4, <2>5, <2>7, <2>8
  <1>2. NestInv => (NoCircle => Len(stack) <= Len(prog.fun))
    BY <1>1
  <1> QED
    BY <1>2, Nesting, PTL
=============================================================================
