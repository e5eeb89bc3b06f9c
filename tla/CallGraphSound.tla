--------------------------- MODULE CallGraphSound ---------------------------
(***************************************************************************)
(* First the call graph of a module is built, then the module runs:        *)
(* whatever a run calls, the call graph has.                               *)
(***************************************************************************)
EXTENDS CallGraph

CONSTANTS MaxObjects, MaxCalls

VARIABLES frames, memory

M == INSTANCE IRMachine

(***************************************************************************)
(* What LLVM's verifier guarantees of a module: control stays in its       *)
(* function and does not return to the entry, which has no phis; a phi has *)
(* a value per incoming block; a branch on constants has the two targets   *)
(* it is between; phis, calls and returns are of their operands' types.    *)
(***************************************************************************)
IsRunnable(p) ==
    /\ DOMAIN p.block = FuncsOf(p)
    /\ \A f \in DOMAIN p.entry :
          /\ f \in FuncsOf(p) /\ p.entry[f] \in p.block[f]
          /\ \A g \in FuncsOf(p) : \A b \in p.block[g] : p.entry[f] \notin p.succ[b]
          /\ \A i \in DOMAIN p.code[p.entry[f]] : p.code[p.entry[f]][i].op # "phi"
    /\ \A f \in FuncsOf(p) :
          /\ p.block[f] \subseteq DOMAIN p.code
          /\ \A b \in p.block[f] :
                /\ p.succ[b] \subseteq p.block[f]
                /\ b \in DOMAIN p.cond =>
                      /\ p.succ[b] = {p.cond[b].then, p.cond[b].else}
                      /\ p.cond[b].then # p.cond[b].else
                      /\ p.cond[b].l \in Int /\ p.cond[b].r \in Int
          /\ \A i \in CodeOf(p, f) :
                /\ i.op = "phi" =>
                      /\ DOMAIN i.at = DOMAIN i.src
                      /\ \A j \in DOMAIN i.src :
                            i.src[j] \in FuncsOf(p) \cup p.pointer => i.dst \in p.pointer
                /\ i.op = "call" /\ i.dst \in p.pointer => i.dst \in p.scalar
                /\ i.op = "ret" /\ i.src # <<>> /\ i.src[1] \in p.pointer => f \in p.scalar

ASSUME RunnableAssumption == \A p \in Program : IsRunnable(p)

\* The machine's undefined value has the empty name.
ASSUME NamedAssumption == \A p \in Program : "" \notin FuncsOf(p)

(***************************************************************************)
(* What the builder looks at: functions pass from register to register     *)
(* through phis, arguments and returned registers.                         *)
(***************************************************************************)
OnlyPasses(p) ==
    /\ \A f \in FuncsOf(p) : \A i \in CodeOf(p, f) :
          \* no function goes through memory or a cast
          /\ i.op \in {"store", "cast"} => i.src[1] \notin FuncsOf(p) \cup p.pointer
          \* and none is returned by its name
          /\ i.op = "ret" /\ i.src # <<>> => i.src[1] \notin FuncsOf(p)
    \* canReach takes a block for the target of its own branch
    /\ \A f \in FuncsOf(p) : \A b \in p.block[f] \cap DOMAIN p.cond : b \notin p.succ[b]

Analyse == Next /\ UNCHANGED <<frames, memory>>
Execute == Done /\ M!Run /\ UNCHANGED vars

SoundVars == <<vars, frames, memory>>

SoundInit == Init /\ M!Init
SoundNext == Analyse \/ Execute
SoundSpec == SoundInit /\ [][SoundNext]_SoundVars /\ WF_SoundVars(SoundNext)
-----------------------------------------------------------------------------
\* README.md (assignment 2) asks for "a basic Call Graph builder": when a run of the
\* analysed module is about to call a function, the call graph has that edge.
CalleesComplete ==
    M!AtCall /\ M!IsFun(M!Value(Called(M!Inst)))
        => <<<<M!Current.fn, M!Inst>>, M!Callee>> \in callGraph

\* A run calls functions by their own type, as C asks of a defined call: an argument that is
\* a function pointer goes to a parameter that is one, and so does what is returned.
CallsMatch ==
    M!AtCall /\ M!Value(Called(M!Inst)) \in {M!Fun(f) : f \in DOMAIN prog.entry} =>
        /\ DOMAIN M!Inst.src \subseteq DOMAIN prog.param[M!Callee]
        /\ \A j \in DOMAIN M!Inst.src :
              M!Inst.src[j] \in Func \cup prog.pointer
                  => prog.param[M!Callee][j] \in prog.pointer
        /\ \A i \in Code(M!Callee) :
              i.op = "ret" /\ i.src # <<>> /\ i.src[1] \in prog.pointer
                  => M!Inst.dst \in prog.pointer
=============================================================================
