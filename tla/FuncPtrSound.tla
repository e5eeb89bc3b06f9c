---------------------------- MODULE FuncPtrSound ----------------------------
(***************************************************************************)
(* First the analysis runs on a module, then the module itself: whatever a *)
(* run calls, the analysis has listed.                                     *)
(***************************************************************************)
EXTENDS FuncPtr

CONSTANTS MaxObjects, MaxCalls

VARIABLES frames, memory

M == INSTANCE IRMachine

(***************************************************************************)
(* What LLVM's verifier guarantees of a module: values have one definition *)
(* and belong to one function, phis have a value per incoming block and    *)
(* are not their own operands, control stays in its function and does not  *)
(* return to the entry, and a return ends its block.                       *)
(***************************************************************************)
CodeOf(p, b) == {p.code[b][k] : k \in DOMAIN p.code[b]}
Defines(i) == i.op \in {"alloca", "load", "cast", "gep", "phi", "call"}
Registers(p, f) ==
    {p.param[f][j] : j \in DOMAIN p.param[f]}
    \cup {i.dst : i \in {d \in UNION {CodeOf(p, b) : b \in p.block[f]} : Defines(d)}}

DefinedOnce(p) ==
    \A b, c \in BlocksOf(p) : \A k \in DOMAIN p.code[b], n \in DOMAIN p.code[c] :
        /\ Defines(p.code[b][k]) /\ Defines(p.code[c][n])
        /\ p.code[b][k].dst = p.code[c][n].dst
        => b = c /\ k = n

IsRunnable(p) ==
    /\ IsFiniteSet(p.value)
    /\ DOMAIN p.block = FuncsOf(p) /\ DOMAIN p.code = BlocksOf(p)
    /\ DOMAIN p.entry = {f \in FuncsOf(p) : p.block[f] # {}}
    /\ \A f \in FuncsOf(p) : Registers(p, f) \subseteq p.value \ FuncsOf(p)
    /\ \A f, g \in FuncsOf(p) : f # g => Registers(p, f) \cap Registers(p, g) = {}
    /\ DefinedOnce(p)
    /\ \A f \in DOMAIN p.entry : \A b \in BlocksOf(p) : p.entry[f] \notin p.succ[b]
    /\ \A b \in BlocksOf(p) :
          /\ b \in DOMAIN p.cond => {p.cond[b].then, p.cond[b].else} \subseteq p.succ[b]
          /\ \A k \in DOMAIN p.code[b] : LET i == p.code[b][k] IN
                /\ i.op = "phi" => DOMAIN i.at = DOMAIN i.src /\ \A j \in DOMAIN i.src : i.src[j] # i.dst
                /\ i.op = "call" => Called(i) \in p.value
                /\ i.op = "ret" => k = Len(p.code[b]) /\ p.succ[b] = {}

ASSUME RunnableAssumption == \A p \in Program : IsRunnable(p)

\* The machine's undefined value has the empty name.
ASSUME NamedAssumption == \A p \in Program : "" \notin FuncsOf(p)

(***************************************************************************)
(* What the analysis looks at. A site stands for one object of one field,  *)
(* so that a store to it may replace what it holds: allocations are        *)
(* executed once, in the entry of a function that nothing calls            *)
(* (NobodyCalls), and malloc is called by its name only. The constants     *)
(* that name the sites are different, and no memcpy writes to two of them. *)
(***************************************************************************)
Allocates(i) == i.op = "alloca" \/ (i.op = "call" /\ Called(i) = "malloc")

OneObjectPerSite(p) ==
    /\ "malloc" \notin DOMAIN p.entry
    /\ \A b \in BlocksOf(p) : \A i \in CodeOf(p, b) :
          /\ i.op # "memcpy"
          /\ i.op = "gep" => Len(i.at) = 1 /\ i.at[1] = M!FirstField
          /\ Allocates(i) => \E f \in DOMAIN p.entry : b = p.entry[f]
          /\ \A j \in DOMAIN i.src : i.src[j] # "malloc"
    /\ \A n \in DOMAIN p.constant :
          p.constant[n] \notin FuncsOf(p) \cup UNION {Registers(p, f) : f \in FuncsOf(p)}

Analyse == Next /\ UNCHANGED <<frames, memory>>
Execute == Done /\ M!Run /\ UNCHANGED vars

SoundVars == <<vars, frames, memory>>

SoundInit == Init /\ M!Init
SoundNext == Analyse \/ Execute
SoundSpec == SoundInit /\ [][SoundNext]_SoundVars /\ WF_SoundVars(SoundNext)
-----------------------------------------------------------------------------
\* README.md (assignment 3): the output lists "the callee functions" of each call:
\* when a run of the analysed module is about to call a function, the analysis
\* has linked that function to that call instruction.
CalleesComplete ==
    M!AtCall /\ M!IsFun(M!Value(Called(M!Inst))) => M!Callee \in CalleeMap[M!Inst.dst]

\* "trick: let function points-to function" (FuncPtr.cpp): every function a solver is started
\* with knows that a function's name denotes the function, although an entry block seen for
\* the first time starts from what its caller holds and not from initval.
FunctionsKept ==
    \A b \in DOMAIN result : \A f \in Func : f \in result[b].first[f]

\* Calls that are linked have a parameter for each argument.
ArgumentsFit ==
    \A i \in InstsOf(prog) : i.op = "call" =>
        \A f \in CalleeMap[i.dst] \ {"malloc"} : DOMAIN i.src \subseteq DOMAIN prog.param[f]

\* A function that allocates is linked to no call.
NobodyCalls ==
    \A f \in Func : (\E b \in prog.block[f] : \E i \in CodeOf(prog, b) : Allocates(i)) =>
        \A c \in CallSites : f \notin CalleeMap[c]

\* What CalleesComplete takes of the analysis itself, whatever the module's size: the links
\* make no circle, no call is linked to malloc and another function, and the above.
WithinReach == NoCircle /\ MallocAlone /\ FunctionsKept /\ ArgumentsFit /\ NobodyCalls
=============================================================================
