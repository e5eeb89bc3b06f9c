----------------------------- MODULE CallGraph -----------------------------
(***************************************************************************)
(* The call graph builder of assignment2/src/LLVMAssignment.cpp.           *)
(*                                                                         *)
(* It binds each function pointer to the pointers it may be copied from    *)
(* and to the functions it may be, ignoring memory and the order of        *)
(* instructions, in rounds: close the bindings, then visit every call,     *)
(* until a round adds nothing.                                             *)
(*                                                                         *)
(* A std::map from a key to a set is a set of pairs here. Maps and sets    *)
(* are ordered by addresses, which the allocator decides: the model takes  *)
(* their elements in any order. Call instructions come in module order.    *)
(***************************************************************************)
EXTENDS PointsTo

CONSTANT Program    \* the modules the pass may be run on

(***************************************************************************)
(* Besides the fields FuncPtr.tla has (fun, block, param, code, succ, ...) *)
(* a module has                                                            *)
(*   pointer  the values of function pointer type, functions and null      *)
(*            pointers excepted                                            *)
(*   scalar   the functions that return, and the calls that yield, an      *)
(*            integer or a function pointer                                *)
(*   call     its calls in module order, as pairs of a function and the    *)
(*            instruction                                                  *)
(*   cond     per block that ends in "br (icmp sgt l, r)" of two           *)
(*            constants, [l, r, then, else]                                *)
(***************************************************************************)
FuncsOf(p) == {p.fun[i] : i \in DOMAIN p.fun}
CodeOf(p, f) == UNION {{p.code[b][i] : i \in DOMAIN p.code[b]} : b \in p.block[f]}
InstsOf(p, op) ==
    UNION {{<<f, inst>> : inst \in {i \in CodeOf(p, f) : i.op = op}} : f \in FuncsOf(p)}

\* The incoming blocks of a phi that canReach is asked about.
AskedAbout(p, f, phi) ==
    {phi.at[j] : j \in {k \in DOMAIN phi.at : phi.src[k] \in FuncsOf(p) \cup p.pointer}}

IsModule(p) ==
  /\ {p.call[i] : i \in DOMAIN p.call} = InstsOf(p, "call")
  /\ p.call \in Seq(InstsOf(p, "call"))
  /\ p.fun \in Seq(p.value)
  /\ \A f \in FuncsOf(p) :
        /\ p.param[f] \in Seq(p.value)
        /\ IsFiniteSet(p.block[f])
        /\ \A i \in CodeOf(p, f) :
              /\ i.src \in Seq(p.value)
              /\ i.op # "ret" => i.dst \in p.value
              /\ i.op = "call" => Called(i) \in p.value
  /\ \A f \in FuncsOf(p) : \A b \in p.block[f] :
        /\ p.code[b] \in Seq(CodeOf(p, f))
        \* no switch: canReach takes any other terminator for a branch
        /\ Cardinality(p.succ[b]) <= 2
        \* a block with one successor and one predecessor has a predecessor that
        \* branches: canReach asks for its condition
        /\ \A i \in DOMAIN p.code[b] : p.code[b][i].op = "phi" =>
              \A c \in AskedAbout(p, f, p.code[b][i]) : \A d \in p.block[f] :
                  p.succ[c] = {b} /\ {e \in p.block[f] : c \in p.succ[e]} = {d} =>
                      Cardinality(p.succ[d]) = 2

ASSUME ProgramAssumption == \A p \in Program : IsModule(p)

VARIABLES
    prog,       \* the module under analysis
    pvVals,     \* <<u, f>>: pointer u may be function f
    pvBinds,    \* <<u, v>>: pointer u may be a copy of v
    callGraph,  \* <<s, f>>: call s may call f
    keys,       \* the calls that have an entry, possibly empty, in callGraph
    phase,      \* "merge" and "build" in turn, then "done"
    todo,       \* merge: the keys of pvBinds still to be visited
    key,        \* merge: the key being visited
    left,       \* merge: its bindings still to be visited
    at,         \* build: the call to be visited next
    changed     \* whether this round added something

vars == <<prog, pvVals, pvBinds, callGraph, keys, phase, todo, key, left, at, changed>>

Func == FuncsOf(prog)
Code(f) == CodeOf(prog, f)

\* A call is its function and its instruction; so is a phi. An FVPair is a value
\* in a function.
Site == InstsOf(prog, "call")
Phis == InstsOf(prog, "phi")
FVPair(s, v) == <<s[1], v>>
CalledPair(s) == FVPair(s, Called(s[2]))
ResultPair(s) == FVPair(s, s[2].dst)
Pair == Func \X prog.value
\* What a relation gives for x.
Image(R, x) == {e[2] : e \in {d \in R : d[1] = x}}

CalleesOf(s) == Image(callGraph, s)
-----------------------------------------------------------------------------
Pred(b) == UNION {{c \in prog.block[f] : b \in prog.succ[c]} : f \in Func}

\* The branch that decides whether b is entered or, if b branches itself, left.
Deciding(b) ==
    IF Cardinality(prog.succ[b]) = 1
    THEN {c \in Pred(b) : Pred(b) = {c}}
    ELSE {b}

AlwaysTrue(cmp)  == cmp.l > cmp.r
AlwaysFalse(cmp) == cmp.l <= cmp.r

\* Whether control may come from block b: not when b is the branch a condition on
\* constants never takes. (Mutants: nothing is ever excluded; the two branches
\* are mistaken for each other.)
ReachAlways(b) == TRUE
ReachSwapped(b) ==
    \A c \in Deciding(b) \cap DOMAIN prog.cond :
        LET cmp == prog.cond[c]
        IN  ~(AlwaysFalse(cmp) /\ b = cmp.else) /\ ~(AlwaysTrue(cmp) /\ b = cmp.then)
CanReach(b) ==
    \A c \in Deciding(b) \cap DOMAIN prog.cond :
        LET cmp == prog.cond[c]
        IN  ~(AlwaysFalse(cmp) /\ b = cmp.then) /\ ~(AlwaysTrue(cmp) /\ b = cmp.else)

\* What the phis say, before any call is looked at.
Incoming(s) == {s[2].src[j] : j \in {k \in DOMAIN s[2].src : CanReach(s[2].at[k])}}

IntraPVVals ==
    UNION {{<<ResultPair(s), f>> : f \in Incoming(s) \cap Func} : s \in Phis}
IntraPVBinds ==
    UNION {{<<ResultPair(s), FVPair(s, v)>> : v \in Incoming(s) \cap prog.pointer} : s \in Phis}

RetVals(f) ==
    IF f \in prog.scalar
    THEN UNION {{i.src[j] : j \in DOMAIN i.src} : i \in {i \in Code(f) : i.op = "ret"}}
    ELSE {}

\* The calls that name a function (the mutant does not ask whether they do).
AnyCalls == {<<s, Called(s[2])>> : s \in Site}
DirectCalls == {<<s, Called(s[2])>> : s \in {s \in Site : Called(s[2]) \in Func}}

Init ==
    /\ prog \in Program
    /\ pvVals = IntraPVVals
    /\ pvBinds = IntraPVBinds
    /\ callGraph = DirectCalls
    /\ keys = {e[1] : e \in DirectCalls}
    /\ phase = "merge"
    /\ todo = {e[1] : e \in pvBinds}
    /\ key = <<>> /\ left = {} /\ at = 1
    /\ changed = FALSE

\* propagateBindings reaches the key u.
TakeKey(u) ==
    /\ phase = "merge" /\ left = {}
    /\ u \in todo
    /\ todo' = todo \ {u}
    /\ key' = u
    /\ left' = Image(pvBinds, u)
    /\ UNCHANGED <<prog, pvVals, pvBinds, callGraph, keys, phase, at, changed>>

\* mergeBinds: a copy of v is a copy of what v is a copy of. The loop runs over
\* the set that grows: what is inserted behind the place it has reached is visited
\* in this round, the rest is not.
MergeBinds(v) ==
    /\ phase = "merge" /\ v \in left
    /\ LET new == Image(pvBinds, v) \ Image(pvBinds, key)
       IN  /\ pvBinds' = pvBinds \cup {<<key, w>> : w \in new}
           /\ \E behind \in SUBSET new : left' = (left \ {v}) \cup behind
           /\ changed' = (changed \/ new # {})
    /\ UNCHANGED <<prog, pvVals, callGraph, keys, phase, todo, key, at>>

StartBuild ==
    /\ phase = "merge" /\ left = {} /\ todo = {}
    /\ phase' = "build"
    /\ at' = 1
    /\ UNCHANGED <<prog, pvVals, pvBinds, callGraph, keys, todo, key, left, changed>>

\* The functions the called value of s may be: its own values and those of its
\* bindings (the mutant forgets the bindings).
OwnValues(s) == Image(pvVals, CalledPair(s))
Found(s) ==
    Image(pvVals, CalledPair(s))
    \cup UNION {Image(pvVals, v) : v \in Image(pvBinds, CalledPair(s))}

Args(s) == DOMAIN s[2].src

\* addBinds4Params, for the callees F of s.
ParamVals(s, F) ==
    {<< <<f, prog.param[f][j]>>, s[2].src[j]>> :
        f \in F, j \in {k \in Args(s) : s[2].src[k] \in Func}}
ParamBinds(s, F) ==
    {<< <<f, prog.param[f][j]>>, FVPair(s, s[2].src[j])>> :
        f \in F, j \in {k \in Args(s) : s[2].src[k] \in prog.pointer}}

\* addBinds4Rets (the mutant binds nothing).
NoRetBinds(s, F) == {}
RetBinds(s, F) ==
    IF s[2].dst \in prog.scalar
    THEN UNION {{<<ResultPair(s), <<f, v>> >> : v \in RetVals(f)} : f \in F}
    ELSE {}

\* Both look the call up with operator [], which gives it an entry.
LooksUp(s) ==
    \/ \E j \in Args(s) : s[2].src[j] \in Func \cup prog.pointer
    \/ s[2].dst \in prog.scalar

\* Whether a visit adds something (mutants: only values count; always).
AddsValues(vals, binds) == ~(vals \subseteq pvVals)
AlwaysAdds(vals, binds) == TRUE
Adds(vals, binds) == ~(vals \subseteq pvVals /\ binds \subseteq pvBinds)

\* buildCallGraph reaches the next call.
VisitCall ==
    /\ phase = "build"
    /\ at <= Len(prog.call)
    /\ at' = at + 1
    /\ callGraph' = callGraph \cup {<<prog.call[at], f>> : f \in Found(prog.call[at])}
    /\ LET s       == prog.call[at]
           callees == Image(callGraph', s)
           vals    == ParamVals(s, callees)
           binds   == ParamBinds(s, callees) \cup RetBinds(s, callees)
       IN  /\ pvVals' = pvVals \cup vals
           /\ pvBinds' = pvBinds \cup binds
           /\ changed' = (changed \/ Adds(vals, binds))
           /\ keys' = IF callees # {} \/ LooksUp(s) THEN keys \cup {s} ELSE keys
    /\ UNCHANGED <<prog, phase, todo, key, left>>

\* The loop of runOnModule: another round, unless this one added nothing.
EndRound ==
    /\ phase = "build" /\ at > Len(prog.call)
    /\ IF changed
       THEN phase' = "merge" /\ todo' = {e[1] : e \in pvBinds}
       ELSE phase' = "done" /\ UNCHANGED todo
    /\ changed' = FALSE
    /\ UNCHANGED <<prog, pvVals, pvBinds, callGraph, keys, key, left, at>>

Done == phase = "done"

\* runOnModule has returned.
Finished == Done /\ UNCHANGED vars

Next ==
    \/ \E u \in todo : TakeKey(u)
    \/ \E v \in left : MergeBinds(v)
    \/ StartBuild
    \/ VisitCall
    \/ EndRound
    \/ Finished

\* One thread runs the pass, and nothing blocks it.
Spec == Init /\ [][Next]_vars /\ WF_vars(Next)
-----------------------------------------------------------------------------
\* The shape of the builder's state: the call graph leads from calls to functions, a
\* call with a callee has an entry, and bindings are between pointers.
TypeOK ==
    /\ IsModule(prog)
    /\ pvVals \subseteq Pair \X Func
    /\ pvBinds \subseteq Pair \X Pair
    /\ callGraph \subseteq Site \X Func
    /\ {e[1] : e \in callGraph} \subseteq keys /\ keys \subseteq Site
    /\ phase \in {"merge", "build", "done"}
    /\ todo \subseteq Pair /\ key \in Pair \cup {<<>>} /\ left \subseteq Pair
    /\ at \in 1 .. Len(prog.call) + 1
    /\ changed \in BOOLEAN

(***************************************************************************)
(* The rules the builder follows, without rounds: what it starts from,     *)
(* that copying is transitive, who a call calls, and what a call passes.   *)
(***************************************************************************)
Transitive(binds) == \A e, d \in binds : e[2] = d[1] => <<e[1], d[2]>> \in binds

ClosedAt(s, vals, binds, calls) ==
    /\ Image(vals, CalledPair(s)) \subseteq Image(calls, s)
    /\ \A v \in Image(binds, CalledPair(s)) : Image(vals, v) \subseteq Image(calls, s)
    /\ ParamVals(s, Image(calls, s)) \subseteq vals
    /\ ParamBinds(s, Image(calls, s)) \cup RetBinds(s, Image(calls, s)) \subseteq binds

Closed(vals, binds, calls) ==
    /\ IntraPVVals \subseteq vals
    /\ IntraPVBinds \subseteq binds
    /\ DirectCalls \subseteq calls
    /\ Transitive(binds)
    /\ \A s \in Site : ClosedAt(s, vals, binds, calls)

\* When a round adds nothing, everything the rules ask for is there, although the
\* call graph itself has no part in what counts as a change, and although a set is
\* merged while it grows.
ClosedWhenDone == Done => Closed(pvVals, pvBinds, callGraph)

(***************************************************************************)
(* A second description, by reachability: given the calls found so far,    *)
(* pointers are the nodes of a graph whose edges are the copies, and a     *)
(* call calls the functions that are assigned to some pointer its called   *)
(* pointer can be traced back to.                                          *)
(***************************************************************************)
Copies(calls) ==
    IntraPVBinds \cup UNION {ParamBinds(s, Image(calls, s)) \cup RetBinds(s, Image(calls, s)) : s \in Site}

Assigned(calls) == IntraPVVals \cup UNION {ParamVals(s, Image(calls, s)) : s \in Site}

TracedBack(E, u) ==
    LET within[n \in Nat] ==
            IF n = 0 THEN {u}
            ELSE UNION {X \cup {e[2] : e \in {d \in E : d[1] \in X}} : X \in {within[n - 1]}}
    IN  within[Cardinality(E)]

MoreCalls(calls, copies, assigned) ==
    calls \cup UNION {UNION {{<<s, f>> : f \in Image(assigned, u)} :
                                 u \in TracedBack(copies, CalledPair(s))} : s \in Site}

TracedCalls ==
    LET after[n \in Nat] ==
            IF n = 0 THEN DirectCalls
            ELSE UNION {MoreCalls(C, Copies(C), Assigned(C)) : C \in {after[n - 1]}}
    IN  after[Cardinality(Site) * Cardinality(Func)]

\* The call graph is the one traced back: nothing is missing and nothing is there
\* without a reason, whatever the order of the maps.
ExactWhenDone == Done => callGraph = TracedCalls

\* The callees of each call are those the comment at the end of the test lists.
ExpectedCallees ==
    Done => \A i \in DOMAIN prog.expected : \A s \in Site :
                s[2].dst = prog.expected[i][1] => CalleesOf(s) = prog.expected[i][2]

\* README.md:101-109: a line of output names a line of code and its callees.
\* dumpCallGraph prints the first callee of every entry without asking for one.
EveryEntryHasCallees == Done => \A s \in keys : CalleesOf(s) # {}

\* The rounds end: bindings through recursive functions and loops do not go on
\* producing new ones.
Termination == <>Done
=============================================================================
