---------------------------- MODULE CalleeSearch ----------------------------
(***************************************************************************)
(* FuncPtrVisitor::getCallees (assignment3/src/FuncPtr.cpp) on an indirect *)
(* call: the search from the called value through the points-to sets for   *)
(* the functions to link. ValueSet is a SmallPtrSet, whose first element   *)
(* is unspecified: the model takes any element of the worklist.            *)
(***************************************************************************)
EXTENDS PointsTo

CONSTANTS
    Value,      \* the values of the module
    Func        \* those that are functions

ASSUME FuncAssumption == Func \subseteq Value /\ IsFiniteSet(Value)

VARIABLES
    funcPtrMap,     \* the points-to sets, {} when a value has none
    called,         \* CI->getCalledValue()
    worklist,
    visited,
    linked          \* what the search adds to CalleeMap[CI]

vars == <<funcPtrMap, called, worklist, visited, linked>>

\* The shape of the search's state: what is linked is a function.
TypeOK ==
    /\ funcPtrMap \in [Value -> SUBSET Value]
    /\ called \in Value
    /\ worklist \subseteq Value
    /\ visited \subseteq Value
    /\ linked \subseteq Func

Init ==
    /\ funcPtrMap \in [Value -> SUBSET Value]
    \* "trick: let function points-to function"
    /\ \A f \in Func : funcPtrMap[f] = {f}
    /\ called \in Value
    /\ worklist = {called}
    /\ visited = {}
    /\ linked = {}

\* linkCallSiteAndCallee, on the side of CalleeMap.
LinkCallSiteAndCallee(f) == linked' = linked \cup {f}

\* Whether a value is linked and not expanded (the mutant links the called value).
FunctionOrCalled(u) == u \in Func \cup {called}
IsFunction(u) == u \in Func

\* What the expansion of u adds to the worklist. Mutants: what was visited is
\* added again; only one target is followed.
AllTargets(u) == funcPtrMap[u]
OneTarget(u) == IF funcPtrMap[u] = {} THEN {} ELSE {CHOOSE v \in funcPtrMap[u] : TRUE} \ visited'
NewTargets(u) == funcPtrMap[u] \ visited'

Visit(u) ==
    /\ u \in worklist
    /\ visited' = visited \cup {u}
    /\ \/ /\ IsFunction(u)
          /\ LinkCallSiteAndCallee(u)
          /\ worklist' = worklist \ {u}
       \/ /\ ~IsFunction(u)
          /\ worklist' = (worklist \ {u}) \cup NewTargets(u)
          /\ UNCHANGED linked
    /\ UNCHANGED <<funcPtrMap, called>>

Done == worklist = {}

\* The search has returned.
Finished == Done /\ UNCHANGED vars

Next == (\E u \in Value : Visit(u)) \/ Finished

Spec == Init /\ [][Next]_vars /\ WF_vars(Next)
-----------------------------------------------------------------------------
\* X holds the called value and, with a value that is not a function, whatever
\* that value points to.
Closed(X) == called \in X /\ \A u \in X \ Func : funcPtrMap[u] \subseteq X

\* The values no such set leaves out: what the called value may denote.
Denoted == {v \in Value : \A X \in SUBSET Value : v \notin X => ~Closed(X)}

(***************************************************************************)
(* When the search ends it has linked exactly the functions the called     *)
(* value may denote, in whatever order the worklist was emptied and        *)
(* however the points-to sets are cyclic.                                  *)
(***************************************************************************)
LinksWhatIsDenoted == Done => linked = Denoted \cap Func

\* The operator FuncPtr.tla uses for the whole search computes the same.
MatchesSearchedFrom == Done => linked = SearchedFrom(funcPtrMap, Func, called) \cap Func

Promise == INSTANCE LinkCallees WITH goal <- Denoted \cap Func, returned <- Done

\* As its caller sees it, getCallees links one function after the other of those the called
\* value may denote, never another one and none twice, and does not return before it has
\* them all.
KeepsPromise == Promise!Spec

\* A value is visited once: the search ends although points-to sets may be cyclic.
VisitedOnce == worklist \cap visited = {}

\* getCallees returns, on every points-to map: its worklist runs empty.
Termination == <>Done
=============================================================================
