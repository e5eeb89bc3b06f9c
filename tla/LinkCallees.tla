----------------------------- MODULE LinkCallees ----------------------------
(***************************************************************************)
(* What FuncPtrVisitor::getCallees promises its caller, whatever way it    *)
(* goes about it: it links the functions the called value may denote, each *)
(* once and no others, and does not return before.                         *)
(***************************************************************************)
CONSTANT Func

VARIABLES
    goal,       \* the functions the called value may denote
    linked,     \* those linked so far
    returned

vars == <<goal, linked, returned>>

Init ==
    /\ goal \subseteq Func
    /\ linked = {}
    /\ returned = FALSE

\* The last function to be linked may be the last thing the search does.
Link ==
    /\ ~returned
    /\ \E f \in goal \ linked : linked' = linked \cup {f}
    /\ returned' \in {FALSE, linked' = goal}
    /\ UNCHANGED goal

Return ==
    /\ ~returned
    /\ linked = goal
    /\ returned' = TRUE
    /\ UNCHANGED <<goal, linked>>

Next == Link \/ Return

Spec == Init /\ [][Next]_vars
=============================================================================
