----------------------------- MODULE MCFuncPtr -----------------------------
(***************************************************************************)
(* The analysis alone, on modules of the test suite and on the members of  *)
(* the family that have a loop.                                            *)
(***************************************************************************)
EXTENDS FuncPtr, TestModules, FamilyModules

Tests == {Test06, Test18, Test20, Test23, Test27, Test29}

TestsAndLoops == Tests \cup LoopFamily

\* No function of these modules runs for ever.
ASSUME ReturningAssumption == \A p \in TestsAndLoops : ReachesExit(p)

OnlyTest28 == {Test28}
=============================================================================
