-------------------------- MODULE MCFuncPtrSound --------------------------
(***************************************************************************)
(* The analysis and the execution of the modules of FamilyModules.         *)
(***************************************************************************)
EXTENDS FuncPtrSound, FamilyModules

\* The members without a memcpy are modules the theorem of FuncPtrSoundProofs.tla covers.
ASSUME FamilyCovered ==
    \A p \in Family : (\A i \in InstsOf(p) : i.op # "memcpy") => OneObjectPerSite(p)
=============================================================================
