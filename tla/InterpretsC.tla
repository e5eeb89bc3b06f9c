----------------------------- MODULE InterpretsC ---------------------------
(***************************************************************************)
(* The interpreter beside the meaning of the program it runs, for TLC: the *)
(* meaning is fixed at the start and nothing the interpreter does changes  *)
(* it.                                                                     *)
(***************************************************************************)
EXTENDS Interpreter, CSemantics

VARIABLE meaning

InitC == /\ Init
         /\ meaning = Meaning(prog, input)
         /\ meaning.ends

NextC == Next /\ UNCHANGED meaning

SpecC == InitC /\ [][NextC]_<<vars, meaning>> /\ WF_<<vars, meaning>>(NextC)

Reference == INSTANCE CProgram WITH shown <- output, phase <- status

\* The interpreter runs the program as C defines it: it prints the same numbers in the
\* same order and ends, where the program has a meaning (judge/grade.sh compares the
\* output with that of the compiled program).
RunsAsInC == Reference!Spec

\* The part of it that needs no fairness, without the end: what is printed is what the
\* language says, as far as it goes.
PrintsAsInC ==
  meaning.defined => /\ Len(output) <= Len(meaning.prints)
                     /\ \A i \in DOMAIN output : output[i] = meaning.prints[i]
                     /\ status # "aborted"
=============================================================================
