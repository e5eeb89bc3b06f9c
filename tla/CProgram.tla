------------------------------ MODULE CProgram -----------------------------
(***************************************************************************)
(* A run of a C program as its user sees it: it prints what the program    *)
(* means, one number after the other, and ends. A program whose meaning is *)
(* undefined may do anything.                                              *)
(***************************************************************************)
EXTENDS Integers, Sequences

VARIABLES
  meaning,   \* what the language says of the program and its input
  shown,     \* the numbers printed
  phase      \* "running", "done" or "aborted"

vars == <<meaning, shown, phase>>

Init == shown = <<>> /\ phase = "running"

Show == /\ meaning.defined /\ phase = "running"
        /\ Len(shown) < Len(meaning.prints)
        /\ shown' = Append(shown, meaning.prints[Len(shown) + 1])
        /\ UNCHANGED <<meaning, phase>>

End == /\ meaning.defined /\ phase = "running"
       /\ shown = meaning.prints
       /\ phase' = "done"
       /\ UNCHANGED <<meaning, shown>>

Anything == ~meaning.defined /\ UNCHANGED meaning

Next == Show \/ End \/ Anything

Spec == Init /\ [][Next]_vars /\ WF_vars(Show \/ End)
=============================================================================
