-------------------------- MODULE MCDialogRouting --------------------------
(* Instances of DialogRouting for TLC.                                      *)
EXTENDS DialogRouting, TLC

\* Dialogues are interchangeable.
DialogSymmetry == Permutations(Dialogs)
=============================================================================
