---------------------------- MODULE MCRecording ----------------------------
(* Recordings of one room are interchangeable: nothing orders them.        *)
EXTENDS Recording, TLC

Symmetry == Permutations(Egresses)
=============================================================================
