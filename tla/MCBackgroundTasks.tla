-------------------------- MODULE MCBackgroundTasks --------------------------
(* Constants of the model-checking runs of BackgroundTasks. *)
EXTENDS BackgroundTasks, TLC

CONSTANTS scan, office, letter, r1, r2, r3

\* Two clients with the same scan and one with a digital letter.
ScanTwice == r1 :> scan @@ r2 :> scan @@ r3 :> letter

ScanSymmetry == Permutations({r1, r2})
=============================================================================
