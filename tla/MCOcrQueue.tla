----------------------------- MODULE MCOcrQueue -----------------------------
(* Constants of the model-checking runs of OcrQueue. *)
EXTENDS OcrQueue, TLC

CONSTANTS j1, j2, j3, w1, w2

Pages == 1..2

\* A two-page scan and a one-page document.
ScanAndLetter == j1 :> {1, 2} @@ j2 :> {1}

\* And a third request, whose pages cannot be planned.
ThreeRequests == ScanAndLetter @@ j3 :> {}

WorkerSymmetry == Permutations(Worker)
=============================================================================
