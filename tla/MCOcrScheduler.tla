--------------------------- MODULE MCOcrScheduler ---------------------------
(* Constants of the model-checking runs of OcrScheduler. *)
EXTENDS OcrScheduler, TLC

CONSTANTS p1, p2, s1, s2, w1, w2

\* Two OCR documents, so that one yields while the other is in line, and two
\* synchronous requests.
TwoAndTwo == p1 :> 2 @@ p2 :> 2 @@ s1 :> 2 @@ s2 :> 1

\* A document, one recovered with every page checkpointed, and one request.
ScanAndRecovered == p1 :> 2 @@ p2 :> 0 @@ s1 :> 2

WorkerSymmetry == Permutations(Worker)
=============================================================================
