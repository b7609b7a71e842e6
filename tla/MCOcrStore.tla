----------------------------- MODULE MCOcrStore -----------------------------
(* Constants of the model-checking runs of OcrStore. *)
EXTENDS OcrStore

CONSTANTS j1, j2
=============================================================================
