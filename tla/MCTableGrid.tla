----------------------------- MODULE MCTableGrid -----------------------------
(* Constants of the model-checking run of TableGrid. *)
EXTENDS TableGrid
\* A span the parser refuses on each side of the ones it takes.
Spans == 0..3
=============================================================================
