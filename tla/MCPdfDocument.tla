---------------------------- MODULE MCPdfDocument ----------------------------
(* Constants of the model-checking runs of PdfDocument. *)
EXTENDS PdfDocument
PageOf(name, ink) == [of |-> name, turn |-> 0, ink |-> ink]
\* A letter with an outline and identifiers on two of its pages, a scan that came
\* turned, and a one-page form.
Letter == [Refused EXCEPT
  !.pages = <<PageOf("a1", {"ssn"}), PageOf("a2", {"note"}), PageOf("a3", {"ssn"})>>,
  !.outline = <<[level |-> 1, page |-> 0], [level |-> 2, page |-> 2]>>]
Scan == [Refused EXCEPT !.pages = <<[of |-> "b1", turn |-> 1, ink |-> {}]>>]
Form == [Refused EXCEPT !.pages = <<PageOf("f1", {})>>, !.form = <<
  [name |-> "name", kind |-> "text", on |-> "", value |-> "", locked |-> FALSE],
  [name |-> "consent", kind |-> "checkbox", on |-> "Yes", value |-> "Off", locked |-> FALSE],
  [name |-> "status", kind |-> "radio", on |-> "single", value |-> "single", locked |-> FALSE],
  [name |-> "status", kind |-> "radio", on |-> "joint", value |-> "Off", locked |-> FALSE],
  [name |-> "ptin", kind |-> "text", on |-> "", value |-> "p1", locked |-> TRUE]>>]
Documents == {Letter, Scan, Form}
\* Every list of up to two page numbers, and the permutations of three.
PageLists == BoundedSeq(0..3, 2) \cup {<<2, 0, 1>>, <<1, 2, 0>>, <<0, 1, 1>>, <<0, 2, 1>>}
=============================================================================
