---------------------------- MODULE MCPageRequests ----------------------------
(* Constants of the model-checking run of PageRequests. *)
EXTENDS PageRequests

Region(text, structure, boxes, kept) ==
  [text |-> text, structure |-> structure, boxes |-> boxes, cellsKept |-> kept]
Good == Region(TRUE, "grid", TRUE, TRUE)
Regions == {{Good}, {Good, Region(FALSE, "grid", TRUE, TRUE)}, {Good, Region(TRUE, "raises", TRUE, TRUE)},
            {Region(TRUE, "grid", TRUE, FALSE)}, {Region(TRUE, "bad", TRUE, TRUE)}}
TablePages ==
  [accepted : {FALSE}, native : {"none"}, ink : {"blank"}, regions : {{}}, docling : {"none"}]
  \cup [accepted : BOOLEAN, native : {"tables", "none", "raises"}, ink : {"plain"}, regions : {{}}, docling : {"complete"}]
  \cup [accepted : {FALSE}, native : {"none"}, ink : {"ruled"}, regions : Regions, docling : {"complete", "invalid", "none", "raises"}]
\* Beside each page: one that needs the fallback, one that does not, and one for which
\* it fails.
BesidePages == {p \in TablePages :
  \/ p.ink = "plain" /\ p.accepted /\ p.native \in {"tables", "none"}
  \/ p.ink = "ruled" /\ Cardinality(p.regions) = 2 /\ p.docling = "raises"}

Line(along, length, small, start, end) ==
  [along |-> along, length |-> length, small |-> small, tiny |-> FALSE, start |-> start, end |-> end]
\* Two kinds of long lines, of which only one end is read; one reads upside down at its
\* start and well at its end, so that it is never the right way up.
Lines == {Line(TRUE, 2, FALSE, "clear", "clear"), Line(TRUE, 2, FALSE, "misread", "clear"),
          Line(TRUE, 1, TRUE, "clear", "clear"), Line(TRUE, 1, FALSE, "misread", "misread"),
          Line(TRUE, 1, FALSE, "poor", "poor"), Line(FALSE, 1, FALSE, "clear", "clear"),
          [Line(TRUE, 1, FALSE, "clear", "clear") EXCEPT !.tiny = TRUE]}
Scans == [turn : 0..3, text : {FALSE}, lines : BoundedSeq(Lines, 3)]
TextPage == [turn |-> 0, text |-> TRUE, lines |-> <<>>]

\* A 6 by 8 page with print away from its corners, and a stain in one of them.
OcrLine(where) == [at : {where}, words : {<<"ok", "ok">>, <<"low", "ok">>, <<"bad">>, <<"blank">>, <<>>},
                box : {"ok", "bad", "unwritable"}]
OneLine == {<<l>> : l \in OcrLine(<<2, 2>>)}
TwoLines == {<<l, k>> : l \in {x \in OcrLine(<<2, 2>>) : x.words = <<"ok", "ok">>},
                        k \in {x \in OcrLine(<<3, 2>>) : x.box = "ok"}}
OcrPages == [layer : {[text |-> FALSE, reasons |-> {"insufficient_text"}], [text |-> TRUE, reasons |-> {}],
                      [text |-> TRUE, reasons |-> {"invisible_text_layer"}]},
             size : {<<6, 8>>}, lines : {<<>>} \cup OneLine \cup TwoLines,
             faint : {{}, {<<5, 7>>}}, sideways : BOOLEAN, engine : {"reads", "raises"}]
OtherPages == {[layer |-> [text |-> FALSE, reasons |-> {"insufficient_text"}], size |-> size,
                lines |-> <<[at |-> <<2, 2>>, words |-> <<"ok">>, box |-> "ok"]>>,
                faint |-> {}, sideways |-> FALSE, engine |-> "reads"] : size \in {<<6, 8>>, <<60, 80>>}}

AllDocuments == [
  tables |-> {<<p, q>> : p \in TablePages, q \in BesidePages},
  orientation |-> {<<s, TextPage>> : s \in Scans},
  ocr |-> {<<p, q>> : p \in OcrPages, q \in OtherPages}]

Pages == {1, 2}
Of(operation, lists, strategies, english, force) ==
  [operation : {operation}, pages : lists, strategy : strategies, english : english, force : force]
AllRequests ==
  Of("tables", {<<2, 1>>, <<1, 2, 1>>}, {"auto", "pymupdf", "rapidtable"}, {TRUE}, {FALSE})
  \cup Of("tables", {<<1, 2>>, <<>>}, {"auto"}, {FALSE}, {FALSE})
  \cup Of("orientation", {<<2, 1>>}, {"none"}, {TRUE}, BOOLEAN)
  \cup Of("ocr", {<<1, 2>>, <<1, 1>>}, {"none"}, {TRUE}, BOOLEAN)
=============================================================================
