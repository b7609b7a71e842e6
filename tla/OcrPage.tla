------------------------------- MODULE OcrPage -------------------------------
(***************************************************************************)
(* One page through the OCR reader (app/services/rapid_ocr.py), from the   *)
(* decision to trust its text layer to its share of the response document, *)
(* with the crop and the quarter turn of app/services/                     *)
(* ocr_preprocessing.py and the way back to page coordinates.              *)
(*                                                                         *)
(* A page is [layer, size, lines, faint, sideways, engine]: the state of   *)
(* its text layer, the pixels <<width, height>> of its rendering, the lines*)
(* printed on it, pixels that are not white and hold no line, whether its  *)
(* glyphs run down the page, and what the engine does with it.  A line is  *)
(* [at, words, box]: a pixel, how each of its words comes out of the       *)
(* engine, and how its polygon does.                                       *)
(***************************************************************************)
EXTENDS Integers, Sequences, FiniteSets

CONSTANTS
  Pad,       \* the margin a crop leaves, in pixels
  MaxPixels  \* MAX_RENDER_PIXELS

ASSUME PadAssumption == Pad \in Nat

Accepted(layer) == layer.reasons = {}

Printed(page) == {page.lines[i].at : i \in DOMAIN page.lines}
Least(S) == CHOOSE m \in S : \A x \in S : m <= x
Greatest(S) == CHOOSE m \in S : \A x \in S : x <= m
Xs(S) == {p[1] : p \in S}
Ys(S) == {p[2] : p \in S}

Whole(page) == [x0 |-> 0, y0 |-> 0, x1 |-> page.size[1], y1 |-> page.size[2]]
InBox(p, b) == p[1] \in b.x0..(b.x1 - 1) /\ p[2] \in b.y0..(b.y1 - 1)

\* Large blank margins are cut off, unless a pixel outside is not white.
Crop(page) ==
  LET dark == Printed(page)
      tight == [x0 |-> Least(Xs(dark)), y0 |-> Least(Ys(dark)),
                x1 |-> Greatest(Xs(dark)) + 1, y1 |-> Greatest(Ys(dark)) + 1]
      padded == [x0 |-> Greatest({0, tight.x0 - Pad}), y0 |-> Greatest({0, tight.y0 - Pad}),
                 x1 |-> Least({page.size[1], tight.x1 + Pad}), y1 |-> Least({page.size[2], tight.y1 + Pad})] IN
  IF dark = {} THEN Whole(page)
  ELSE IF (tight.x1 - tight.x0) * (tight.y1 - tight.y0) * 100 >= page.size[1] * page.size[2] * 55 THEN Whole(page)
  ELSE IF \E p \in page.faint : ~InBox(p, padded) THEN Whole(page) ELSE padded

Turned(page) == page.sideways /\ page.lines # <<>>

\* Where the engine finds a pixel of the page: the crop, turned counter-clockwise.
Found(page, p) ==
  LET b == Crop(page)  q == <<p[1] - b.x0, p[2] - b.y0>> IN
  IF Turned(page) THEN <<q[2], (b.x1 - b.x0) - 1 - q[1]>> ELSE q

\* Breaks PrintIsAccounted: the crop is undone before the turn.
BadMapBack(page, q) ==
  LET b == Crop(page)  p == <<q[1] + b.x0, q[2] + b.y0>> IN
  IF Turned(page) THEN <<(b.x1 - b.x0) - 1 - p[2], p[1]>> ELSE p
\* The inverse transform that map_polygon applies.
MapBack(page, q) ==
  LET b == Crop(page)
      p == IF Turned(page) THEN <<(b.x1 - b.x0) - 1 - q[2], q[1]>> ELSE q IN
  <<p[1] + b.x0, p[2] + b.y0>>

PageResult == [status |-> "complete", source |-> "rapidocr", words |-> <<>>, low |-> <<>>,
               lines |-> {}, layer |-> <<>>, discarded |-> 0, warnings |-> {}]
Failed(why) == [PageResult EXCEPT !.status = "failed", !.warnings = {why}]

\* A word is its line and its place in it.
Words(page) == UNION {{i} \X (DOMAIN page.lines[i].words) : i \in DOMAIN page.lines}
\* The words that come out of the engine in some of the ways, each with where it stands.
Reading(page, kinds) ==
  [w \in {v \in Words(page) : page.lines[v[1]].words[v[2]] \in kinds} |->
     MapBack(page, Found(page, page.lines[w[1]].at))]

\* A word without usable geometry, without text or below the review threshold is
\* counted and not returned; a line keeps its place for redaction whatever its words.
Recognize(page) ==
  LET words == Reading(page, {"ok"})
      low == Reading(page, {"low"})
      usable == {i \in DOMAIN page.lines : page.lines[i].box \in {"ok", "unwritable"}}
      searchable == ~page.layer.text /\ ~Turned(page)
      warnings == {w \in {"word_geometry_missing", "invalid_word_geometry", "unusable_word",
                          "search_layer_incomplete"} :
        CASE w = "word_geometry_missing" -> words = <<>> \/ \E i \in DOMAIN page.lines : page.lines[i].words = <<>>
          [] w = "invalid_word_geometry" -> Reading(page, {"bad"}) # <<>>
          [] w = "unusable_word" -> Reading(page, {"blank", "low"}) # <<>>
          [] w = "search_layer_incomplete" -> searchable /\ usable # DOMAIN page.lines} IN
  CASE page.engine = "raises" -> Failed("provider_error")
    [] page.engine = "reads" /\ page.lines = <<>> ->
         [PageResult EXCEPT !.status = "empty", !.warnings = {"no_text_detected"}]
    [] page.engine = "reads" /\ page.lines # <<>> ->
         [PageResult EXCEPT !.status = IF warnings = {} THEN "complete" ELSE "partial",
            !.words = words, !.low = low, !.lines = usable,
            !.layer = IF searchable THEN [i \in usable |-> page.lines[i].box] ELSE <<>>,
            !.discarded = Cardinality(DOMAIN Reading(page, {"bad", "blank", "low"})), !.warnings = warnings]

\* An accepted text layer is the reading; a page too large to render is a failed page.
ReadOcrPage(page, force) ==
  IF Accepted(page.layer) /\ ~force
  THEN [PageResult EXCEPT !.source = "native_pdf", !.words = <<"native">>]
  ELSE IF page.size[1] * page.size[2] > MaxPixels THEN Failed("page_processing_error")
  ELSE Recognize(page)

\* A line that cannot be written into the page makes a complete page a partial one.
WriteSearchLayer(result) ==
  LET written == {i \in DOMAIN result.layer : result.layer[i] = "ok"} IN
  IF written = DOMAIN result.layer THEN result
  ELSE [result EXCEPT !.status = "partial", !.warnings = @ \cup {"search_layer_incomplete"},
                      !.layer = [i \in written |-> "ok"]]

\* The coverage is complete when every page is, and partial while there is a word.
Assemble(results, withPdf) ==
  LET pages == [i \in DOMAIN results |->
        IF withPdf THEN WriteSearchLayer(results[i]) ELSE [results[i] EXCEPT !.layer = <<>>]] IN
  [pages |-> pages,
   status |-> IF \A i \in DOMAIN pages : pages[i].status = "complete" THEN "complete"
              ELSE IF \E i \in DOMAIN pages : pages[i].words # <<>> THEN "partial" ELSE "unavailable"]
=============================================================================
