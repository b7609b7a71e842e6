--------------------------- MODULE PageOrientation ---------------------------
(***************************************************************************)
(* Which way up a scanned page is (app/services/page_orientation.py): the  *)
(* axis most line length runs along, then the direction in which the lines *)
(* of that axis read better.                                               *)
(*                                                                         *)
(* A scan is [turn, lines]: its print is turned by `turn` quarter turns    *)
(* clockwise.  A line is [along, length, small, tiny, start, end]: it runs *)
(* along the print, or is a stray text a quarter turn off; it vanishes when *)
(* the page is scaled down if it is small, and is too little to be read if *)
(* it is tiny; each of its two ends reads well upright ("clear"), upside   *)
(* down ("misread") or not at all ("poor").  A line that is short enough   *)
(* is read whole, and its ends are alike.  Scores are percentages.         *)
(*                                                                         *)
(* The detector is not this repository's: it is taken to find the same     *)
(* lines whichever way the page is turned, from the top of the page down,  *)
(* and lines are given in the order of their own text.                     *)
(***************************************************************************)
EXTENDS Integers, Sequences, FiniteSets

CONSTANTS
  MinLines,      \* MIN_LINES
  MinFastLines,  \* MIN_FAST_LINES
  MinDecisive,   \* MIN_DECISIVE
  MaxReadLines,  \* MAX_READ_LINES
  MinConfidence  \* min_confidence of the request

DecisiveMargin == 15
CredibleScore == 50

ASSUME OrientationAssumption ==
  MinDecisive \in Nat \ {0} /\ MinLines \in Int /\ MinFastLines \in Int /\ MaxReadLines \in Int

\* The elements of a sequence at some of its places, in order.
Picked(s, places) ==
  [n \in 1..Cardinality(places) |-> s[CHOOSE i \in places : Cardinality({k \in places : k < i}) = n - 1]]
\* The sum of the numbers above zero.
Total(numbers) == Cardinality(UNION {{i} \X (1..numbers[i]) : i \in DOMAIN numbers})

Length(lines) == Total([i \in DOMAIN lines |-> lines[i].length])

\* The recogniser's confidence in print that reads so, shown upright or upside down.
Score(reads, upright) ==
  CASE reads = "clear" -> IF upright THEN 95 ELSE 40
    [] reads = "misread" -> IF upright THEN 40 ELSE 80
    [] reads = "poor" -> IF upright THEN 45 ELSE 20

\* A line is read over the first MAX_READ_ASPECT heights from the left: from its start,
\* or from its end when it is shown upside down.
LeftEnd(line, upright) == IF upright THEN line.start ELSE line.end

\* The scores of lines that run across the page shown, as they are and turned by half.
Readings(lines, upright) ==
  [i \in DOMAIN lines |-> LET reads == LeftEnd(lines[i], upright) IN
                          <<Score(reads, upright), Score(reads, ~upright)>>]

Undecided == [rotation |-> 0, confidence |-> 0]

\* Breaks CorrectionSettles: the two quarter turns are confused.
BadRotationFor(sideways, flip) == IF sideways THEN (IF flip THEN 90 ELSE 270) ELSE IF flip THEN 180 ELSE 0
\* Upright after the clockwise quarter turn, or after that turn and a half turn.
RotationFor(sideways, flip) == IF sideways THEN (IF flip THEN 270 ELSE 90) ELSE IF flip THEN 180 ELSE 0

Larger(a, b) == IF a > b THEN a ELSE b
\* A pair of scores is evidence when one of them is credible and clearly the better.
Evidence(pairs) ==
  {i \in DOMAIN pairs : /\ Larger(pairs[i][1] - pairs[i][2], pairs[i][2] - pairs[i][1]) >= DecisiveMargin
                        /\ Larger(pairs[i][1], pairs[i][2]) >= CredibleScore}
Up(pairs) == Total([i \in Evidence(pairs) |-> pairs[i][1] - pairs[i][2]])
Down(pairs) == Total([i \in Evidence(pairs) |-> pairs[i][2] - pairs[i][1]])

Decide(pairs, axisShare, total, sideways) ==
  LET up == Up(pairs)  down == Down(pairs) IN
  IF Cardinality(Evidence(pairs)) < MinDecisive THEN Undecided
  ELSE [rotation |-> RotationFor(sideways, down > up),
        confidence |-> (100 * axisShare * Larger(up, down)) \div (total * (up + down))]

\* Small print is looked for at full size only when few lines are found.
Detected(lines) ==
  LET reduced == Picked(lines, {i \in DOMAIN lines : ~lines[i].small}) IN
  IF Len(reduced) < MinFastLines THEN lines ELSE reduced
OnAxis(lines, along) == Picked(lines, {i \in DOMAIN lines : lines[i].along = along})
\* The longest lines, of equal ones those nearer the top of the page shown.
Longest(lines, upright) ==
  LET above(k, i) == IF upright THEN k < i ELSE k > i
      before(i) == {k \in DOMAIN lines : \/ lines[k].length > lines[i].length
                                         \/ lines[k].length = lines[i].length /\ above(k, i)} IN
  Picked(lines, {i \in DOMAIN lines : Cardinality(before(i)) < MaxReadLines})
\* What is left of them once they are cut out of the image.
Crops(lines) == Picked(lines, {i \in DOMAIN lines : ~lines[i].tiny})

\* Most line length runs down the page.
Sideways(scan) ==
  LET lines == Detected(scan.lines) IN
  Length(OnAxis(lines, scan.turn % 2 = 1)) > Length(OnAxis(lines, scan.turn % 2 = 0))
\* A sideways page is turned a quarter turn clockwise, so that its lines run across; what
\* runs along the print is then upright or upside down, and so are the stray texts.
Along(scan) == (scan.turn % 2 = 1) = Sideways(scan)
Upright(scan) ==
  (scan.turn + (IF Sideways(scan) THEN 1 ELSE 0) + (IF Along(scan) THEN 0 ELSE 1)) % 4 = 0
Chosen(scan) == OnAxis(Detected(scan.lines), Along(scan))
ReadLines(scan) == Crops(Longest(Chosen(scan), Upright(scan)))

Classify(scan) ==
  LET lines == Detected(scan.lines) IN
  IF Len(lines) < MinLines \/ Length(lines) = 0 \/ Len(ReadLines(scan)) < MinDecisive THEN Undecided
  ELSE Decide(Readings(ReadLines(scan), Upright(scan)), Length(Chosen(scan)), Length(lines), Sideways(scan))

\* What the request reports of a page: nothing for a page it would leave as it is.
Correction(verdict) ==
  IF verdict.rotation \in {90, 180, 270} /\ verdict.confidence >= MinConfidence
  THEN verdict.rotation ELSE 0

\* The client turns the page's pixels by the correction.
Corrected(scan) == [scan EXCEPT !.turn = (@ + Correction(Classify(scan)) \div 90) % 4]
=============================================================================
