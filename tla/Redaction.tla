------------------------------ MODULE Redaction ------------------------------
(***************************************************************************)
(* redact_identifiers (app/services/identifier_redaction.py): find every   *)
(* SSN, ITIN and EIN of a document, black out all but its last four digits,*)
(* read the result again and answer, or refuse.                            *)
(*                                                                         *)
(* A page is lines of items; an item is a word, a label ("SSN"), a short   *)
(* word of one to three letters that look like digits ("So", "Is", a rule   *)
(* "|"), a masked shape (an amount, a date, a phone number, a ZIP+4) or a   *)
(* number; the last have the lengths of their groups.  The text layer is    *)
(* read exactly; the image is read by OCR, which may drop or add digits,    *)
(* lose separators, take digits for letters and such letters for digits, or *)
(* leave print unread, differently each time.                               *)
(***************************************************************************)
EXTENDS Integers, Sequences, FiniteSets, TLC, SequencesExt

CONSTANTS
  Documents,  \* sequences of pages [lines, usable, covered]; an item is [shape, groups, sep, id, layer]
  MaxSlip     \* bound: digits OCR may drop or add in one item

ASSUME SlipAssumption == MaxSlip \in Nat

VARIABLES
  document,
  stage,     \* "scan", "read", "redact", "check", "reread", "answered" or "refused"
  ocrPages,  \* pages that need OCR
  reading,   \* what OCR made of each page in this pass: place |-> token
  first,     \* history: what it made of it in the first pass
  found,     \* the boxes to black out: [page, source, left]
  hidden     \* for each page, place |-> digits left readable, of the places blacked out

vars == <<document, stage, ocrPages, reading, first, found, hidden>>

NotRead == <<>>
Page(p) == document[p]
PagesOf == DOMAIN document
Places(page) == UNION {{l} \X (DOMAIN page.lines[l]) : l \in DOMAIN page.lines}
ItemAt(page, at) == page.lines[at[1]][at[2]]
LineOf(page, l) == [k \in DOMAIN page.lines[l] |-> <<l, k>>]
Total(groups) == FoldLeft(+, 0, groups)
-----------------------------------------------------------------------------
(* Reading digits: _digit_runs, normalize_confusions and suspect_runs. *)

MaskedShapes == {<<3, 3, 4>>, <<5, 4>>}
IdentifierShapes == {<<3, 2, 4>>, <<2, 7>>, <<3, 6>>, <<9>>}
Distance(g, h) == Total([i \in DOMAIN g |-> IF g[i] > h[i] THEN g[i] - h[i] ELSE h[i] - g[i]])

\* One or two digits off an identifier's shape, or a comb field read box by box.
Suspect(groups) ==
  LET n == Total(groups) IN
  /\ n # 9
  /\ \/ Len(groups) >= 4 /\ \A i \in DOMAIN groups : groups[i] <= 2
     \/ /\ n \in 7..11
        /\ \E s \in IdentifierShapes : Len(s) = Len(groups) /\ Distance(groups, s) <= 2

Digital(token) == token.shape \in {"number", "masked"}
\* Short confusable letters are digits beside a number, or four in a row.
Numeric(tokens, k) ==
  \/ Digital(tokens[k])
  \/ /\ tokens[k].shape = "letters"
     /\ \E i, j \in DOMAIN tokens :
          /\ i <= k /\ k <= j
          /\ \/ /\ \A n \in i..j : tokens[n].shape = "letters" \/ (n \in {i, j} /\ n # k /\ Digital(tokens[n]))
                /\ Digital(tokens[i]) \/ Digital(tokens[j])
             \/ \A n \in i..j : tokens[n].shape = "letters" /\ j - i >= 3
InRun(tokens, k) ==
  /\ Numeric(tokens, k)
  /\ tokens[k].shape # "masked" /\ tokens[k].groups \notin MaskedShapes

\* Maximal runs: neighbouring numbers are one run, a space being a separator.
Runs(tokens) ==
  {run \in (DOMAIN tokens) \X (DOMAIN tokens) :
     /\ run[1] <= run[2]
     /\ \A k \in run[1]..run[2] : InRun(tokens, k)
     /\ run[1] = 1 \/ ~InRun(tokens, run[1] - 1)
     /\ run[2] = Len(tokens) \/ ~InRun(tokens, run[2] + 1)}
GroupsOf(tokens, i, j) == FlattenSeq([n \in 1..(j - i + 1) |-> tokens[i + n - 1].groups])

\* Lines, and lines joined across a digit group that wraps.
SearchLines(page, tokens) ==
  LET Number(at) == tokens[at].shape \in {"number", "masked", "letters"}
      Wraps(l) == /\ l + 1 \in DOMAIN page.lines
                  /\ Number(<<l, Len(page.lines[l])>>) /\ Number(<<l + 1, 1>>) IN
  {LineOf(page, l) : l \in DOMAIN page.lines}
    \union {LineOf(page, l) \o LineOf(page, l + 1) : l \in {m \in DOMAIN page.lines : Wraps(m)}}
-----------------------------------------------------------------------------
(* find_identifiers. *)

\* All but the last four digits of a run go, and every place that holds one of them.
Boxes(line, tokens, run) ==
  LET After(k) == Total(GroupsOf(tokens, k + 1, run[2]))
      cut == {k \in run[1]..run[2] : After(k) + Total(tokens[k].groups) > 4} IN
  [at \in {line[k] : k \in cut} |->
     LET k == CHOOSE n \in cut : line[n] = at IN IF After(k) > 4 THEN 0 ELSE 4 - After(k)]

\* In OCR text any run of exactly nine digits is an identifier.
OcrHits(page, tokens) ==
  UNION {LET read == [k \in DOMAIN line |-> tokens[line[k]]] IN
         {Boxes(line, read, run) : run \in {r \in Runs(read) : Total(GroupsOf(read, r[1], r[2])) = 9}}
         : line \in SearchLines(page, tokens)}

Labelled(line, k) ==
  \E j \in 1..(k - 1) : line[j].shape = "label" /\ \A n \in (j + 1)..(k - 1) : line[n].shape \in {"word", "short"}

\* Breaks OrdinaryNumbersStay: the text layer is searched like OCR text.
BadTextIdentifier(line, k) == line[k].shape = "number" /\ Total(line[k].groups) = 9
\* In a text layer the shape decides, and for nine bare digits the label before them.
TextIdentifier(line, k) ==
  /\ line[k].shape = "number"
  /\ \/ line[k].groups = <<3, 2, 4>> /\ line[k].sep \in {"-", " "}
     \/ line[k].groups = <<2, 7>> /\ line[k].sep = "-"
     \/ line[k].groups = <<9>> /\ Labelled(line, k)

TextHits(page, gone) ==
  {[at \in {where} |-> 4] :
     where \in {at \in Places(page) \ DOMAIN gone :
                  ItemAt(page, at).layer /\ TextIdentifier(page.lines[at[1]], at[2])}}

NeedsOcr(page) == ~page.usable \/ page.covered

\* Print OCR made no word of: four marks in a row, or nine digits on the page.
UnreadPrint(tokens) ==
  LET marks == UNION {{at} \X (1..tokens[at].unread) : at \in DOMAIN tokens} IN
  Cardinality(marks) >= 9 \/ \E at \in DOMAIN tokens : tokens[at].unread >= 4
-----------------------------------------------------------------------------
(* What OCR may make of what is printed: the engine is not this repository's. *)

Token(shape, groups, unread) == [shape |-> shape, groups |-> groups, unread |-> unread]
Present(groups) == SelectSeq(groups, LAMBDA n : n > 0)

\* A box of a comb field is read as at most two digits.
SlipOnce(forms) ==
  LET Off(g) == {[g EXCEPT ![i] = @ + 1] : i \in {j \in DOMAIN g : Len(g) < 9 \/ g[j] < 2}}
                  \union {[g EXCEPT ![i] = @ - 1] : i \in {j \in DOMAIN g : g[j] > 0}} IN
  forms \union UNION {Off(g) : g \in forms}
\* Group lengths at most MaxSlip digits away.
Slips(groups) ==
  LET S[n \in 0..MaxSlip] == IF n = 0 THEN {groups} ELSE SlipOnce(S[n - 1]) IN S[MaxSlip]

Misread == Token("word", <<>>, 0)  \* print taken for something else, in a box of its own
NumberReadings(item) ==
  LET g == item.groups  n == Len(g)
      parts == {Token("number", SubSeq(g, 1, k), Total(SubSeq(g, k + 1, n))) : k \in 1..(n - 1)}
                 \union {Token("number", SubSeq(g, k + 1, n), Total(SubSeq(g, 1, k))) : k \in 1..(n - 1)} IN
  {Misread, Token("word", <<>>, Total(g)), Token("number", <<Total(g)>>, 0)}
    \union (IF n <= 3 THEN parts ELSE {})
    \union (IF n = 1 /\ g[1] <= 3 THEN {Token("letters", g, 0)} ELSE {})
    \union {Token("number", Present(s), 0) : s \in {t \in Slips(g) : Total(t) > 0}}

\* A short word is read as its letters, which normalize_confusions takes for digits beside
\* a number or in a row of four, as digits, or as something else.
ShortReadings(groups) == {Misread, Token("letters", groups, 0), Token("number", groups, 0)}

\* An identifier may be read in any of these ways, a number beside it exactly, as
\* something else or not at all, a longer word as a word; a blacked-out item shows the
\* characters it has left.
ItemReadings(page, gone, at) ==
  LET item == ItemAt(page, at) IN
  CASE at \in DOMAIN gone ->
         IF gone[at] = 0 THEN {Misread}
         ELSE IF item.shape = "short" THEN ShortReadings(<<gone[at]>>) ELSE {Token("number", <<gone[at]>>, 0)}
    [] at \notin DOMAIN gone /\ item.shape = "short" -> ShortReadings(item.groups)
    [] at \notin DOMAIN gone /\ item.shape \in {"word", "label"} -> {Misread}
    [] at \notin DOMAIN gone /\ item.shape = "masked" -> {Token("masked", <<>>, 0)}
    [] OTHER -> IF item.id = "none" THEN {Token("number", item.groups, 0), Misread}
                ELSE NumberReadings(item)

\* One reading of each item of a page.
PageReadings(page, gone) ==
  LET read[todo \in SUBSET Places(page)] ==
        IF todo = {} THEN {<<>>}
        ELSE LET at == CHOOSE x \in todo : TRUE IN
             {(at :> token) @@ rest : token \in ItemReadings(page, gone, at), rest \in read[todo \ {at}]} IN
  read[Places(page)]
-----------------------------------------------------------------------------
(* redact_identifiers. *)

Init ==
  /\ document \in Documents
  /\ stage = "scan" /\ ocrPages = {} /\ found = {}
  /\ reading = [p \in PagesOf |-> NotRead] /\ first = reading
  /\ hidden = [p \in PagesOf |-> <<>>]

\* The text layer of every page is searched, and the pages OCR must read are noted.
ScanText ==
  /\ stage = "scan"
  /\ found' = {[page |-> p, source |-> "text_layer", left |-> hit] :
                 <<p, hit>> \in UNION {{q} \X TextHits(Page(q), <<>>) : q \in PagesOf}}
  /\ ocrPages' = {p \in PagesOf : NeedsOcr(Page(p))}
  /\ stage' = "read"
  /\ UNCHANGED <<document, reading, first, hidden>>

Reading(p) == reading[p] # NotRead
AllRead == \A p \in ocrPages : Reading(p)

\* The OCR workers read the pages one at a time.
ReadPage(p) ==
  /\ stage \in {"read", "reread"} /\ p \in ocrPages /\ ~Reading(p)
  /\ \E tokens \in PageReadings(Page(p), hidden[p]) : reading' = [reading EXCEPT ![p] = tokens]
  /\ UNCHANGED <<document, stage, ocrPages, first, found, hidden>>

\* A page that fails is a refusal, in either pass.
PageFails(p) ==
  /\ stage \in {"read", "reread"} /\ p \in ocrPages /\ ~Reading(p)
  /\ stage' = "refused"
  /\ UNCHANGED <<document, ocrPages, reading, first, found, hidden>>

SuspectRuns(page, tokens) ==
  \E line \in SearchLines(page, tokens) :
    LET read == [k \in DOMAIN line |-> tokens[line[k]]] IN
    \E run \in Runs(read) : Suspect(GroupsOf(read, run[1], run[2]))

\* Breaks Inv: only runs longer than nine digits are suspect.
BadRefusesReading(p) ==
  \/ UnreadPrint(reading[p])
  \/ \E at \in DOMAIN reading[p] : Total(reading[p][at].groups) \in 10..11
\* A reading that leaves print unread, or holds what may be a misread identifier.
RefusesReading(p) == UnreadPrint(reading[p]) \/ SuspectRuns(Page(p), reading[p])

Decide ==
  /\ stage = "read" /\ AllRead
  /\ LET hits == {[page |-> p, source |-> "ocr", left |-> hit] :
                    <<p, hit>> \in UNION {{q} \X OcrHits(Page(q), reading[q]) : q \in ocrPages}} IN
     IF \E p \in ocrPages : RefusesReading(p)
     THEN stage' = "refused" /\ UNCHANGED found
     ELSE stage' = "redact" /\ found' = found \union hits
  /\ first' = reading
  /\ UNCHANGED <<document, ocrPages, reading, hidden>>

\* A box blacks out the text layer and the image under it; of two boxes over an item
\* the one that leaves less of it decides.
Redact ==
  /\ stage = "redact"
  /\ hidden' = [p \in PagesOf |->
       LET boxes == {f.left : f \in {g \in found : g.page = p}} IN
       [at \in UNION {DOMAIN b : b \in boxes} |->
          LET kept == {b[at] : b \in {c \in boxes : at \in DOMAIN c}} IN
          CHOOSE n \in kept : \A m \in kept : n <= m]]
  /\ reading' = [p \in PagesOf |-> NotRead]
  /\ stage' = "check"
  /\ UNCHANGED <<document, ocrPages, first, found>>

\* The text layer of every page is searched again.
CheckText ==
  /\ stage = "check"
  /\ stage' = IF \E p \in PagesOf : TextHits(Page(p), hidden[p]) # {} THEN "refused" ELSE "reread"
  /\ UNCHANGED <<document, ocrPages, reading, first, found, hidden>>

\* Breaks SecondReadingCounts: only the pages on which something was found are looked at again.
BadStillReadable(p) ==
  OcrHits(Page(p), reading[p]) # {} /\ \E f \in found : f.page = p /\ f.source = "ocr"
\* In the second reading only whole identifiers and unread print count.
StillReadable(p) == OcrHits(Page(p), reading[p]) # {}

Answer ==
  /\ stage = "reread" /\ AllRead
  /\ stage' = IF \E p \in ocrPages : UnreadPrint(reading[p]) \/ StillReadable(p) THEN "refused" ELSE "answered"
  /\ UNCHANGED <<document, ocrPages, reading, first, found, hidden>>

Next ==
  \/ ScanText \/ Decide \/ Redact \/ CheckText \/ Answer
  \/ \E p \in PagesOf : ReadPage(p) \/ PageFails(p)

Spec == Init /\ [][Next]_vars
-----------------------------------------------------------------------------
(* Properties.  An identifier is the items that carry its id, in reading order. *)

Ids(page) == {ItemAt(page, at).id : at \in Places(page)} \ {"none"}
PlacesOf(page, id) == {at \in Places(page) : ItemAt(page, at).id = id}
Earlier(a, b) == a[1] < b[1] \/ (a[1] = b[1] /\ a[2] <= b[2])
InOrder(places) == SetToSortSeq(places, LAMBDA a, b : a # b /\ Earlier(a, b))
PrintOf(page, id) ==
  LET at == InOrder(PlacesOf(page, id)) IN FlattenSeq([k \in DOMAIN at |-> ItemAt(page, at[k]).groups])
ReadOf(page, id, tokens) ==
  LET at == InOrder(PlacesOf(page, id)) IN FlattenSeq([k \in DOMAIN at |-> tokens[at[k]].groups])
UnreadOf(page, id, tokens) ==
  Cardinality(UNION {{at} \X (1..tokens[at].unread) : at \in PlacesOf(page, id)})

\* No digits of something else, and no short word that may become digits, stand right
\* before or after it on its lines.
Alone(page, id) ==
  \A at \in PlacesOf(page, id) : \A k \in {at[2] - 1, at[2] + 1} :
    <<at[1], k>> \in Places(page) =>
      ItemAt(page, <<at[1], k>>).id = id \/ ItemAt(page, <<at[1], k>>).shape \notin {"number", "short"}

\* How many digits off an identifier was read: in the shape printed, at most two digits
\* dropped or added, and not as a phone number or a ZIP+4; or four of its digits not read.
OffBy(page, id, tokens) ==
  LET read == ReadOf(page, id, tokens)  print == PrintOf(page, id) IN
  IF \E at \in PlacesOf(page, id) : tokens[at].unread >= 4 THEN {0}
  ELSE {Distance(full, print) :
          full \in {s \in Slips(print) : /\ UnreadOf(page, id, tokens) = 0
                                         /\ Present(s) = read /\ Distance(s, print) <= 2
                                         /\ read \notin MaskedShapes}}

Gone(p, id) == \E at \in PlacesOf(Page(p), id) : at \in DOMAIN hidden[p]
LeftOf(p, id) ==
  Total([k \in 1..Len(InOrder(PlacesOf(Page(p), id))) |->
           LET at == InOrder(PlacesOf(Page(p), id))[k] IN
           IF at \in DOMAIN hidden[p] THEN hidden[p][at] ELSE Total(ItemAt(Page(p), at).groups)])

\* What the first reading should have caught, with the digits that may stay: in a text
\* layer the last four, in an image as many more as were misread.
MayStay(p, id) ==
  IF \E at \in PlacesOf(Page(p), id) :
       ItemAt(Page(p), at).layer /\ TextIdentifier(Page(p).lines[at[1]], at[2])
  THEN {4}
  ELSE IF p \in ocrPages THEN {4 + off : off \in OffBy(Page(p), id, first[p])} ELSE {}

TypeOK ==
  /\ document \in Documents
  /\ stage \in {"scan", "read", "redact", "check", "reread", "answered", "refused"}
  /\ ocrPages \subseteq PagesOf
  /\ \A f \in found : f.page \in PagesOf /\ f.source \in {"text_layer", "ocr"}
  /\ \A p \in PagesOf : DOMAIN hidden[p] \subseteq Places(Page(p)) /\ \A at \in DOMAIN hidden[p] : hidden[p][at] \in 0..4

\* A document is returned only with at most the last four digits of every identifier
\* left that stands alone and that the service read to within two digits, however the
\* rest of the page was read: dropped, added or wrapped digits are refused or hidden.
NoneLeft ==
  stage = "answered" =>
    \A p \in PagesOf : \A id \in Ids(Page(p)) :
      Alone(Page(p), id) => \A n \in MayStay(p, id) : Gone(p, id) /\ LeftOf(p, id) <= n

\* What was found, hidden and read belongs to the document, and none of its identifiers
\* is left (identifier_redaction.py:786-865).
Inv == TypeOK /\ NoneLeft

\* The same of every identifier, digits beside it or not: "Redact every identifier and
\* prove none is left" (identifier_redaction.py:836).  It does not hold: neighbouring
\* numbers, and short words whose letters become digits, are one run of more than nine.
NoneReadable ==
  stage = "answered" =>
    \A p \in PagesOf : \A id \in Ids(Page(p)) :
      \A n \in MayStay(p, id) : Gone(p, id) /\ LeftOf(p, id) <= n

\* Each pass reads the page anew, and either reading is enough: an identifier that the
\* first one took for something else is not returned when the second one reads it whole.
SecondReadingCounts ==
  stage = "answered" =>
    \A p \in ocrPages : \A id \in Ids(Page(p)) :
      Alone(Page(p), id) /\ 0 \in OffBy(Page(p), id, reading[p]) => Gone(p, id)

\* On a page that is read from its text layer only an identifier is blacked out: account
\* and routing numbers, amounts and phone numbers beside it stay whole.
OrdinaryNumbersStay ==
  \A p \in PagesOf \ ocrPages : \A at \in DOMAIN hidden[p] : ItemAt(Page(p), at).id # "none"
=============================================================================
