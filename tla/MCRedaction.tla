----------------------------- MODULE MCRedaction -----------------------------
(* Constants of the model-checking runs of Redaction. *)
EXTENDS Redaction

Text(shape) == [shape |-> shape, groups |-> <<>>, sep |-> "", id |-> "none", layer |-> TRUE]
Number(groups, sep, id) == [shape |-> "number", groups |-> groups, sep |-> sep, id |-> id, layer |-> TRUE]
Word == Text("word")
Label == Text("label")
Amount == Text("masked")
Ssn == Number(<<3, 2, 4>>, "-", "taxpayer")
SpacedSsn == Number(<<3, 2, 4>>, " ", "taxpayer")
Ein == Number(<<2, 7>>, "-", "payer")
Bare == Number(<<9>>, "", "taxpayer")
Comb == Number([k \in 1..9 |-> 1], " ", "taxpayer")
Year == Number(<<4>>, "", "none")
Account == Number(<<9>>, "", "none")
Single == Number(<<1>>, "", "none")
\* "So", "Is" and a ruled line "|".
So == [Number(<<2>>, "", "none") EXCEPT !.shape = "short"]
Rule == [Number(<<1>>, "", "none") EXCEPT !.shape = "short"]

Page3(lines, usable, covered) == [lines |-> lines, usable |-> usable, covered |-> covered]
DigitalPage(lines) == Page3(lines, TRUE, FALSE)
\* A photo: nothing of it is in a text layer.
Bared(line) == [k \in DOMAIN line |-> [line[k] EXCEPT !.layer = FALSE]]
Scan(lines) == Page3([l \in DOMAIN lines |-> Bared(lines[l])], FALSE, FALSE)

DigitalPages == {
  DigitalPage(<<<<Label, Ssn, Account, Amount>>>>), DigitalPage(<<<<Label, Word, Bare, Year>>, <<Account, Ein>>>>),
  DigitalPage(<<<<SpacedSsn, Year>>, <<Word, Account>>>>)}
ScanPages == {
  Scan(<<<<Word, Ssn, Word>>>>), Scan(<<<<Label, Ein, Amount>>, <<Year, Word>>>>),
  Scan(<<<<Word, SpacedSsn>>, <<Account, Word>>>>), Scan(<<<<Bare>>>>),
  Scan(<<<<Word, Number(<<3, 2>>, "-", "taxpayer")>>, <<Number(<<4>>, "", "taxpayer"), Word>>>>)}
CombPage == Scan(<<<<Comb>>>>)
\* A text layer over a photo that shows more, a layer of garbage, a stamp beside a number.
MixedPages == {
  Page3(<<<<Word, Label>>, Bared(<<Ein>>)>>, TRUE, TRUE), Page3(<<<<Word, Ssn>>>>, FALSE, FALSE),
  Page3(<<<<Ssn, Word, Year>>, Bared(<<Ein>>)>>, TRUE, TRUE)}
\* Short words away from the identifier: alone, beside another number, four in a row.
ShortPages == {
  Scan(<<<<So, Word, Ssn>>>>), Scan(<<<<So, Year>>, <<Word, Ein>>>>),
  Scan(<<<<Rule, Rule, Rule, Rule, Word, Bare>>>>), Scan(<<<<So>>, <<Bare>>, <<Rule>>>>)}
BesidePages == {Scan(<<<<Single, Ssn>>>>), Scan(<<<<Ssn, Year>>>>), Scan(<<<<So, Ssn>>>>), Scan(<<<<Ein, Rule>>>>)}

MCDocuments ==
  {<<p>> : p \in DigitalPages \cup ScanPages \cup ShortPages \cup MixedPages \cup BesidePages \cup {CombPage}}
    \cup {<<d, Scan(<<<<Bare>>>>)>> : d \in DigitalPages}
    \cup {<<Scan(<<<<Account>>>>), Scan(<<<<Bare, Word>>>>)>>}
=============================================================================
