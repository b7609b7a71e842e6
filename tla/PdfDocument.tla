----------------------------- MODULE PdfDocument -----------------------------
(***************************************************************************)
(* The operations on a document (src/app/services/pdf_service.py) and the  *)
(* chain of requests a client makes with them: each request sends the      *)
(* document it holds, and the client keeps the PDF it is answered.  The    *)
(* service keeps no document; every operation is an operator from a        *)
(* document (and the request's arguments) to a document or to Refused.     *)
(*                                                                         *)
(* A page is [of, turn, ink]: which page of a stored source it is, its     *)
(* /Rotate in quarter turns, and what can be found on it.  An outline      *)
(* entry names its page by number, 0-based, or Nowhere.  Page numbers of   *)
(* requests are 0-based, sequences are 1-based: page p is pages[p + 1].    *)
(* Drawing, geometry and PDF syntax are left out.                          *)
(***************************************************************************)
EXTENDS Integers, Sequences, FiniteSets, SequencesExt

CONSTANTS
  Stored,        \* the stored documents a client can start from or merge in
  Lists,         \* the page lists requests carry
  Quarters,      \* the rotations requests carry, in quarter turns
  MaxPages,      \* bound: no request is made that answers more pages
  MaxRequests    \* bound: requests of one client

VARIABLES
  doc,      \* the document the client holds
  asked,    \* how many requests it has made
  answer    \* the last request and whether it was answered with a PDF

vars == <<doc, asked, answer>>
\* No request depends on the last one's answer, so runs need not tell states apart by it.
Held == <<doc, asked>>

Nowhere == -1
Ink == {"ssn", "note", "burn", "mark", "crop"}
Locks == {"open", "owner", "user"}
Kinds == {"text", "checkbox", "radio"}
Refused == [pages |-> <<>>, outline |-> <<>>, form |-> <<>>, lock |-> "open"]
NumPages(d) == Len(d.pages)

Page == [of : UNION {{d.pages[i].of : i \in DOMAIN d.pages} : d \in Stored}, turn : 0..3, ink : SUBSET Ink]
Entry == [level : Int, page : Int]
\* What requests fill in, and with it every name, state and value of a field.
Values == [{"name"} -> {"alex"}] \cup [{"consent"} -> {"yes", "no"}]
          \cup [{"status"} -> {"single", "joint", "other"}] \cup [{"ptin"} -> {"p2"}] \cup [{"other"} -> {"x"}]
Words == {"Off"} \cup UNION {{values[name] : name \in DOMAIN values} : values \in Values}
         \cup UNION {UNION {{w.name, w.on, w.value} : w \in ToSet(d.form)} : d \in Stored}
Widget == [name : Words, kind : Kinds, on : Words, value : Words, locked : BOOLEAN]
Document == [pages : Seq(Page), outline : Seq(Entry), form : Seq(Widget), lock : Locks]

\* PyMuPDF lists an outline from level 1, a level deeper at most from entry to entry.
Nested(entries) ==
  \A i \in DOMAIN entries : entries[i].level <= (IF i = 1 THEN 1 ELSE entries[i - 1].level + 1)
Linked(d) == \A i \in DOMAIN d.outline : d.outline[i].page \in {Nowhere} \cup 0..(NumPages(d) - 1)
\* Widgets of one name are one field of a PDF, with its type and its flags.
OneField(form) ==
  \A i, j \in DOMAIN form :
    /\ form[i].name = form[j].name => form[i].kind = form[j].kind /\ form[i].locked = form[j].locked
    /\ form[i].kind # "text" => form[i].on # "Off"

\* What is stored are PDFs.
ASSUME StoredAssumption ==
  \A d \in Stored : /\ d \in Document /\ NumPages(d) \in 1..MaxPages
                     /\ Linked(d) /\ Nested(d.outline) /\ OneField(d.form)
ASSUME RequestAssumption ==
  /\ \A ps \in Lists : ps \in Seq(Int)
  /\ Quarters \subseteq 0..3
  /\ MaxPages \in Nat \ {0} /\ MaxRequests \in Nat
-----------------------------------------------------------------------------
(* Documents. *)

\* Breaks TypeOK: a PDF of no pages is answered.
BadSaved(d) == [d EXCEPT !.lock = "open"]
\* PyMuPDF refuses to write a PDF of no pages, and what it writes is not encrypted.
Saved(d) == IF d.pages = <<>> THEN Refused ELSE [d EXCEPT !.lock = "open"]
\* A document whose user password was not given has no readable page.
Readable(d) == d.lock # "user"
ValidPages(d, ps) == Readable(d) /\ \A i \in DOMAIN ps : ps[i] \in 0..(NumPages(d) - 1)
Turned(pg, q) == [pg EXCEPT !.turn = (@ + q) % 4]
Inked(pg, what) == [pg EXCEPT !.ink = @ \cup {what}]
Without(pg, what) == [pg EXCEPT !.ink = @ \ what]
-----------------------------------------------------------------------------
(* Page lists. *)

\* A page is turned as often as it is named.
RotatePages(d, ps, q) ==
  IF ValidPages(d, ps)
  THEN Saved([d EXCEPT !.pages = [i \in DOMAIN @ |->
         Turned(@[i], q * Cardinality({k \in DOMAIN ps : ps[k] = i - 1}))]])
  ELSE Refused

\* The route turns inclusive ranges into a page list; a range that ends before it
\* starts names no page.
Expand(ranges) == FlattenSeq([i \in DOMAIN ranges |->
  [k \in 1..(ranges[i].end - ranges[i].start + 1) |-> ranges[i].start + k - 1]])

\* Pages are copied one by one, without the outline; a rotation replaces the page's own.
SplitPages(d, ranges, turns) ==
  LET ps == Expand(ranges)
      Copy(p) == IF p \in DOMAIN turns THEN [d.pages[p + 1] EXCEPT !.turn = turns[p]]
                 ELSE d.pages[p + 1] IN
  IF ValidPages(d, ps)
  THEN Saved([Refused EXCEPT !.pages = [i \in DOMAIN ps |-> Copy(ps[i])]])
  ELSE Refused

\* A source of a merge names pages with a rotation each, or ranges with rotations by
\* page, or nothing: then it is copied whole and its rotations are not looked at.
\* Here a rotation is added to the page's own.
PageSpecs(source) ==
  IF source.pages # <<>> THEN source.pages
  ELSE IF source.ranges # <<>>
  THEN LET ps == Expand(source.ranges) IN
       [i \in DOMAIN ps |-> [page |-> ps[i],
          turn |-> IF ps[i] \in DOMAIN source.turns THEN source.turns[ps[i]] ELSE 0]]
  ELSE [i \in DOMAIN source.of.pages |-> [page |-> i - 1, turn |-> 0]]

MergePdfs(sources) ==
  LET specs(s) == PageSpecs(sources[s])
      Copies(s) == [i \in DOMAIN specs(s) |->
        Turned(sources[s].of.pages[specs(s)[i].page + 1], specs(s)[i].turn)] IN
  IF \A s \in DOMAIN sources :
       ValidPages(sources[s].of, [i \in DOMAIN specs(s) |-> specs(s)[i].page])
  THEN Saved([Refused EXCEPT !.pages = FlattenSeq([s \in DOMAIN sources |-> Copies(s)])])
  ELSE Refused

\* Breaks RequestIsExact: only the range of the list is looked at, not that each page
\* is named once.
BadReorderPages(d, order) ==
  IF ValidPages(d, order) /\ Len(order) = NumPages(d)
  THEN Saved([Refused EXCEPT !.pages = [i \in DOMAIN order |-> d.pages[order[i] + 1]]])
  ELSE Refused
ReorderPages(d, order) ==
  IF /\ ValidPages(d, order)
     /\ Len(order) = NumPages(d) /\ ToSet(order) = 0..(NumPages(d) - 1)
  THEN Saved([Refused EXCEPT !.pages = [i \in DOMAIN order |-> d.pages[order[i] + 1]]])
  ELSE Refused

\* PyMuPDF takes out the page that has the number now; the outline follows the pages,
\* and an entry whose page goes points nowhere.
Followed(entry, p) ==
  [entry EXCEPT !.page = IF @ = p THEN Nowhere ELSE IF @ > p THEN @ - 1 ELSE @]
DeletePage(d, p) ==
  IF p >= NumPages(d) THEN Refused
  ELSE [d EXCEPT !.pages = RemoveAt(@, p + 1),
                 !.outline = [i \in DOMAIN @ |-> Followed(@[i], p)]]
\* sorted(pages, reverse=True): the k-th page has fewer than k greater ones before it.
Descending(ps) == [k \in 1..Len(ps) |-> CHOOSE p \in ToSet(ps) :
  /\ Cardinality({i \in DOMAIN ps : ps[i] > p}) < k
  /\ k <= Cardinality({i \in DOMAIN ps : ps[i] >= p})]
DeletePages(d, ps) ==
  LET left[n \in 0..Len(ps)] == IF n = 0 THEN d ELSE DeletePage(left[n - 1], Descending(ps)[n]) IN
  IF ValidPages(d, ps) THEN Saved(left[Len(ps)]) ELSE Refused
-----------------------------------------------------------------------------
(* Marks on pages.  A mark for a page the document does not have is passed   *)
(* over without an error; a page list is checked.                            *)

\* Breaks BuildIsExact: the 1-based page number is used as if it were 0-based.
BadFlattenAnnotations(d, annots) ==
  IF ~Readable(d) THEN Refused
  ELSE Saved([d EXCEPT !.pages = [i \in DOMAIN @ |->
         IF \E a \in annots : a.page_number = i - 1 /\ a.drawn THEN Inked(@[i], "burn") ELSE @[i]]])
FlattenAnnotations(d, annots) ==
  IF ~Readable(d) THEN Refused
  ELSE Saved([d EXCEPT !.pages = [i \in DOMAIN @ |->
         IF \E a \in annots : a.page_number - 1 = i - 1 /\ a.drawn THEN Inked(@[i], "burn") ELSE @[i]]])

\* What detect-pii finds on each page, and the removal of what is named.
DetectPii(d) == {[page |-> i - 1, what |-> "ssn"] : i \in {k \in DOMAIN d.pages : "ssn" \in d.pages[k].ink}}

RedactContent(d, reds) ==
  IF ~Readable(d) THEN Refused
  ELSE Saved([d EXCEPT !.pages = [i \in DOMAIN @ |->
         Without(@[i], {r.what : r \in {x \in reds : x.page = i - 1}})]])

\* Crop, watermark and deskew: every page when no list is given.  An empty list names
\* no page and is not checked.
MarkPages(d, ps, what) ==
  IF ValidPages(d, ps)
  THEN Saved([d EXCEPT !.pages = [i \in DOMAIN @ |->
         IF Contains(ps, i - 1) THEN Inked(@[i], what) ELSE @[i]]])
  ELSE Refused
EveryPage(d) == [i \in DOMAIN d.pages |-> i - 1]

\* Comments are deleted page by page; text, metadata and scripts are not modelled.
Sanitize(d, annotations) ==
  IF ~Readable(d) THEN Refused
  ELSE Saved([d EXCEPT !.pages = [i \in DOMAIN @ |->
         Without(@[i], IF annotations THEN {"note"} ELSE {})]])
-----------------------------------------------------------------------------
(* The outline. *)

\* The code checks no page and no level; PyMuPDF's set_toc accepts an outline that starts
\* at level 1 and goes down a level at a time, looks whether every row but the last names
\* a page of the document, and takes the last page for a page past the end.
Leading(entry, d) == [entry EXCEPT !.page = IF @ < NumPages(d) THEN @ ELSE NumPages(d) - 1]
AddBookmarks(d, entries) ==
  IF /\ Readable(d)
     /\ \A i \in DOMAIN entries : i < Len(entries) => entries[i].page < NumPages(d)
     /\ Nested(entries)
  THEN Saved([d EXCEPT !.outline = [i \in DOMAIN entries |-> Leading(entries[i], d)]])
  ELSE Refused

\* Breaks WriteBackKeepsOutline: PyMuPDF's 1-based page is returned as it is.
BadInfoOutline(d) == [i \in DOMAIN d.outline |-> [d.outline[i] EXCEPT !.page = IF @ = Nowhere THEN 0 ELSE @ + 1]]
\* PyMuPDF numbers an entry's page from 1 and gives -1 for an entry without one.
InfoOutline(d) == [i \in DOMAIN d.outline |-> [d.outline[i] EXCEPT !.page =
  LET numbered == IF @ = Nowhere THEN -1 ELSE @ + 1 IN IF numbered - 1 > 0 THEN numbered - 1 ELSE 0]]

\* Annotations are looked at only when they are to be burned in.
BuildPdf(sources, annots, flatten, entries) ==
  LET merged == MergePdfs(sources)
      burned == IF flatten /\ annots # {} THEN FlattenAnnotations(merged, annots) ELSE merged IN
  IF merged = Refused THEN Refused
  ELSE IF entries # <<>> THEN AddBookmarks(burned, entries) ELSE burned
-----------------------------------------------------------------------------
(* Locks. *)

\* What PyMuPDF answers to a password: an owner-locked document opens with none.
AuthenticationLevel(d, password) ==
  CASE password = "owner" -> "owner"
    [] password = "user" /\ d.lock = "user" -> "user"
    [] password = "none" /\ d.lock = "owner" -> "user"
    [] OTHER -> "refused"

EncryptPdf(d, userPassword) ==
  IF ~Readable(d) THEN Refused ELSE [d EXCEPT !.lock = IF userPassword THEN "user" ELSE "owner"]
DecryptPdf(d, password) ==
  IF d.lock = "user" /\ AuthenticationLevel(d, password) = "refused" THEN Refused ELSE Saved(d)

\* One attested attempt with a known password, or with none when the client asks to
\* use the access the document gives to everyone; copying must be allowed to a reader
\* who is not the owner.
AuthorizeAndUnlock(d, attested, password, without, mayCopy) ==
  IF /\ attested
     /\ without <=> password = "none"
     /\ d.lock # "open"
     /\ without => d.lock # "user"
     /\ AuthenticationLevel(d, password) # "refused"
     /\ AuthenticationLevel(d, password) = "owner" \/ mayCopy
  THEN Saved(d) ELSE Refused
-----------------------------------------------------------------------------
(* Forms.  A widget is [name, kind, on, value, locked]; on is the state that  *)
(* means "on" for a check box or a radio button.                             *)

\* _is_checked(): the words that mean yes.  The off state of a button is "Off".
IsChecked(value) == value \in {"yes", "1"}

FillWidget(w, values) ==
  IF w.name \notin DOMAIN values \/ w.locked THEN w
  ELSE [w EXCEPT !.value =
    CASE w.kind = "checkbox" -> IF IsChecked(values[w.name]) THEN w.on ELSE "Off"
      [] w.kind = "radio" -> IF w.on = values[w.name] THEN w.on ELSE "Off"
      [] OTHER -> values[w.name]]

\* Breaks FilledIsListed: the fields are filled but a read-only one is not left alone.
BadFillForm(d, values, flatten) ==
  IF ~Readable(d) THEN Refused
  ELSE Saved([d EXCEPT !.form = IF flatten THEN <<>>
         ELSE [i \in DOMAIN @ |-> FillWidget([@[i] EXCEPT !.locked = FALSE], values)]])
\* Flattened, the fields become content of their page and the form is gone.
FillForm(d, values, flatten) ==
  IF ~Readable(d) THEN Refused
  ELSE Saved([d EXCEPT !.form = IF flatten THEN <<>> ELSE [i \in DOMAIN @ |-> FillWidget(@[i], values)]])

\* One entry per name: the first widget's, and for a radio group the button that is on.
FieldValue(d, name) ==
  LET named == {i \in DOMAIN d.form : d.form[i].name = name}
      on == {i \in named : d.form[i].kind = "radio" /\ d.form[i].value # "Off"} IN
  IF on # {} THEN d.form[Max(on)].on ELSE d.form[Min(named)].value
ListForm(d) == [name \in {d.form[i].name : i \in DOMAIN d.form} |-> FieldValue(d, name)]
-----------------------------------------------------------------------------
(* A client's chain of requests. *)

Init ==
  /\ doc \in Stored
  /\ asked = 0
  /\ answer = [op |-> "none", with |-> <<>>, ok |-> TRUE]

Reply(op, with, d) ==
  /\ asked < MaxRequests
  /\ NumPages(d) <= MaxPages
  /\ asked' = asked + 1
  /\ answer' = [op |-> op, with |-> with, ok |-> d # Refused]
  /\ doc' = IF d = Refused THEN doc ELSE d

\* How copying a page treats the form fields on it is not modelled.
NoForm == doc.form = <<>>
Ranges == {<<>>} \cup {<<[start |-> s, end |-> e]>> : s, e \in 0..MaxPages}
Turns == {<<>>} \cup [{0} -> Quarters] \cup [{1} -> Quarters]
\* A build puts a page of the document, or all of it, before a stored one.
FirstSource == [of : {doc}, ranges : {<<>>}, turns : {<<>>},
                pages : {<<>>} \cup {<<[page |-> p, turn |-> q]>> : p \in {0, MaxPages}, q \in Quarters}]
SecondSource == [of : Stored, pages : {<<>>}, turns : {<<>>} \cup [{0} -> {1}],
                 ranges : {<<>>, <<[start |-> 0, end |-> 1]>>, <<[start |-> 1, end |-> 0]>>}]
Passwords == {"none", "user", "owner", "wrong"}
Entries == {<<>>} \cup {<<[level |-> 1, page |-> p]>> : p \in {0, 1, MaxPages}}
            \cup {<<[level |-> 1, page |-> 1], [level |-> l, page |-> 0]>> : l \in {2, 3}}
            \cup {<<[level |-> 1, page |-> p], [level |-> 2, page |-> MaxPages - p]>> : p \in {0, MaxPages}}
Annots == {{}} \cup {{[page_number |-> n, drawn |-> TRUE]} : n \in {1, 2, MaxPages + 1}}
            \cup {{[page_number |-> 1, drawn |-> FALSE]}}

Rotate == \E ps \in Lists, q \in Quarters : Reply("rotate", <<ps, q>>, RotatePages(doc, ps, q))
Split == NoForm /\ \E ranges \in Ranges, turns \in Turns :
  Reply("split", <<ranges, turns>>, SplitPages(doc, ranges, turns))
Reorder == NoForm /\ \E order \in Lists : Reply("reorder", order, ReorderPages(doc, order))
Delete == NoForm /\ \E ps \in Lists : Reply("delete", ps, DeletePages(doc, ps))
Build == NoForm /\ \E s \in FirstSource, t \in SecondSource, annots \in Annots, flatten \in BOOLEAN, entries \in Entries :
  Reply("build", <<s, t, annots, flatten, entries>>, BuildPdf(<<s, t>>, annots, flatten, entries))
Redact == \E reds \in SUBSET [page : 0..MaxPages, what : {"ssn"}] : Reply("redact", reds, RedactContent(doc, reds))
\* The client reads the document's info and sends its outline back unchanged.
WriteOutlineBack == doc.outline # <<>> /\ Reply("write_back", <<>>, AddBookmarks(doc, InfoOutline(doc)))
Fill == doc.form # <<>> /\ \E values \in Values, flatten \in BOOLEAN :
  Reply("fill", <<values, flatten>>, FillForm(doc, values, flatten))
Mark == \E ps \in Lists \cup {EveryPage(doc)}, what \in {"mark", "crop"} :
  Reply("mark", <<ps, what>>, MarkPages(doc, ps, what))
Flatten == \E annots \in Annots : Reply("flatten", annots, FlattenAnnotations(doc, annots))
Clean == \E annotations \in BOOLEAN : Reply("sanitize", annotations, Sanitize(doc, annotations))
Bookmark == \E entries \in Entries : Reply("bookmarks", entries, AddBookmarks(doc, entries))
Encrypt == \E user \in BOOLEAN : Reply("encrypt", user, EncryptPdf(doc, user))
Decrypt == \E pw \in Passwords \ {"none"} : Reply("decrypt", pw, DecryptPdf(doc, pw))
Unlock == \E attested, without, copy \in BOOLEAN, pw \in Passwords :
  Reply("unlock", <<attested, without, copy, pw>>, AuthorizeAndUnlock(doc, attested, pw, without, copy))

Next ==
  \/ Rotate \/ Split \/ Reorder \/ Delete \/ Build \/ Redact \/ WriteOutlineBack \/ Fill
  \/ Mark \/ Flatten \/ Clean \/ Bookmark \/ Encrypt \/ Decrypt \/ Unlock

Spec == Init /\ [][Next]_vars
-----------------------------------------------------------------------------
(* Properties. *)

\* What the client holds is always a PDF of one to MaxPages pages of the stored
\* documents whose outline names pages it has: every operation refuses rather than
\* answer an empty or dangling document.
TypeOK ==
  /\ doc \in Document /\ NumPages(doc) \in 1..MaxPages /\ Linked(doc)
  /\ asked \in 0..MaxRequests /\ answer.ok \in BOOLEAN

Kept(ps) ==
  LET left == {i \in DOMAIN doc.pages : ~Contains(ps, i - 1)} IN
  [k \in 1..Cardinality(left) |->
    doc.pages[CHOOSE i \in left : Cardinality({j \in left : j < i}) = k - 1]]

\* A list of page numbers means the same pages to the client and to the loops of
\* delete_pages() and reorder_pages(), whose page numbers shift while they work: the
\* pages that are not named stay, in their order, a reordering has every page once,
\* and redacting everything that detect-pii reports leaves it nothing to report.
RequestIsExact == [][answer'.ok =>
  /\ answer'.op = "delete" /\ IsInjective(answer'.with) => doc'.pages = Kept(answer'.with)
  /\ answer'.op = "reorder" => ToBag(doc'.pages) = ToBag(doc.pages)
  /\ answer'.op = "redact" /\ DetectPii(doc) \subseteq answer'.with => DetectPii(doc') = {}]_vars

\* build counts annotations from 1 and bookmarks from 0, both over the pages of the
\* merged document: a built page is burned when the source's page was or when an
\* annotation that is to be flattened has its number.  A bookmark that names one of those
\* pages leads to it; only the last one of the outline may name none, and leads to the
\* last page.
BuildIsExact == [][answer'.op = "build" /\ answer'.ok =>
  LET s == answer'.with[1]  t == answer'.with[2]
      annots == answer'.with[3]  flatten == answer'.with[4]  entries == answer'.with[5]
      first == PageSpecs(s)  second == PageSpecs(t)  built == Len(first) + Len(second)
      Meant(k) == IF k <= Len(first) THEN s.of.pages[first[k].page + 1]
                  ELSE t.of.pages[second[k - Len(first)].page + 1]
      leads(i) == doc'.pages[doc'.outline[i].page + 1].of IN
  /\ NumPages(doc') = built
  /\ \A k \in 1..built :
       /\ doc'.pages[k].of = Meant(k).of
       /\ "burn" \in doc'.pages[k].ink
            <=> "burn" \in Meant(k).ink \/ (flatten /\ [page_number |-> k, drawn |-> TRUE] \in annots)
  /\ \A i \in DOMAIN entries :
       IF entries[i].page < built THEN leads(i) = Meant(entries[i].page + 1).of
       ELSE i = Len(entries) /\ leads(i) = Meant(built).of]_vars

\* "Bookmarks with 0-based pages, so a caller can edit and write them back"
\* (pdf_service.py:168): the outline that info lists is always accepted, after any
\* requests, and moves no bookmark that has a page.
WriteBackKeepsOutline == [][answer'.op = "write_back" /\ Readable(doc) =>
  /\ answer'.ok
  /\ \A i \in DOMAIN doc.outline :
       doc.outline[i].page # Nowhere => doc'.outline[i] = doc.outline[i]]_vars

\* What a client fills in is what the field list then shows: the value of a text
\* field, the state of a check box, the one button of a radio group that is on; a
\* read-only or unnamed field keeps its value.  Once flattened, nothing is listed.
FilledIsListed == [][answer'.op = "fill" /\ answer'.ok =>
  LET values == answer'.with[1]  flatten == answer'.with[2] IN
  /\ flatten => DOMAIN ListForm(doc') = {}
  /\ ~flatten => \A i \in DOMAIN doc.form :
       LET w == doc.form[i]  shown == ListForm(doc')[w.name] IN
       IF w.name \notin DOMAIN values \/ w.locked THEN shown = ListForm(doc)[w.name]
       ELSE CASE w.kind = "text" -> shown = values[w.name]
              [] w.kind = "checkbox" -> (shown # "Off") <=> (values[w.name] = "yes")
              [] w.kind = "radio" -> (shown = w.on) <=> (values[w.name] = w.on)]_vars
=============================================================================
