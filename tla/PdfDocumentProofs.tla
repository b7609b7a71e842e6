-------------------------- MODULE PdfDocumentProofs --------------------------
(* Theorems about PdfDocument: whatever documents are stored and whatever      *)
(* lists, rotations and bounds the requests come with, every answer is a       *)
(* document of the stored pages, and the operations that count pages in        *)
(* different ways mean the same ones.                                          *)
EXTENDS PdfDocument, FiniteSetTheorems, SequenceTheorems, WellFoundedInduction, TLAPS

-----------------------------------------------------------------------------
(* The strengthening: outlines stay nested and the widgets of a name stay one *)
(* field.                                                                     *)

IInv == TypeOK /\ Nested(doc.outline) /\ OneField(doc.form)

\* A document an operation may work on, and one it may answer.
Sound(d) == d \in Document /\ Linked(d) /\ Nested(d.outline) /\ OneField(d.form)
Answered(d) == Sound(d) /\ (d # Refused => NumPages(d) # 0)

-----------------------------------------------------------------------------
(* Sequences *)

LEMMA MapSeq ==
  ASSUME NEW S, NEW n \in Nat, NEW f \in [1..n -> S]
  PROVE  f \in Seq(S) /\ Len(f) = n /\ DOMAIN f = 1..n
OBVIOUS

LEMMA SeqIs ==
  ASSUME NEW S, NEW s \in Seq(S)
  PROVE  /\ Len(s) \in Nat /\ DOMAIN s = 1..Len(s) /\ s \in [1..Len(s) -> S]
         /\ \A i \in 1..Len(s) : s[i] \in S
         /\ s = <<>> <=> Len(s) = 0
BY LenProperties, ElementOfSeq

LEMMA FlattenOne ==
  ASSUME NEW S, NEW f \in Seq(S), Len(f) = 1
  PROVE  FlattenSeq(f) = f[1]
<1> DEFINE Def(fl) == fl = [i \in 1..Len(f) |-> IF i = 1 THEN f[i] ELSE fl[i - 1] \o f[i]]
<1>1. Def([i \in 1..1 |-> f[1]])
  OBVIOUS
<1>2. Def(CHOOSE fl : Def(fl))
  BY <1>1
<1>3. (CHOOSE fl : Def(fl))[1] = f[1]
  BY <1>2
<1> QED
  BY <1>3 DEF FlattenSeq

LEMMA FlattenTwo ==
  ASSUME NEW S, NEW f \in Seq(S), Len(f) = 2
  PROVE  FlattenSeq(f) = f[1] \o f[2]
<1> DEFINE Def(fl) == fl = [i \in 1..Len(f) |-> IF i = 1 THEN f[i] ELSE fl[i - 1] \o f[i]]
           two == [i \in 1..2 |-> IF i = 1 THEN f[1] ELSE f[1] \o f[2]]
<1>1. Def(two)
  <2>1. two[1] = f[1] /\ two[2] = f[1] \o f[2]
    OBVIOUS
  <2>2. \A i \in 1..2 : two[i] = IF i = 1 THEN f[i] ELSE two[i - 1] \o f[i]
    BY <2>1
  <2> HIDE DEF two
  <2>3. two = [i \in 1..2 |-> two[i]]
    BY DEF two
  <2> QED
    BY <2>2, <2>3
<1>2. Def(CHOOSE fl : Def(fl))
  BY <1>1
<1> DEFINE fl == CHOOSE fl : Def(fl)
<1>3. FlattenSeq(f) = fl[2]
  BY DEF FlattenSeq
<1>4. Def(fl)
  BY <1>2
<1> HIDE DEF fl
<1>5. \A i \in 1..2 : fl[i] = IF i = 1 THEN f[i] ELSE fl[i - 1] \o f[i]
  BY <1>4
<1>6. fl[1] = f[1] /\ fl[2] = fl[1] \o f[2]
  BY <1>5
<1> QED
  BY <1>3, <1>6

-----------------------------------------------------------------------------
(* Documents *)

LEMMA DocumentIs ==
  ASSUME NEW d \in Document
  PROVE  /\ d.pages \in Seq(Page) /\ d.outline \in Seq(Entry) /\ d.form \in Seq(Widget) /\ d.lock \in Locks
         /\ NumPages(d) \in Nat /\ DOMAIN d.pages = 1..NumPages(d)
         /\ d.pages = <<>> <=> NumPages(d) = 0
         /\ DOMAIN d = {"pages", "outline", "form", "lock"}
<1>1. /\ d.pages \in Seq(Page) /\ d.outline \in Seq(Entry) /\ d.form \in Seq(Widget) /\ d.lock \in Locks
      /\ DOMAIN d = {"pages", "outline", "form", "lock"}
  BY DEF Document
<1> QED
  BY <1>1, SeqIs DEF NumPages

LEMMA RefusedIsSound == Sound(Refused)
<1>1. <<>> \in Seq(Page) /\ <<>> \in Seq(Entry) /\ <<>> \in Seq(Widget) /\ DOMAIN <<>> = {}
  OBVIOUS
<1>2. Refused \in Document
  BY <1>1 DEF Refused, Document, Locks
<1>3. Refused.outline = <<>> /\ Refused.form = <<>>
  BY DEF Refused
<1> QED
  BY <1>1, <1>2, <1>3 DEF Sound, Linked, Nested, OneField

\* A document made of copied pages.
LEMMA Copied ==
  ASSUME NEW f \in Seq(Page)
  PROVE  LET e == [Refused EXCEPT !.pages = f] IN
         Sound(e) /\ e.pages = f /\ e.outline = <<>> /\ e.form = <<>> /\ e.lock = "open"
<1> DEFINE e == [Refused EXCEPT !.pages = f]
<1>1. e.pages = f /\ e.outline = <<>> /\ e.form = <<>> /\ e.lock = "open"
  BY DEF Refused
<1>2. e \in Document
  BY RefusedIsSound DEF Sound, Document
<1> HIDE DEF e
<1>3. Sound(e)
  BY <1>1, <1>2 DEF Sound, Linked, Nested, OneField
<1> QED
  BY <1>1, <1>3 DEF e

\* A document whose pages were replaced one for one.
LEMMA Marked ==
  ASSUME NEW d, Sound(d), NEW f \in [DOMAIN d.pages -> Page]
  PROVE  LET e == [d EXCEPT !.pages = f] IN
         /\ Sound(e) /\ e.pages = f /\ NumPages(e) = NumPages(d)
         /\ e.outline = d.outline /\ e.form = d.form /\ e.lock = d.lock
<1> DEFINE e == [d EXCEPT !.pages = f]
<1>1. d \in Document /\ NumPages(d) \in Nat /\ DOMAIN d.pages = 1..NumPages(d)
  BY DocumentIs DEF Sound
<1>2. f \in Seq(Page) /\ Len(f) = NumPages(d)
  BY <1>1, MapSeq
<1>3. e \in Document
  BY <1>1, <1>2 DEF Document
<1>4. e.pages = f /\ e.outline = d.outline /\ e.form = d.form /\ e.lock = d.lock
  BY <1>1 DEF Document
<1>5. NumPages(e) = NumPages(d)
  BY <1>2, <1>4 DEF NumPages
<1> HIDE DEF e
<1>6. Sound(e)
  BY <1>3, <1>4, <1>5 DEF Sound, Linked
<1> QED
  BY <1>4, <1>5, <1>6 DEF e

\* What is written is the document without its lock, or refused.
LEMMA SavedIs ==
  ASSUME NEW d, Sound(d)
  PROVE  /\ Answered(Saved(d))
         /\ Saved(d) # Refused <=> NumPages(d) # 0
         /\ Saved(d) # Refused =>
              /\ Saved(d).pages = d.pages /\ Saved(d).outline = d.outline
              /\ Saved(d).form = d.form /\ Saved(d).lock = "open"
<1>1. d \in Document /\ (d.pages = <<>> <=> NumPages(d) = 0)
  BY DocumentIs DEF Sound
<1>2. CASE d.pages = <<>>
  BY <1>1, <1>2, RefusedIsSound DEF Saved, Answered
<1>3. CASE d.pages # <<>>
  <2> DEFINE e == [d EXCEPT !.lock = "open"]
  <2>1. e \in Document
    BY <1>1 DEF Document, Locks
  <2>2. e.pages = d.pages /\ e.outline = d.outline /\ e.form = d.form /\ e.lock = "open"
    BY <1>1 DEF Document
  <2> HIDE DEF e
  <2>3. Sound(e)
    BY <2>1, <2>2 DEF Sound, Linked, NumPages
  <2>4. e # Refused
    BY <1>3, <2>2 DEF Refused
  <2>5. Saved(d) = e
    BY <1>3 DEF Saved, e
  <2> QED
    BY <1>1, <1>3, <2>2, <2>3, <2>4, <2>5 DEF Answered, NumPages
<1> QED
  BY <1>2, <1>3

\* The pages a request may name.
LEMMA ValidIs ==
  ASSUME NEW d, Sound(d), NEW ps, ValidPages(d, ps)
  PROVE  /\ \A i \in DOMAIN ps : /\ ps[i] \in 0..(NumPages(d) - 1) /\ ps[i] + 1 \in 1..NumPages(d)
                                 /\ ps[i] \in Nat /\ d.pages[ps[i] + 1] \in Page
         /\ NumPages(d) \in Nat
<1>1. d.pages \in Seq(Page) /\ NumPages(d) \in Nat /\ NumPages(d) = Len(d.pages)
  BY DocumentIs DEF Sound, NumPages
<1>2. \A i \in DOMAIN ps : ps[i] \in 0..(NumPages(d) - 1)
  BY DEF ValidPages
<1>3. \A i \in DOMAIN ps : ps[i] + 1 \in 1..NumPages(d) /\ ps[i] \in Nat
  BY <1>1, <1>2
<1>4. \A i \in DOMAIN ps : d.pages[ps[i] + 1] \in Page
  BY <1>1, <1>3, ElementOfSeq
<1> QED
  BY <1>1, <1>2, <1>3, <1>4

-----------------------------------------------------------------------------
(* Every operation answers a sound document of at least one page, or refuses. *)

LEMMA PageIs ==
  ASSUME NEW pg \in Page
  PROVE  /\ pg.turn \in 0..3 /\ pg.ink \in SUBSET Ink
         /\ \A q \in Int : Turned(pg, q) \in Page /\ Turned(pg, q).of = pg.of /\ Turned(pg, q).ink = pg.ink
         /\ \A q \in 0..3 : [pg EXCEPT !.turn = q] \in Page
         /\ \A what \in Ink : Inked(pg, what) \in Page /\ Inked(pg, what).of = pg.of
                               /\ Inked(pg, what).ink = pg.ink \cup {what}
         /\ \A what : Without(pg, what) \in Page /\ Without(pg, what).ink = pg.ink \ what
<1>1. pg.turn \in 0..3 /\ pg.ink \in SUBSET Ink
  BY DEF Page
<1>2. \A q \in Int : (pg.turn + q) % 4 \in 0..3
  BY <1>1
<1>3. \A q \in 0..3 : [pg EXCEPT !.turn = q] \in Page /\ [pg EXCEPT !.turn = q].of = pg.of
                       /\ [pg EXCEPT !.turn = q].ink = pg.ink
  BY DEF Page
<1>4. \A ink \in SUBSET Ink : [pg EXCEPT !.ink = ink] \in Page /\ [pg EXCEPT !.ink = ink].of = pg.of
                               /\ [pg EXCEPT !.ink = ink].ink = ink
  BY DEF Page
<1>5. \A q \in Int : Turned(pg, q) \in Page /\ Turned(pg, q).of = pg.of /\ Turned(pg, q).ink = pg.ink
  BY <1>2, <1>3 DEF Turned
<1>6. \A what \in Ink : Inked(pg, what) \in Page /\ Inked(pg, what).of = pg.of
                         /\ Inked(pg, what).ink = pg.ink \cup {what}
  BY <1>1, <1>4 DEF Inked
<1>7. \A what : Without(pg, what) \in Page /\ Without(pg, what).ink = pg.ink \ what
  <2> SUFFICES ASSUME NEW what
               PROVE  Without(pg, what) \in Page /\ Without(pg, what).ink = pg.ink \ what
    OBVIOUS
  <2>1. pg.ink \ what \in SUBSET Ink
    BY <1>1
  <2> QED
    BY <1>4, <2>1 DEF Without
<1> QED
  BY <1>1, <1>3, <1>5, <1>6, <1>7

LEMMA RotateAnswers ==
  ASSUME NEW d, Sound(d), NEW ps \in Seq(Int), NEW q \in 0..3
  PROVE  Answered(RotatePages(d, ps, q))
<1> DEFINE times(i) == Cardinality({k \in DOMAIN ps : ps[k] = i - 1})
           f == [i \in DOMAIN d.pages |-> Turned(d.pages[i], q * times(i))]
<1>1. CASE ~ValidPages(d, ps)
  BY <1>1, RefusedIsSound DEF RotatePages, Answered
<1>2. CASE ValidPages(d, ps)
  <2>1. d.pages \in Seq(Page) /\ NumPages(d) \in Nat /\ DOMAIN d.pages = 1..NumPages(d)
    BY DocumentIs DEF Sound
  <2>2. \A i : times(i) \in Nat
    <3> SUFFICES ASSUME NEW i PROVE times(i) \in Nat
      OBVIOUS
    <3>1. IsFiniteSet(1..Len(ps)) /\ DOMAIN ps = 1..Len(ps)
      BY SeqIs, FS_Interval
    <3>2. IsFiniteSet({k \in DOMAIN ps : ps[k] = i - 1})
      BY <3>1, FS_Subset
    <3> QED
      BY <3>2, FS_CardinalityType
  <2> HIDE DEF times
  <2>3. \A i \in DOMAIN d.pages : d.pages[i] \in Page /\ q * times(i) \in Int
    BY <2>1, <2>2, SeqIs DEF NumPages
  <2>4. f \in [DOMAIN d.pages -> Page]
    BY <2>3, PageIs
  <2>5. RotatePages(d, ps, q) = Saved([d EXCEPT !.pages = f])
    BY <1>2 DEF RotatePages, times
  <2> HIDE DEF f
  <2>6. Sound([d EXCEPT !.pages = f])
    BY <2>4, Marked
  <2> QED
    BY <2>5, <2>6, SavedIs
<1> QED
  BY <1>1, <1>2

\* Marks, redactions and cleaning replace pages one for one.
LEMMA MarkedAnswers ==
  ASSUME NEW d, Sound(d), NEW f \in [DOMAIN d.pages -> Page]
  PROVE  /\ Answered(Saved([d EXCEPT !.pages = f]))
         /\ Saved([d EXCEPT !.pages = f]) # Refused <=> NumPages(d) # 0
         /\ Saved([d EXCEPT !.pages = f]) # Refused =>
              /\ Saved([d EXCEPT !.pages = f]).pages = f
              /\ Saved([d EXCEPT !.pages = f]).outline = d.outline
              /\ Saved([d EXCEPT !.pages = f]).lock = "open"
<1> DEFINE e == [d EXCEPT !.pages = f]
<1>1. Sound(e) /\ e.pages = f /\ e.outline = d.outline /\ NumPages(e) = NumPages(d)
  BY Marked
<1> HIDE DEF e
<1>2. /\ Answered(Saved(e)) /\ (Saved(e) # Refused <=> NumPages(d) # 0)
      /\ Saved(e) # Refused =>
           Saved(e).pages = f /\ Saved(e).outline = d.outline /\ Saved(e).lock = "open"
  BY <1>1, SavedIs
<1> QED
  BY <1>2 DEF e

LEMMA PagesAre ==
  ASSUME NEW d, Sound(d)
  PROVE  \A i \in DOMAIN d.pages : d.pages[i] \in Page
<1>1. d.pages \in Seq(Page)
  BY DocumentIs DEF Sound
<1> QED
  BY <1>1, SeqIs

LEMMA FlattenAnswers ==
  ASSUME NEW d, Sound(d), NEW annots
  PROVE  Answered(FlattenAnnotations(d, annots))
<1> DEFINE f == [i \in DOMAIN d.pages |->
             IF \E a \in annots : a.page_number - 1 = i - 1 /\ a.drawn THEN Inked(d.pages[i], "burn") ELSE d.pages[i]]
<1>1. f \in [DOMAIN d.pages -> Page]
  BY PagesAre, PageIs DEF Ink
<1>2. FlattenAnnotations(d, annots) = IF Readable(d) THEN Saved([d EXCEPT !.pages = f]) ELSE Refused
  BY DEF FlattenAnnotations
<1> HIDE DEF f
<1> QED
  BY <1>1, <1>2, MarkedAnswers, RefusedIsSound DEF Answered

LEMMA RedactAnswers ==
  ASSUME NEW d, Sound(d), NEW reds
  PROVE  Answered(RedactContent(d, reds))
<1> DEFINE f == [i \in DOMAIN d.pages |->
             Without(d.pages[i], {r.what : r \in {x \in reds : x.page = i - 1}})]
<1>1. f \in [DOMAIN d.pages -> Page]
  BY PagesAre, PageIs
<1>2. RedactContent(d, reds) = IF Readable(d) THEN Saved([d EXCEPT !.pages = f]) ELSE Refused
  BY DEF RedactContent
<1> HIDE DEF f
<1> QED
  BY <1>1, <1>2, MarkedAnswers, RefusedIsSound DEF Answered

LEMMA MarkAnswers ==
  ASSUME NEW d, Sound(d), NEW ps, NEW what \in Ink
  PROVE  Answered(MarkPages(d, ps, what))
<1> DEFINE f == [i \in DOMAIN d.pages |->
             IF Contains(ps, i - 1) THEN Inked(d.pages[i], what) ELSE d.pages[i]]
<1>1. f \in [DOMAIN d.pages -> Page]
  BY PagesAre, PageIs
<1>2. MarkPages(d, ps, what) = IF ValidPages(d, ps) THEN Saved([d EXCEPT !.pages = f]) ELSE Refused
  BY DEF MarkPages
<1> HIDE DEF f
<1> QED
  BY <1>1, <1>2, MarkedAnswers, RefusedIsSound DEF Answered

LEMMA SanitizeAnswers ==
  ASSUME NEW d, Sound(d), NEW annotations
  PROVE  Answered(Sanitize(d, annotations))
<1> DEFINE f == [i \in DOMAIN d.pages |->
             Without(d.pages[i], IF annotations THEN {"note"} ELSE {})]
<1>1. f \in [DOMAIN d.pages -> Page]
  BY PagesAre, PageIs
<1>2. Sanitize(d, annotations) = IF Readable(d) THEN Saved([d EXCEPT !.pages = f]) ELSE Refused
  BY DEF Sanitize
<1> HIDE DEF f
<1> QED
  BY <1>1, <1>2, MarkedAnswers, RefusedIsSound DEF Answered

\* A range names consecutive pages, or none when it ends before it starts.
LEMMA RangeIs ==
  ASSUME NEW s \in Int, NEW e \in Int
  PROVE  [k \in 1..(e - s + 1) |-> s + k - 1] \in Seq(Int)
<1> DEFINE n == e - s + 1
           f == [k \in 1..n |-> s + k - 1]
<1>1. CASE n \in Nat
  <2>1. \A k \in 1..n : s + k - 1 \in Int
    OBVIOUS
  <2>2. f \in [1..n -> Int]
    BY <2>1
  <2> HIDE DEF f, n
  <2>3. f \in Seq(Int)
    BY <1>1, <2>2, MapSeq
  <2> QED
    BY <2>3 DEF f, n
<1>2. CASE n \notin Nat
  <2>1. 1..n = {} /\ 1..0 = {}
    BY <1>2
  <2>2. f \in [1..0 -> Int]
    BY <2>1
  <2> HIDE DEF f, n
  <2>3. f \in Seq(Int)
    BY <2>2, MapSeq
  <2> QED
    BY <2>3 DEF f, n
<1> QED
  BY <1>1, <1>2

LEMMA ExpandIs ==
  ASSUME NEW ranges \in Seq([start : Int, end : Int]), Len(ranges) <= 1
  PROVE  Expand(ranges) \in Seq(Int)
<1> DEFINE g(r) == [k \in 1..(r.end - r.start + 1) |-> r.start + k - 1]
           f == [i \in DOMAIN ranges |-> g(ranges[i])]
<1>1. \A r \in [start : Int, end : Int] : g(r) \in Seq(Int)
  BY RangeIs
<1>2. Expand(ranges) = FlattenSeq(f)
  BY DEF Expand
<1> HIDE DEF g
<1>3. Len(ranges) \in {0, 1} /\ DOMAIN ranges = 1..Len(ranges)
      /\ \A i \in 1..Len(ranges) : ranges[i] \in [start : Int, end : Int]
  <2> DEFINE R == [start : Int, end : Int]
  <2>1. ranges \in Seq(R)
    OBVIOUS
  <2> HIDE DEF R
  <2>2. Len(ranges) \in Nat /\ DOMAIN ranges = 1..Len(ranges) /\ \A i \in 1..Len(ranges) : ranges[i] \in R
    BY <2>1, SeqIs
  <2> QED
    BY <2>2 DEF R
<1>4. f \in [1..Len(ranges) -> Seq(Int)]
  BY <1>1, <1>3
<1> HIDE DEF f
<1>5. f \in Seq(Seq(Int)) /\ Len(f) = Len(ranges)
  BY <1>3, <1>4, MapSeq
<1>6. CASE Len(ranges) = 0
  <2>1. f = <<>> /\ FlattenSeq(f) = f
    BY <1>5, <1>6, SeqIs DEF FlattenSeq
  <2>2. <<>> \in Seq(Int)
    OBVIOUS
  <2> QED
    BY <1>2, <2>1, <2>2
<1>7. CASE Len(ranges) = 1
  <2>1. FlattenSeq(f) = f[1]
    BY <1>5, <1>7, FlattenOne
  <2>2. f[1] \in Seq(Int)
    BY <1>4, <1>7
  <2> QED
    BY <1>2, <2>1, <2>2
<1> QED
  BY <1>3, <1>6, <1>7

\* The ranges and rotations of requests.
LEMMA RequestIs ==
  /\ \A ranges \in Ranges : ranges \in Seq([start : Int, end : Int]) /\ Len(ranges) <= 1
  /\ \A turns \in Turns : \A p \in DOMAIN turns : turns[p] \in 0..3
<1>1. MaxPages \in Nat /\ Quarters \subseteq 0..3
  BY RequestAssumption
<1>2. \A s, e \in 0..MaxPages :
        LET r == <<[start |-> s, end |-> e]>> IN r \in Seq([start : Int, end : Int]) /\ Len(r) = 1
  BY <1>1
<1>3. <<>> \in Seq([start : Int, end : Int]) /\ Len(<<>>) = 0 /\ DOMAIN <<>> = {}
  OBVIOUS
<1>4. \A ranges \in Ranges : ranges \in Seq([start : Int, end : Int]) /\ Len(ranges) <= 1
  <2> SUFFICES ASSUME NEW ranges \in Ranges
               PROVE  ranges \in Seq([start : Int, end : Int]) /\ Len(ranges) <= 1
    OBVIOUS
  <2>1. CASE ranges = <<>>
    BY <1>3, <2>1
  <2>2. CASE \E s, e \in 0..MaxPages : ranges = <<[start |-> s, end |-> e]>>
    <3>1. PICK s \in 0..MaxPages, e \in 0..MaxPages : ranges = <<[start |-> s, end |-> e]>>
      BY <2>2
    <3> QED
      BY <1>2, <3>1
  <2> QED
    BY <2>1, <2>2 DEF Ranges
<1>5. \A turns \in Turns : \A p \in DOMAIN turns : turns[p] \in 0..3
  BY <1>1, <1>3 DEF Turns
<1> QED
  BY <1>4, <1>5

LEMMA SplitAnswers ==
  ASSUME NEW d, Sound(d), NEW ranges \in Ranges, NEW turns \in Turns
  PROVE  Answered(SplitPages(d, ranges, turns))
<1> DEFINE ps == Expand(ranges)
           copy(p) == IF p \in DOMAIN turns THEN [d.pages[p + 1] EXCEPT !.turn = turns[p]]
                      ELSE d.pages[p + 1]
           f == [i \in DOMAIN ps |-> copy(ps[i])]
<1>1. SplitPages(d, ranges, turns) =
        IF ValidPages(d, ps) THEN Saved([Refused EXCEPT !.pages = f]) ELSE Refused
  BY DEF SplitPages
<1>2. ps \in Seq(Int)
  BY RequestIs, ExpandIs
<1> HIDE DEF ps
<1>3. CASE ValidPages(d, ps)
  <2>1. \A i \in DOMAIN ps : d.pages[ps[i] + 1] \in Page
    BY <1>3, ValidIs
  <2>2. \A i \in DOMAIN ps : copy(ps[i]) \in Page
    BY <2>1, PageIs, RequestIs
  <2>3. f \in [1..Len(ps) -> Page] /\ Len(ps) \in Nat
    BY <1>2, <2>2, SeqIs
  <2> HIDE DEF f
  <2>4. f \in Seq(Page)
    BY <2>3, MapSeq
  <2>5. Sound([Refused EXCEPT !.pages = f])
    BY <2>4, Copied
  <2> QED
    BY <1>1, <1>3, <2>5, SavedIs
<1> QED
  BY <1>1, <1>3, RefusedIsSound DEF Answered

\* A source of a merge: the document it names is sound, and so are the pages it names.
Specs == Seq([page : Int, turn : Int])
SourceFits(s) == Sound(s.of) /\ PageSpecs(s) \in Specs

\* Each page of a merge is a page of its source, with the rotation added.
Copies(s) == [i \in DOMAIN PageSpecs(s) |->
  Turned(s.of.pages[PageSpecs(s)[i].page + 1], PageSpecs(s)[i].turn)]
SourceValid(s) == ValidPages(s.of, [i \in DOMAIN PageSpecs(s) |-> PageSpecs(s)[i].page])

LEMMA CopiesAre ==
  ASSUME NEW s, SourceFits(s), SourceValid(s)
  PROVE  /\ Copies(s) \in Seq(Page) /\ Len(Copies(s)) = Len(PageSpecs(s))
         /\ Len(PageSpecs(s)) \in Nat /\ DOMAIN PageSpecs(s) = 1..Len(PageSpecs(s))
         /\ \A i \in DOMAIN PageSpecs(s) :
              LET pg == s.of.pages[PageSpecs(s)[i].page + 1] IN
              pg \in Page /\ Copies(s)[i].of = pg.of /\ Copies(s)[i].ink = pg.ink
<1> DEFINE specs == PageSpecs(s)
           ps == [i \in DOMAIN specs |-> specs[i].page]
           n == Len(specs)
<1>1. specs \in Specs /\ Sound(s.of)
  BY DEF SourceFits
<1>2. n \in Nat /\ DOMAIN specs = 1..n /\ \A i \in 1..n : specs[i].turn \in Int
  BY <1>1, SeqIs DEF Specs
<1>3. \A i \in DOMAIN ps : s.of.pages[ps[i] + 1] \in Page
  <2>1. ValidPages(s.of, ps)
    BY DEF SourceValid
  <2> HIDE DEF ps
  <2> QED
    BY <1>1, <2>1, ValidIs
<1>4. \A i \in 1..n : s.of.pages[specs[i].page + 1] \in Page
  BY <1>2, <1>3
<1>5. Copies(s) = [i \in 1..n |-> Turned(s.of.pages[specs[i].page + 1], specs[i].turn)]
  BY <1>2 DEF Copies
<1> HIDE DEF specs, n
<1>6. \A i \in 1..n : LET pg == s.of.pages[specs[i].page + 1] IN
        /\ Copies(s)[i] \in Page /\ Copies(s)[i].of = pg.of /\ Copies(s)[i].ink = pg.ink
  <2> SUFFICES ASSUME NEW i \in 1..n
               PROVE  LET pg == s.of.pages[specs[i].page + 1] IN
                      /\ Copies(s)[i] \in Page /\ Copies(s)[i].of = pg.of /\ Copies(s)[i].ink = pg.ink
    OBVIOUS
  <2> DEFINE pg == s.of.pages[specs[i].page + 1]
             q == specs[i].turn
  <2>1. Copies(s)[i] = Turned(pg, q)
    BY <1>5
  <2>2. pg \in Page /\ q \in Int
    BY <1>2, <1>4
  <2> HIDE DEF pg, q
  <2>3. Turned(pg, q) \in Page /\ Turned(pg, q).of = pg.of /\ Turned(pg, q).ink = pg.ink
    BY <2>2, PageIs
  <2>4. Copies(s)[i] \in Page /\ Copies(s)[i].of = pg.of /\ Copies(s)[i].ink = pg.ink
    BY <2>1, <2>3
  <2> QED
    BY <2>4 DEF pg
<1>7. Copies(s) \in [1..n -> Page]
  BY <1>5, <1>6
<1>8. Copies(s) \in Seq(Page) /\ Len(Copies(s)) = n
  BY <1>2, <1>7, MapSeq
<1> QED
  BY <1>2, <1>4, <1>6, <1>8 DEF specs, n

\* What a merge of two sources is.
LEMMA MergeIs ==
  ASSUME NEW s, NEW t, SourceFits(s), SourceFits(t)
  PROVE  /\ MergePdfs(<<s, t>>) =
              IF SourceValid(s) /\ SourceValid(t)
              THEN Saved([Refused EXCEPT !.pages = Copies(s) \o Copies(t)]) ELSE Refused
         /\ SourceValid(s) /\ SourceValid(t) => Copies(s) \o Copies(t) \in Seq(Page)
<1> DEFINE two == <<s, t>>
           each == [x \in DOMAIN two |-> Copies(two[x])]
<1>1. two[1] = s /\ two[2] = t /\ DOMAIN two = {1, 2}
  OBVIOUS
<1>2. MergePdfs(two) =
        IF \A x \in DOMAIN two : SourceValid(two[x])
        THEN Saved([Refused EXCEPT !.pages = FlattenSeq(each)]) ELSE Refused
  BY DEF MergePdfs, SourceValid, Copies
<1> HIDE DEF two
<1>3. (\A x \in DOMAIN two : SourceValid(two[x])) <=> SourceValid(s) /\ SourceValid(t)
  BY <1>1
<1>4. CASE SourceValid(s) /\ SourceValid(t)
  <2>1. Copies(s) \in Seq(Page) /\ Copies(t) \in Seq(Page)
    BY <1>4, CopiesAre
  <2>2. each[1] = Copies(s) /\ each[2] = Copies(t) /\ each \in [1..2 -> Seq(Page)]
    BY <1>1, <2>1
  <2> HIDE DEF each
  <2>3. each \in Seq(Seq(Page)) /\ Len(each) = 2
    BY <2>2, MapSeq
  <2>4. FlattenSeq(each) = Copies(s) \o Copies(t)
    BY <2>2, <2>3, FlattenTwo
  <2>5. Copies(s) \o Copies(t) \in Seq(Page)
    BY <2>1, ConcatProperties
  <2> QED
    BY <1>2, <1>3, <1>4, <2>4, <2>5 DEF two
<1> QED
  BY <1>2, <1>3, <1>4 DEF two

LEMMA MergeAnswers ==
  ASSUME NEW s, NEW t, SourceFits(s), SourceFits(t)
  PROVE  Answered(MergePdfs(<<s, t>>))
<1> DEFINE all == Copies(s) \o Copies(t)
<1>1. CASE SourceValid(s) /\ SourceValid(t)
  <2>1. all \in Seq(Page) /\ MergePdfs(<<s, t>>) = Saved([Refused EXCEPT !.pages = all])
    BY <1>1, MergeIs
  <2> HIDE DEF all
  <2>2. Sound([Refused EXCEPT !.pages = all])
    BY <2>1, Copied
  <2> QED
    BY <2>1, <2>2, SavedIs
<1>2. CASE ~(SourceValid(s) /\ SourceValid(t))
  BY <1>2, MergeIs, RefusedIsSound DEF Answered
<1> QED
  BY <1>1, <1>2

LEMMA ReorderAnswers ==
  ASSUME NEW d, Sound(d), NEW order \in Seq(Int)
  PROVE  Answered(ReorderPages(d, order))
<1> DEFINE f == [i \in DOMAIN order |-> d.pages[order[i] + 1]]
<1>1. CASE ValidPages(d, order)
  <2>1. \A i \in DOMAIN order : d.pages[order[i] + 1] \in Page
    BY <1>1, ValidIs
  <2>2. f \in [1..Len(order) -> Page] /\ Len(order) \in Nat
    BY <2>1, SeqIs
  <2>3. ReorderPages(d, order) \in {Refused, Saved([Refused EXCEPT !.pages = f])}
    BY DEF ReorderPages
  <2> HIDE DEF f
  <2>4. f \in Seq(Page)
    BY <2>2, MapSeq
  <2>5. Sound([Refused EXCEPT !.pages = f])
    BY <2>4, Copied
  <2> QED
    BY <2>3, <2>5, SavedIs, RefusedIsSound DEF Answered
<1> QED
  BY <1>1, RefusedIsSound DEF ReorderPages, Answered

\* What bookmarks are asked for: pages are counted from 0.
Asked == [level : Int, page : Nat]

\* An outline the document takes is the document's outline; its last entry may be moved
\* to the last page.
LEMMA BookmarksAre ==
  ASSUME NEW d, Sound(d), NEW entries \in Seq(Asked)
  PROVE  LET e == AddBookmarks(d, entries)  N == NumPages(d) IN
         /\ Answered(e)
         /\ e # Refused =>
              /\ e.pages = d.pages
              /\ \A i \in DOMAIN entries :
                   /\ entries[i].page < N => e.outline[i] = entries[i]
                   /\ ~(entries[i].page < N) => i = Len(entries) /\ e.outline[i].page = N - 1
         /\ /\ Readable(d) /\ Nested(entries) /\ N # 0
            /\ \A i \in DOMAIN entries : entries[i].page \in 0..(N - 1)
            => e # Refused /\ e.outline = entries
<1> DEFINE N == NumPages(d)
           Accepted == /\ Readable(d) /\ Nested(entries)
                       /\ \A i \in DOMAIN entries : i < Len(entries) => entries[i].page < N
           f == [i \in DOMAIN entries |-> Leading(entries[i], d)]
           e == [d EXCEPT !.outline = f]
<1>1. AddBookmarks(d, entries) = IF Accepted THEN Saved(e) ELSE Refused
  BY DEF AddBookmarks
<1>2. /\ DOMAIN entries = 1..Len(entries) /\ Len(entries) \in Nat /\ N \in Nat
      /\ \A i \in DOMAIN entries : entries[i] \in Asked
  BY DocumentIs, SeqIs DEF Sound
<1>3. \A i \in DOMAIN entries :
        /\ f[i] \in Entry /\ f[i].level = entries[i].level /\ f[i].page \in {Nowhere} \cup 0..(N - 1)
        /\ entries[i].page < N => f[i] = entries[i]
        /\ ~(entries[i].page < N) => f[i].page = N - 1
  <2> SUFFICES ASSUME NEW x \in Asked
               PROVE  /\ Leading(x, d) \in Entry /\ Leading(x, d).level = x.level
                      /\ Leading(x, d).page \in {Nowhere} \cup 0..(N - 1)
                      /\ x.page < N => Leading(x, d) = x
                      /\ ~(x.page < N) => Leading(x, d).page = N - 1
    BY <1>2
  <2> DEFINE page == IF x.page < N THEN x.page ELSE N - 1
  <2>1. Leading(x, d) = [x EXCEPT !.page = page]
    BY DEF Leading
  <2>2. /\ page \in Int /\ page \in {Nowhere} \cup 0..(N - 1)
        /\ x.page < N => page = x.page
        /\ ~(x.page < N) => page = N - 1
    BY <1>2 DEF Asked, Nowhere
  <2> HIDE DEF page, N
  <2>3. [x EXCEPT !.page = page] \in Entry /\ [x EXCEPT !.page = page].level = x.level
        /\ [x EXCEPT !.page = page].page = page
    BY <2>2 DEF Asked, Entry
  <2>4. x.page = page => [x EXCEPT !.page = page] = x
    BY DEF Asked
  <2> QED
    BY <2>1, <2>2, <2>3, <2>4
<1>4. DOMAIN f = DOMAIN entries
  OBVIOUS
<1> HIDE DEF f, N
<1>5. f \in Seq(Entry)
  <2>1. f \in [1..Len(entries) -> Entry]
    <3>1. f = [i \in DOMAIN entries |-> f[i]]
      BY DEF f
    <3> QED
      BY <1>2, <1>3, <3>1
  <2> QED
    BY <1>2, <2>1, MapSeq
<1>6. Nested(entries) => Nested(f)
  <2> SUFFICES ASSUME Nested(entries), NEW i \in DOMAIN f
               PROVE  f[i].level <= (IF i = 1 THEN 1 ELSE f[i - 1].level + 1)
    BY DEF Nested
  <2>1. entries[i].level <= (IF i = 1 THEN 1 ELSE entries[i - 1].level + 1)
    BY <1>4 DEF Nested
  <2>2. i # 1 => i - 1 \in DOMAIN f
    BY <1>2, <1>4
  <2> QED
    BY <1>3, <1>4, <2>1, <2>2
<1>7. CASE Accepted
  <2>1. e \in Document
    BY <1>5 DEF Document, Sound
  <2>2. e.pages = d.pages /\ e.outline = f /\ e.form = d.form
    BY DEF Document, Sound
  <2> HIDE DEF e
  <2>3. NumPages(e) = N
    BY <2>2 DEF NumPages, N
  <2>4. Linked(e)
    BY <1>3, <1>4, <2>2, <2>3 DEF Linked
  <2>5. Sound(e)
    BY <1>6, <1>7, <2>1, <2>2, <2>4 DEF Sound
  <2>6. /\ Answered(Saved(e)) /\ (Saved(e) # Refused <=> N # 0)
        /\ Saved(e) # Refused => Saved(e).outline = f /\ Saved(e).pages = d.pages
    BY <2>2, <2>3, <2>5, SavedIs
  <2>7. \A i \in DOMAIN entries : ~(entries[i].page < N) => i = Len(entries)
    BY <1>2, <1>7
  <2>8. (\A i \in DOMAIN entries : entries[i].page \in 0..(N - 1)) => f = entries
    <3> SUFFICES ASSUME \A i \in DOMAIN entries : entries[i].page \in 0..(N - 1) PROVE f = entries
      OBVIOUS
    <3>1. \A i \in DOMAIN entries : f[i] = entries[i]
      BY <1>2, <1>3
    <3>2. entries = [i \in DOMAIN entries |-> entries[i]]
      BY <1>2
    <3>3. f = [i \in DOMAIN entries |-> f[i]]
      BY DEF f
    <3> QED
      BY <3>1, <3>2, <3>3
  <2> QED
    BY <1>1, <1>3, <1>7, <2>6, <2>7, <2>8 DEF N
<1>8. CASE ~Accepted
  <2>1. ~(/\ Readable(d) /\ Nested(entries) /\ \A i \in DOMAIN entries : entries[i].page \in 0..(N - 1))
    BY <1>2, <1>8
  <2> QED
    BY <1>1, <1>8, <2>1, RefusedIsSound DEF Answered, N
<1> QED
  BY <1>7, <1>8

LEMMA BuildAnswers ==
  ASSUME NEW s, NEW t, SourceFits(s), SourceFits(t), NEW annots, NEW flatten, NEW entries \in Seq(Asked)
  PROVE  Answered(BuildPdf(<<s, t>>, annots, flatten, entries))
<1> DEFINE merged == MergePdfs(<<s, t>>)
           burned == IF flatten /\ annots # {} THEN FlattenAnnotations(merged, annots) ELSE merged
<1>1. BuildPdf(<<s, t>>, annots, flatten, entries) =
        IF merged = Refused THEN Refused
        ELSE IF entries # <<>> THEN AddBookmarks(burned, entries) ELSE burned
  BY DEF BuildPdf
<1>2. Answered(merged)
  BY MergeAnswers
<1> HIDE DEF merged
<1>3. Answered(burned)
  BY <1>2, FlattenAnswers DEF Answered
<1> HIDE DEF burned
<1>4. Answered(AddBookmarks(burned, entries))
  BY <1>3, BookmarksAre DEF Answered
<1> QED
  BY <1>1, <1>3, <1>4, RefusedIsSound DEF Answered

\* A lock changes nothing else.
LEMMA EncryptAnswers ==
  ASSUME NEW d, Sound(d), NumPages(d) # 0, NEW user
  PROVE  Answered(EncryptPdf(d, user))
<1> DEFINE e == [d EXCEPT !.lock = IF user THEN "user" ELSE "owner"]
<1>1. e \in Document /\ e.pages = d.pages /\ e.outline = d.outline /\ e.form = d.form
  BY DEF Document, Sound, Locks
<1>2. EncryptPdf(d, user) \in {e, Refused}
  BY DEF EncryptPdf
<1> HIDE DEF e
<1>3. Answered(e)
  BY <1>1 DEF Answered, Sound, Linked, NumPages
<1> QED
  BY <1>2, <1>3, RefusedIsSound DEF Answered

LEMMA UnlockAnswers ==
  ASSUME NEW d, Sound(d), NEW password
  PROVE  /\ Answered(DecryptPdf(d, password))
         /\ \A attested, without, mayCopy :
              Answered(AuthorizeAndUnlock(d, attested, password, without, mayCopy))
BY SavedIs, RefusedIsSound DEF DecryptPdf, AuthorizeAndUnlock, Answered

\* A filled widget is the same widget with another value.
LEMMA FillIs ==
  ASSUME NEW w \in Widget, NEW values, \A name \in DOMAIN values : values[name] \in Words
  PROVE  LET v == FillWidget(w, values) IN
         /\ v \in Widget /\ v.name = w.name /\ v.kind = w.kind /\ v.on = w.on /\ v.locked = w.locked
         /\ v.value = IF w.name \notin DOMAIN values \/ w.locked THEN w.value
                      ELSE CASE w.kind = "checkbox" -> IF IsChecked(values[w.name]) THEN w.on ELSE "Off"
                             [] w.kind = "radio" -> IF w.on = values[w.name] THEN w.on ELSE "Off"
                             [] OTHER -> values[w.name]
<1> DEFINE value == CASE w.kind = "checkbox" -> IF IsChecked(values[w.name]) THEN w.on ELSE "Off"
                      [] w.kind = "radio" -> IF w.on = values[w.name] THEN w.on ELSE "Off"
                      [] OTHER -> values[w.name]
<1>1. CASE w.name \notin DOMAIN values \/ w.locked
  BY <1>1 DEF FillWidget
<1>2. CASE ~(w.name \notin DOMAIN values \/ w.locked)
  <2>1. value \in Words
    <3>a. w.on \in Words
      BY DEF Widget
    <3>b. "Off" \in Words
      BY DEF Words
    <3>1. w.on \in Words /\ "Off" \in Words /\ values[w.name] \in Words
      BY <1>2, <3>a, <3>b
    <3>2. CASE w.kind = "checkbox"
      BY <3>1, <3>2
    <3>3. CASE w.kind = "radio"
      BY <3>1, <3>3
    <3>4. CASE w.kind \notin {"checkbox", "radio"}
      <4>1. value = values[w.name]
        BY <3>4
      <4> QED
        BY <3>1, <4>1
    <3> QED
      BY <3>2, <3>3, <3>4
  <2>2. FillWidget(w, values) = [w EXCEPT !.value = value]
    BY <1>2 DEF FillWidget
  <2> HIDE DEF value
  <2>3. LET v == [w EXCEPT !.value = value] IN
        /\ v \in Widget /\ v.name = w.name /\ v.kind = w.kind /\ v.on = w.on /\ v.locked = w.locked
        /\ v.value = value
    BY <2>1 DEF Widget
  <2> QED
    BY <1>2, <2>2, <2>3 DEF value
<1> QED
  BY <1>1, <1>2

LEMMA FormIs ==
  ASSUME NEW d, Sound(d), NEW values, \A name \in DOMAIN values : values[name] \in Words, NEW flatten
  PROVE  LET e == FillForm(d, values, flatten) IN
         /\ Answered(e)
         /\ e # Refused /\ flatten => e.form = <<>>
         /\ e # Refused /\ ~flatten =>
              /\ DOMAIN e.form = DOMAIN d.form
              /\ \A i \in DOMAIN d.form : e.form[i] = FillWidget(d.form[i], values)
<1> DEFINE filled == [i \in DOMAIN d.form |-> FillWidget(d.form[i], values)]
           f == IF flatten THEN <<>> ELSE filled
           e == [d EXCEPT !.form = f]
<1>1. d \in Document /\ d.form \in Seq(Widget)
  BY DocumentIs DEF Sound
<1>2. \A i \in DOMAIN d.form : d.form[i] \in Widget
  BY <1>1, SeqIs
<1>3. \A i \in DOMAIN d.form :
        /\ filled[i] \in Widget /\ filled[i].name = d.form[i].name /\ filled[i].kind = d.form[i].kind
        /\ filled[i].on = d.form[i].on /\ filled[i].locked = d.form[i].locked
  BY <1>2, FillIs
<1>4. DOMAIN filled = DOMAIN d.form
  OBVIOUS
<1>5. filled \in [1..Len(d.form) -> Widget] /\ Len(d.form) \in Nat
  BY <1>1, <1>3, SeqIs
<1>6. FillForm(d, values, flatten) = IF Readable(d) THEN Saved(e) ELSE Refused
  BY DEF FillForm
<1>7. \A i \in DOMAIN d.form : filled[i] = FillWidget(d.form[i], values)
  OBVIOUS
<1> HIDE DEF filled
<1>8. filled \in Seq(Widget) /\ <<>> \in Seq(Widget)
  BY <1>5, MapSeq
<1>9. OneField(filled) /\ OneField(<<>>)
  BY <1>3, <1>4 DEF Sound, OneField
<1>10. f \in Seq(Widget) /\ OneField(f)
  BY <1>8, <1>9
<1>11. (flatten => f = <<>>) /\ (~flatten => f = filled)
  OBVIOUS
<1> HIDE DEF f
<1>12. e \in Document /\ e.pages = d.pages /\ e.outline = d.outline /\ e.form = f
  BY <1>1, <1>10 DEF Document
<1> HIDE DEF e
<1>13. Sound(e)
  BY <1>10, <1>12 DEF Sound, Linked, NumPages
<1>14. Answered(Saved(e)) /\ (Saved(e) # Refused => Saved(e).form = f)
  BY <1>12, <1>13, SavedIs
<1> QED
  BY <1>4, <1>6, <1>7, <1>11, <1>14, RefusedIsSound DEF Answered

-----------------------------------------------------------------------------
(* Least, greatest and k-th *)

\* A set of numbers that is not empty has a least one.
LEMMA LeastExists ==
  ASSUME NEW I \in SUBSET Nat, I # {}
  PROVE  \E m \in I : \A n \in I : m <= n
<1> DEFINE Below == {s \in Nat \X Nat : s[1] < s[2]}
<1>1. IsWellFoundedOn(Below, Nat)
  BY NatLessThanWellFounded DEF OpToRel
<1>2. \E m \in I : \A n \in I : <<n, m>> \notin Below
  <2> HIDE DEF Below
  <2> QED
    BY <1>1, WFMin
<1>3. PICK m \in I : \A n \in I : <<n, m>> \notin Below
  BY <1>2
<1>4. ASSUME NEW n \in I, n < m
      PROVE  <<n, m>> \in Below
  <2>1. n \in Nat /\ m \in Nat
    OBVIOUS
  <2>2. <<n, m>> \in Nat \X Nat /\ <<n, m>>[1] = n /\ <<n, m>>[2] = m
    BY <2>1
  <2> QED
    BY <1>4, <2>2
<1>5. \A n \in I : ~(n < m)
  <2> HIDE DEF Below
  <2> QED
    BY <1>3, <1>4
<1>6. \A n \in I : n \in Nat /\ m \in Nat
  OBVIOUS
<1> QED
  BY <1>5, <1>6

LEMMA GreatestExists ==
  ASSUME NEW k \in Nat, NEW I \in SUBSET (0..k), I # {}
  PROVE  \E m \in I : \A n \in I : n <= m
<1> DEFINE J == {k - i : i \in I}
<1>0. J \in SUBSET Nat /\ J # {}
  <2>1. \A i \in I : i \in 0..k
    OBVIOUS
  <2>2. \A i \in I : k - i \in Nat
    BY <2>1
  <2> QED
    BY <2>2
<1>1. PICK m \in J : \A n \in J : m <= n
  <2> HIDE DEF J
  <2> QED
    BY <1>0, LeastExists
<1>2. k - m \in I /\ \A n \in I : m <= k - n
  BY <1>1
<1> QED
  BY <1>2

\* A set of numbers up to k that holds 0 and, with a number, the next one, holds them all.
LEMMA UpTo ==
  ASSUME NEW k \in Nat, NEW I, 0 \in I, \A n \in 0..k : n < k /\ n \in I => n + 1 \in I
  PROVE  \A n \in 0..k : n \in I
<1> DEFINE Out == {n \in 0..k : n \notin I}
<1> SUFFICES ASSUME Out # {} PROVE FALSE
  OBVIOUS
<1>0. Out \in SUBSET Nat
  OBVIOUS
<1>1. PICK m \in Out : \A n \in Out : m <= n
  <2> HIDE DEF Out
  <2> QED
    BY <1>0, LeastExists
<1>2. m \in 0..k /\ m # 0 /\ m \notin I
  OBVIOUS
<1>3. m - 1 \in 0..k /\ m - 1 < k /\ m - 1 \notin Out
  BY <1>1, <1>2
<1> QED
  BY <1>2, <1>3


LEMMA PlacesAre ==
  ASSUME NEW n \in Nat
  PROVE  IsFiniteSet(1..n) /\ Cardinality(1..n) = n
<1>1. 1 <= n => Cardinality(1..n) = n - 1 + 1
  BY FS_Interval
<1>2. ~(1 <= n) => 1..n = {} /\ n = 0
  OBVIOUS
<1> QED
  BY <1>1, <1>2, FS_Interval, FS_EmptySet

\* Where a function is above a number, and where it is at least one.
Above(f, p) == {i \in DOMAIN f : f[i] > p}
AtLeast(f, p) == {i \in DOMAIN f : f[i] >= p}

\* The value a list of numbers has at place k, counted from the greatest.
LEMMA RankExists ==
  ASSUME NEW N \in Nat, NEW V \in SUBSET (0..N), NEW K, IsFiniteSet(K),
         NEW f \in [K -> V], \A v \in V : \E i \in K : f[i] = v, NEW k \in 1..Cardinality(K)
  PROVE  \E p \in V : Cardinality(Above(f, p)) < k /\ k <= Cardinality(AtLeast(f, p))
<1> DEFINE above(p) == Above(f, p)
           G == {p \in V : Cardinality(above(p)) < k}
<1>0. Cardinality(K) \in Nat /\ k \in Nat /\ k > 0 /\ DOMAIN f = K
      /\ \A i \in K : f[i] \in V /\ f[i] \in Nat
  <2>1. Cardinality(K) \in Nat
    BY FS_CardinalityType
  <2>2. k \in Nat /\ k > 0
    BY <2>1
  <2>3. DOMAIN f = K /\ \A i \in K : f[i] \in V
    OBVIOUS
  <2>4. \A v \in V : v \in Nat
    OBVIOUS
  <2> QED
    BY <2>1, <2>2, <2>3, <2>4
<1>1. \A p : IsFiniteSet(above(p)) /\ Cardinality(above(p)) \in Nat
  <2>1. \A p : above(p) \subseteq K
    BY <1>0 DEF Above
  <2> QED
    BY <2>1, FS_Subset, FS_CardinalityType
<1>2. V # {}
  <2>1. K # {}
    BY <1>0, FS_EmptySet
  <2> QED
    BY <1>0, <2>1
<1>3. G # {} /\ G \in SUBSET Nat
  <2>1. PICK m \in V : \A v \in V : v <= m
    BY <1>2, GreatestExists
  <2>2. above(m) = {}
    BY <1>0, <2>1 DEF Above
  <2>3. Cardinality(above(m)) = 0
    BY <2>2, FS_EmptySet
  <2> QED
    BY <1>0, <2>3
<1>4. PICK p \in G : \A v \in G : p <= v
  <2> HIDE DEF G
  <2> QED
    BY <1>3, LeastExists
<1>5. p \in V /\ Cardinality(above(p)) < k /\ p \in Nat
  OBVIOUS
<1>6. k <= Cardinality(AtLeast(f, p))
  <2> DEFINE lower == {v \in V : v < p}
  <2>1. CASE lower = {}
    <3>1. \A i \in K : f[i] >= p
      BY <1>0, <1>5, <2>1
    <3>2. AtLeast(f, p) = K
      BY <1>0, <3>1 DEF AtLeast
    <3> QED
      BY <1>0, <3>2
  <2>2. CASE lower # {}
    <3>1. PICK q \in lower : \A v \in lower : v <= q
      <4>1. lower \in SUBSET (0..N)
        OBVIOUS
      <4> HIDE DEF lower
      <4> QED
        BY <2>2, <4>1, GreatestExists
    <3>2. q \in V /\ q < p /\ q \in Nat /\ \A v \in V : v < p => v <= q
      BY <3>1
    <3>3. q \notin G
      BY <1>4, <1>5, <3>2
    <3>4. ~(Cardinality(above(q)) < k)
      BY <3>2, <3>3
    <3>5. \A i \in K : f[i] > q <=> f[i] >= p
      BY <1>0, <1>5, <3>2
    <3>6. above(q) = AtLeast(f, p)
      BY <1>0, <3>5 DEF Above, AtLeast
    <3> QED
      BY <1>0, <1>1, <3>4, <3>6
  <2> QED
    BY <2>1, <2>2
<1> QED
  BY <1>5, <1>6

\* How many numbers of a set are less than i.
Less(I, i) == {j \in I : j < i}

LEMMA LessIs ==
  ASSUME NEW N \in Nat, NEW I \in SUBSET (1..N)
  PROVE  /\ IsFiniteSet(I) /\ Cardinality(I) \in Nat
         /\ \A i : IsFiniteSet(Less(I, i)) /\ Cardinality(Less(I, i)) \in Nat
         /\ \A i, j \in I : i < j => Cardinality(Less(I, i)) + 1 <= Cardinality(Less(I, j))
<1>0. IsFiniteSet(1..N) /\ \A i \in I : i \in 1..N
  BY FS_Interval
<1>1. IsFiniteSet(I) /\ Cardinality(I) \in Nat
  BY <1>0, FS_Subset, FS_CardinalityType
<1>2. \A i : IsFiniteSet(Less(I, i)) /\ Cardinality(Less(I, i)) \in Nat
  BY <1>1, FS_Subset, FS_CardinalityType DEF Less
<1>3. ASSUME NEW i \in I, NEW j \in I, i < j
      PROVE  Cardinality(Less(I, i)) + 1 <= Cardinality(Less(I, j))
  <2>0. \A x \in I : x \in Nat /\ (x < i => x < j) /\ ~(i < i)
    BY <1>0, <1>3
  <2>1. Less(I, i) \cup {i} \subseteq Less(I, j) /\ i \notin Less(I, i)
    BY <1>3, <2>0 DEF Less
  <2>2. Cardinality(Less(I, i) \cup {i}) = Cardinality(Less(I, i)) + 1
    BY <1>2, <2>1, FS_AddElement
  <2>3. Cardinality(Less(I, i) \cup {i}) <= Cardinality(Less(I, j))
    BY <1>2, <2>1, FS_Subset
  <2> QED
    BY <2>2, <2>3
<1> QED
  BY <1>1, <1>2, <1>3

\* The k-th of a set of numbers.
Kth(I, k) == CHOOSE i \in I : Cardinality(Less(I, i)) = k - 1

LEMMA KthIs ==
  ASSUME NEW N \in Nat, NEW I \in SUBSET (1..N), NEW k \in 1..Cardinality(I)
  PROVE  Kth(I, k) \in I /\ Cardinality(Less(I, Kth(I, k))) = k - 1
<1> DEFINE f == [i \in I |-> N - i]
           V == {N - i : i \in I}
<1>0. IsFiniteSet(I) /\ \A i \in I : i \in 1..N
  BY LessIs
<1>1. V \in SUBSET (0..N) /\ f \in [I -> V] /\ \A v \in V : \E i \in I : f[i] = v
  BY <1>0
<1>2. \E p \in V : Cardinality(Above(f, p)) < k /\ k <= Cardinality(AtLeast(f, p))
  <2> HIDE DEF f, V
  <2> QED
    BY <1>0, <1>1, RankExists
<1>3. PICK m \in I : Cardinality(Above(f, N - m)) < k /\ k <= Cardinality(AtLeast(f, N - m))
  BY <1>2
<1>4. Above(f, N - m) = Less(I, m) /\ AtLeast(f, N - m) = Less(I, m) \cup {m}
  <2>1. \A i \in I : (N - i > N - m <=> i < m) /\ (N - i >= N - m <=> i < m \/ i = m)
    BY <1>0
  <2> QED
    BY <2>1 DEF Above, AtLeast, Less
<1>5. Cardinality(Less(I, m) \cup {m}) = Cardinality(Less(I, m)) + 1 /\ Cardinality(Less(I, m)) \in Nat
  <2>1. m \notin Less(I, m)
    BY <1>0 DEF Less
  <2>2. IsFiniteSet(Less(I, m)) /\ Cardinality(Less(I, m)) \in Nat
    BY LessIs
  <2> QED
    BY <2>1, <2>2, FS_AddElement
<1>6. Cardinality(Less(I, m)) = k - 1
  <2>1. Cardinality(Less(I, m)) < k /\ k <= Cardinality(Less(I, m)) + 1 /\ k \in Int
    BY <1>3, <1>4, <1>5
  <2> QED
    BY <1>5, <2>1
<1> QED
  BY <1>6 DEF Kth

LEMMA KthIsOnly ==
  ASSUME NEW N \in Nat, NEW I \in SUBSET (1..N), NEW i \in I
  PROVE  Kth(I, Cardinality(Less(I, i)) + 1) = i
<1> DEFINE c == Cardinality(Less(I, i))
           m == Kth(I, c + 1)
<1>1. c \in Nat
  BY LessIs
<1>2. m \in I /\ Cardinality(Less(I, m)) = c
  <2>1. \E n \in I : Cardinality(Less(I, n)) = (c + 1) - 1
    BY <1>1
  <2> HIDE DEF c
  <2>2. m \in I /\ Cardinality(Less(I, m)) = (c + 1) - 1
    BY <2>1 DEF Kth
  <2> QED
    BY <1>1, <2>2
<1> HIDE DEF m
<1>3. ~(m < i) /\ ~(i < m)
  BY <1>1, <1>2, LessIs
<1>4. m \in Int /\ i \in Int
  BY <1>2
<1>5. m = i
  BY <1>3, <1>4
<1> QED
  BY <1>5 DEF m

-----------------------------------------------------------------------------
(* The loop of delete_pages(). *)

LEMMA RemoveAtIs ==
  ASSUME NEW S, NEW s \in Seq(S), NEW i \in 1..Len(s)
  PROVE  /\ RemoveAt(s, i) \in Seq(S) /\ Len(RemoveAt(s, i)) = Len(s) - 1
         /\ \A k \in 1..(Len(s) - 1) : RemoveAt(s, i)[k] = IF k < i THEN s[k] ELSE s[k + 1]
<1> DEFINE a == SubSeq(s, 1, i - 1)
           b == SubSeq(s, i + 1, Len(s))
<1>1. Len(s) \in Nat /\ i \in Nat
  BY LenProperties
<1>2. /\ a \in Seq(S) /\ Len(a) = i - 1
      /\ \A k \in 1..(i - 1) : a[k] = s[k]
  <2>1. \A k \in 1..(i - 1) : s[k] \in S
    BY <1>1, ElementOfSeq
  <2> QED
    BY <1>1, <2>1, SubSeqProperties
<1>3. /\ b \in Seq(S) /\ Len(b) = Len(s) - i
      /\ \A k \in 1..(Len(s) - i) : b[k] = s[k + i]
  <2>1. \A k \in (i + 1)..Len(s) : s[k] \in S
    BY <1>1, ElementOfSeq
  <2>2. /\ b \in Seq(S) /\ Len(b) = IF i + 1 <= Len(s) THEN Len(s) - (i + 1) + 1 ELSE 0
        /\ \A k \in 1..(Len(s) - (i + 1) + 1) : b[k] = s[(i + 1) + k - 1]
    BY <1>1, <2>1, SubSeqProperties
  <2> QED
    BY <1>1, <2>2
<1> HIDE DEF a, b
<1>4. /\ a \o b \in Seq(S) /\ Len(a \o b) = Len(s) - 1
      /\ \A k \in 1..(Len(s) - 1) : (a \o b)[k] = IF k <= i - 1 THEN a[k] ELSE b[k - (i - 1)]
  <2>1. /\ a \o b \in Seq(S) /\ Len(a \o b) = Len(a) + Len(b)
        /\ \A k \in 1..(Len(a) + Len(b)) : (a \o b)[k] = IF k <= Len(a) THEN a[k] ELSE b[k - Len(a)]
    BY <1>2, <1>3, ConcatProperties
  <2>2. Len(a) = i - 1 /\ Len(a) + Len(b) = Len(s) - 1
    BY <1>1, <1>2, <1>3
  <2> QED
    BY <2>1, <2>2
<1>5. \A k \in 1..(Len(s) - 1) : (a \o b)[k] = IF k < i THEN s[k] ELSE s[k + 1]
  BY <1>1, <1>2, <1>3, <1>4
<1> QED
  BY <1>4, <1>5 DEF RemoveAt, a, b

\* The numbers of a page list, from the greatest down.
LEMMA DescendingIs ==
  ASSUME NEW N \in Nat, NEW ps \in Seq(Int), \A i \in DOMAIN ps : ps[i] \in 0..N
  PROVE  \A k \in 1..Len(ps) :
           /\ Descending(ps)[k] \in ToSet(ps) /\ Descending(ps)[k] \in 0..N
           /\ Cardinality(Above(ps, Descending(ps)[k])) < k
           /\ k <= Cardinality(AtLeast(ps, Descending(ps)[k]))
<1> DEFINE K == 1..Len(ps)
           V == ToSet(ps)
<1>1. Len(ps) \in Nat /\ DOMAIN ps = K /\ IsFiniteSet(K) /\ Cardinality(K) = Len(ps)
  <2>1. Len(ps) \in Nat /\ DOMAIN ps = K
    BY SeqIs
  <2>2. IsFiniteSet(1..Len(ps)) /\ Cardinality(1..Len(ps)) = Len(ps)
    BY <2>1, PlacesAre
  <2> QED
    BY <2>1, <2>2
<1>2. V \in SUBSET (0..N) /\ ps \in [K -> V] /\ \A v \in V : \E i \in K : ps[i] = v
  <2>1. V = {ps[i] : i \in K}
    BY <1>1 DEF ToSet
  <2>2. ps = [i \in K |-> ps[i]]
    BY SeqIs
  <2> QED
    BY <1>1, <2>1, <2>2
<1>3. \A k \in 1..Len(ps) : \E p \in V :
        Cardinality(Above(ps, p)) < k /\ k <= Cardinality(AtLeast(ps, p))
  <2> HIDE DEF K, V
  <2> QED
    BY <1>1, <1>2, RankExists DEF K
<1>4. ASSUME NEW k \in 1..Len(ps)
      PROVE  /\ Descending(ps)[k] \in V
             /\ Cardinality(Above(ps, Descending(ps)[k])) < k
             /\ k <= Cardinality(AtLeast(ps, Descending(ps)[k]))
  <2> HIDE DEF V
  <2>1. Descending(ps)[k] = CHOOSE p \in V :
          Cardinality(Above(ps, p)) < k /\ k <= Cardinality(AtLeast(ps, p))
    BY DEF Descending, Above, AtLeast, V
  <2> QED
    BY <1>3, <2>1
<1> QED
  BY <1>2, <1>4

\* Taking out a page keeps a document sound.
LEMMA DeletePageIs ==
  ASSUME NEW d, Sound(d), NEW p \in Nat
  PROVE  /\ Sound(DeletePage(d, p))
         /\ p < NumPages(d) => DeletePage(d, p).pages = RemoveAt(d.pages, p + 1)
<1> DEFINE pages == RemoveAt(d.pages, p + 1)
           outline == [i \in DOMAIN d.outline |-> Followed(d.outline[i], p)]
           e == [d EXCEPT !.pages = pages, !.outline = outline]
           N == NumPages(d)
<1>1. /\ d \in Document /\ d.pages \in Seq(Page) /\ d.outline \in Seq(Entry) /\ N \in Nat /\ Len(d.pages) = N
      /\ Linked(d) /\ Nested(d.outline) /\ OneField(d.form)
  BY DocumentIs DEF Sound, NumPages
<1>2. CASE p >= N
  BY <1>2, RefusedIsSound, <1>1 DEF DeletePage
<1>3. CASE ~(p >= N)
  <2>1. DeletePage(d, p) = e
    BY <1>3 DEF DeletePage
  <2>2. pages \in Seq(Page) /\ Len(pages) = N - 1
    <3>1. p + 1 \in 1..Len(d.pages)
      BY <1>1, <1>3
    <3> QED
      BY <1>1, <3>1, RemoveAtIs
  <2>3. \A i \in DOMAIN d.outline :
          /\ d.outline[i].page \in {Nowhere} \cup 0..(N - 1) /\ d.outline[i] \in Entry
          /\ d.outline[i].page \in Int
    <3>1. \A i \in DOMAIN d.outline : d.outline[i] \in Entry
      BY <1>1, SeqIs
    <3>2. \A i \in DOMAIN d.outline : d.outline[i].page \in {Nowhere} \cup 0..(N - 1)
      BY <1>1 DEF Linked
    <3>3. \A x \in Entry : x.page \in Int
      BY DEF Entry
    <3> QED
      BY <3>1, <3>2, <3>3
  <2>4. \A i \in DOMAIN d.outline :
          LET was == d.outline[i].page
              now == IF was = p THEN Nowhere ELSE IF was > p THEN was - 1 ELSE was IN
          now \in Int /\ now \in {Nowhere} \cup 0..((N - 1) - 1)
    BY <1>1, <1>3, <2>3 DEF Nowhere
  <2>5. \A i \in DOMAIN d.outline :
          /\ Followed(d.outline[i], p) \in Entry
          /\ Followed(d.outline[i], p).level = d.outline[i].level
          /\ Followed(d.outline[i], p).page \in {Nowhere} \cup 0..((N - 1) - 1)
    BY <2>3, <2>4 DEF Followed, Entry
  <2>6. DOMAIN outline = DOMAIN d.outline /\ DOMAIN d.outline = 1..Len(d.outline) /\ Len(d.outline) \in Nat
    BY <1>1, SeqIs
  <2>7. \A i \in DOMAIN d.outline :
          /\ outline[i] \in Entry /\ outline[i].level = d.outline[i].level
          /\ outline[i].page \in {Nowhere} \cup 0..((N - 1) - 1)
    BY <2>5
  <2>8. outline \in Seq(Entry)
    <3>1. outline \in [1..Len(d.outline) -> Entry]
      BY <2>6, <2>7
    <3> HIDE DEF outline
    <3> QED
      BY <2>6, <3>1, MapSeq
  <2> HIDE DEF outline, pages
  <2>9. e \in Document /\ e.pages = pages /\ e.outline = outline /\ e.form = d.form
    BY <1>1, <2>2, <2>8 DEF Document
  <2> HIDE DEF e
  <2>10. Linked(e)
    BY <2>2, <2>6, <2>7, <2>9 DEF Linked, NumPages
  <2>11. Nested(outline)
    <3> SUFFICES ASSUME NEW i \in DOMAIN d.outline
                 PROVE  outline[i].level <= (IF i = 1 THEN 1 ELSE outline[i - 1].level + 1)
      BY <2>6 DEF Nested
    <3>1. d.outline[i].level <= (IF i = 1 THEN 1 ELSE d.outline[i - 1].level + 1)
      BY <1>1 DEF Nested
    <3>2. i # 1 => i - 1 \in DOMAIN d.outline
      BY <2>6
    <3> QED
      BY <2>7, <3>1, <3>2
  <2>12. Sound(e)
    BY <1>1, <2>9, <2>10, <2>11 DEF Sound
  <2> QED
    BY <2>1, <2>9, <2>12 DEF pages
<1> QED
  BY <1>2, <1>3

\* The document after each turn of the loop.
LEMMA DeleteRuns ==
  ASSUME NEW d, Sound(d), NEW ps \in Seq(Int), ValidPages(d, ps)
  PROVE  \E f : /\ f[0] = d
                /\ \A n \in 1..Len(ps) : f[n] = DeletePage(f[n - 1], Descending(ps)[n])
                /\ \A n \in 0..Len(ps) : Sound(f[n])
                /\ DeletePages(d, ps) = Saved(f[Len(ps)])
<1> DEFINE k == Len(ps)
           Turn(g, n) == IF n = 0 THEN d ELSE DeletePage(g[n - 1], Descending(ps)[n])
           Runs(m, g) == g = [n \in 0..m |-> Turn(g, n)]
           I == {m \in 0..k : \E g : Runs(m, g)}
<1>1. k \in Nat
  BY SeqIs
<1>2. \A n \in 1..k : Descending(ps)[n] \in Nat
  <2>1. NumPages(d) \in Nat /\ \A i \in DOMAIN ps : ps[i] \in 0..(NumPages(d) - 1)
    BY ValidIs
  <2>2. \A i \in DOMAIN ps : ps[i] \in 0..NumPages(d)
    BY <2>1
  <2>3. \A n \in 1..k : Descending(ps)[n] \in 0..NumPages(d)
    BY <2>1, <2>2, DescendingIs
  <2> QED
    BY <2>1, <2>3
<1>3. 0 \in I
  <2> DEFINE g == [n \in 0..0 |-> d]
  <2>1. \A n \in 0..0 : n = 0 /\ g[n] = d /\ Turn(g, n) = d
    OBVIOUS
  <2>2. g = [n \in 0..0 |-> Turn(g, n)]
    BY <2>1
  <2>3. Runs(0, g)
    BY <2>1, <2>2
  <2> HIDE DEF Runs
  <2> QED
    BY <1>1, <2>3
<1>4. ASSUME NEW m \in 0..k, m < k, m \in I
      PROVE  m + 1 \in I
  <2>1. PICK h : Runs(m, h)
    BY <1>4
  <2>2. m + 1 \in 1..k /\ m \in 0..m /\ m \in Nat
    BY <1>1, <1>4
  <2>3. \A n \in 0..m : h[n] = Turn(h, n)
    BY <2>1
  <2> DEFINE e == DeletePage(h[m], Descending(ps)[m + 1])
             g == [n \in 0..(m + 1) |-> IF n = m + 1 THEN e ELSE h[n]]
  <2>4. \A n \in 0..(m + 1) : g[n] = Turn(g, n)
    <3> SUFFICES ASSUME NEW n \in 0..(m + 1) PROVE g[n] = Turn(g, n)
      OBVIOUS
    <3>1. CASE n = m + 1
      <4>1. g[n] = e /\ n - 1 = m /\ g[m] = h[m] /\ n # 0
        BY <2>2, <3>1
      <4>2. Turn(g, n) = DeletePage(g[m], Descending(ps)[m + 1])
        BY <3>1, <4>1
      <4> HIDE DEF Turn, g
      <4> QED
        BY <4>1, <4>2
    <3>2. CASE n # m + 1
      <4>1. n \in 0..m /\ (n # 0 => n - 1 \in 0..(m + 1) /\ n - 1 # m + 1)
        BY <2>2, <3>2
      <4>2. g[n] = h[n] /\ (n # 0 => g[n - 1] = h[n - 1])
        BY <3>2, <4>1
      <4> HIDE DEF g
      <4>3. Turn(g, n) = Turn(h, n)
        BY <4>2
      <4> HIDE DEF Turn
      <4> QED
        BY <2>3, <4>1, <4>2, <4>3
    <3> QED
      BY <3>1, <3>2
  <2>5. Runs(m + 1, g)
    <3>1. g = [n \in 0..(m + 1) |-> g[n]]
      OBVIOUS
    <3> HIDE DEF g, Turn
    <3> QED
      BY <2>4, <3>1
  <2> HIDE DEF Runs, g
  <2> QED
    BY <1>4, <2>2, <2>5
<1>5. \A m \in 0..k : m \in I
  <2> HIDE DEF I
  <2>1. \A m \in 0..k : m < k /\ m \in I => m + 1 \in I
    BY <1>4
  <2> QED
    BY <1>1, <1>3, <2>1, UpTo
<1>6. PICK f : Runs(k, f)
  <2>1. k \in I
    BY <1>1, <1>5
  <2> HIDE DEF Runs
  <2> QED
    BY <2>1
<1> DEFINE Def(left) == left = [n \in 0..k |-> Turn(left, n)]
           left == CHOOSE left : Def(left)
<1>7. DeletePages(d, ps) = Saved(left[k])
  BY DEF DeletePages, k
<1>8. Def(left)
  <2>1. Def(f)
    BY <1>6
  <2> HIDE DEF Def
  <2> QED
    BY <2>1
<1> HIDE DEF left
<1>9. \A n \in 0..k : left[n] = Turn(left, n)
  BY <1>8
<1>10. left[0] = d /\ \A n \in 1..k : left[n] = DeletePage(left[n - 1], Descending(ps)[n])
  BY <1>1, <1>9
<1>11. \A n \in 0..k : Sound(left[n])
  <2> DEFINE J == {n \in 0..k : Sound(left[n])}
  <2>1. 0 \in J
    BY <1>1, <1>10
  <2>2. ASSUME NEW n \in 0..k, n < k, n \in J
        PROVE  n + 1 \in J
    <3>1. n + 1 \in 1..k /\ (n + 1) - 1 = n
      BY <1>1, <2>2
    <3>2. left[n + 1] = DeletePage(left[n], Descending(ps)[n + 1])
      BY <1>10, <3>1
    <3>3. Sound(left[n + 1])
      BY <1>2, <2>2, <3>1, <3>2, DeletePageIs
    <3> QED
      BY <3>1, <3>3
  <2>3. \A n \in 0..k : n \in J
    <3> HIDE DEF J
    <3> QED
      BY <1>1, <2>1, <2>2, UpTo
  <2> QED
    BY <2>3
<1> QED
  BY <1>7, <1>10, <1>11 DEF k

LEMMA DeleteAnswers ==
  ASSUME NEW d, Sound(d), NEW ps \in Seq(Int)
  PROVE  Answered(DeletePages(d, ps))
<1>1. CASE ValidPages(d, ps)
  <2>1. PICK f : (\A n \in 0..Len(ps) : Sound(f[n])) /\ DeletePages(d, ps) = Saved(f[Len(ps)])
    BY <1>1, DeleteRuns
  <2>2. Len(ps) \in 0..Len(ps)
    BY SeqIs
  <2> QED
    BY <2>1, <2>2, SavedIs
<1>2. CASE ~ValidPages(d, ps)
  BY <1>2, RefusedIsSound DEF DeletePages, Answered
<1> QED
  BY <1>1, <1>2

-----------------------------------------------------------------------------
(* The client's chain of requests *)

LEMMA Holding ==
  ASSUME IInv
  PROVE  Sound(doc) /\ NumPages(doc) # 0 /\ NumPages(doc) \in Nat /\ NumPages(doc) \in 1..MaxPages
<1>1. Sound(doc) /\ NumPages(doc) \in 1..MaxPages /\ MaxPages \in Nat
  BY RequestAssumption DEF IInv, TypeOK, Sound
<1> QED
  BY <1>1

\* A reply that carries a sound document, or none, keeps what the client holds sound.
LEMMA ReplyKeeps ==
  ASSUME IInv, NEW op, NEW with, NEW d, Answered(d), Reply(op, with, d)
  PROVE  IInv'
<1>1. /\ asked < MaxRequests /\ NumPages(d) <= MaxPages /\ asked' = asked + 1
      /\ answer'.ok = (d # Refused) /\ doc' = IF d = Refused THEN doc ELSE d
  BY DEF Reply
<1>2. MaxPages \in Nat /\ MaxRequests \in Nat /\ asked \in 0..MaxRequests
  BY RequestAssumption DEF IInv, TypeOK
<1>3. asked' \in 0..MaxRequests /\ answer'.ok \in BOOLEAN
  BY <1>1, <1>2
<1>4. CASE d = Refused
  <2>1. doc' = doc
    BY <1>1, <1>4
  <2> QED
    BY <1>3, <2>1 DEF IInv, TypeOK
<1>5. CASE d # Refused
  <2>1. doc' = d
    BY <1>1, <1>5
  <2>2. Sound(d) /\ NumPages(d) # 0 /\ NumPages(d) \in Nat
    BY <1>5, DocumentIs DEF Answered, Sound
  <2>3. NumPages(d) \in 1..MaxPages
    BY <1>1, <1>2, <2>2
  <2>4. /\ doc' \in Document /\ NumPages(doc') \in 1..MaxPages /\ Linked(doc')
        /\ Nested(doc'.outline) /\ OneField(doc'.form)
    BY <2>1, <2>2, <2>3 DEF Sound
  <2> QED
    BY <1>3, <2>4 DEF IInv, TypeOK
<1> QED
  BY <1>4, <1>5

\* What requests carry.
LEMMA EntriesAre == Entries \subseteq Seq(Asked)
<1>0. MaxPages \in Nat
  BY RequestAssumption
<1>1. \A l \in Int, p \in Nat : [level |-> l, page |-> p] \in Asked
  BY DEF Asked
<1>2. \A x, y \in Asked : <<x>> \in Seq(Asked) /\ <<x, y>> \in Seq(Asked)
  OBVIOUS
<1>3. <<>> \in Seq(Asked)
  OBVIOUS
<1>4. \A p \in {0, 1, MaxPages} : <<[level |-> 1, page |-> p]>> \in Seq(Asked)
  BY <1>0, <1>1, <1>2
<1>5. \A l \in {2, 3} : <<[level |-> 1, page |-> 1], [level |-> l, page |-> 0]>> \in Seq(Asked)
  BY <1>1, <1>2
<1>6. \A p \in {0, MaxPages} : <<[level |-> 1, page |-> p], [level |-> 2, page |-> MaxPages - p]>> \in Seq(Asked)
  <2>1. \A p \in {0, MaxPages} : p \in Nat /\ MaxPages - p \in Nat
    BY <1>0
  <2> QED
    BY <1>1, <1>2, <2>1
<1> QED
  BY <1>3, <1>4, <1>5, <1>6 DEF Entries

LEMMA WholeIs ==
  ASSUME NEW d, Sound(d)
  PROVE  [i \in DOMAIN d.pages |-> [page |-> i - 1, turn |-> 0]] \in Specs
<1> DEFINE f == [i \in DOMAIN d.pages |-> [page |-> i - 1, turn |-> 0]]
<1>1. DOMAIN d.pages = 1..NumPages(d) /\ NumPages(d) \in Nat
  BY DocumentIs DEF Sound
<1>2. f \in [1..NumPages(d) -> [page : Int, turn : Int]]
  BY <1>1
<1> HIDE DEF f
<1>3. f \in Specs
  BY <1>1, <1>2, MapSeq DEF Specs
<1> QED
  BY <1>3 DEF f

LEMMA SourcesFit ==
  ASSUME IInv, NEW s \in FirstSource, NEW t \in SecondSource
  PROVE  SourceFits(s) /\ SourceFits(t)
<1>0. Sound(doc) /\ MaxPages \in Nat /\ Quarters \subseteq 0..3
  BY Holding, RequestAssumption
<1>1. SourceFits(s)
  <2>1. /\ s.of = doc /\ s.ranges = <<>>
        /\ s.pages = <<>> \/ \E p \in {0, MaxPages}, q \in Quarters : s.pages = <<[page |-> p, turn |-> q]>>
    BY DEF FirstSource
  <2>2. CASE s.pages = <<>>
    <3>1. PageSpecs(s) = [i \in DOMAIN doc.pages |-> [page |-> i - 1, turn |-> 0]]
      BY <2>1, <2>2 DEF PageSpecs
    <3> QED
      BY <1>0, <2>1, <3>1, WholeIs DEF SourceFits
  <2>3. ASSUME NEW p \in {0, MaxPages}, NEW q \in Quarters, s.pages = <<[page |-> p, turn |-> q]>>
        PROVE  SourceFits(s)
    <3>1. [page |-> p, turn |-> q] \in [page : Int, turn : Int]
      BY <1>0
    <3>2. s.pages \in Specs /\ s.pages # <<>>
      BY <2>3, <3>1 DEF Specs
    <3>3. PageSpecs(s) = s.pages
      BY <3>2 DEF PageSpecs
    <3> QED
      BY <1>0, <2>1, <3>2, <3>3 DEF SourceFits
  <2> QED
    BY <2>1, <2>2, <2>3
<1>2. SourceFits(t)
  <2>1. /\ t.of \in Stored /\ t.pages = <<>> /\ t.turns \in {<<>>} \cup [{0} -> {1}]
        /\ t.ranges \in {<<>>, <<[start |-> 0, end |-> 1]>>, <<[start |-> 1, end |-> 0]>>}
    BY DEF SecondSource
  <2>2. Sound(t.of)
    BY <2>1, StoredAssumption DEF Sound
  <2>3. CASE t.ranges = <<>>
    <3>1. PageSpecs(t) = [i \in DOMAIN t.of.pages |-> [page |-> i - 1, turn |-> 0]]
      BY <2>1, <2>3 DEF PageSpecs
    <3> QED
      BY <2>2, <3>1, WholeIs DEF SourceFits
  <2>4. CASE t.ranges # <<>>
    <3> DEFINE ps == Expand(t.ranges)
               turn(p) == IF p \in DOMAIN t.turns THEN t.turns[p] ELSE 0
               f == [i \in DOMAIN ps |-> [page |-> ps[i], turn |-> turn(ps[i])]]
    <3>1. PageSpecs(t) = f
      BY <2>1, <2>4 DEF PageSpecs
    <3>2. t.ranges \in Seq([start : Int, end : Int]) /\ Len(t.ranges) <= 1
      <4>1. [start |-> 0, end |-> 1] \in [start : Int, end : Int]
            /\ [start |-> 1, end |-> 0] \in [start : Int, end : Int]
        OBVIOUS
      <4>2. \A r \in [start : Int, end : Int] : <<r>> \in Seq([start : Int, end : Int]) /\ Len(<<r>>) = 1
        OBVIOUS
      <4>3. t.ranges \in Seq([start : Int, end : Int]) /\ Len(t.ranges) = 1
        BY <2>1, <2>4, <4>1, <4>2
      <4> QED
        BY <4>3
    <3>3. ps \in Seq(Int)
      BY <3>2, ExpandIs
    <3>4. \A p : turn(p) \in Int
      <4>1. \A p \in DOMAIN t.turns : t.turns[p] = 1
        BY <2>1
      <4> QED
        BY <4>1
    <3> HIDE DEF ps, turn
    <3>5. Len(ps) \in Nat /\ DOMAIN ps = 1..Len(ps) /\ \A i \in 1..Len(ps) : ps[i] \in Int
      BY <3>3, SeqIs
    <3>6. f \in [1..Len(ps) -> [page : Int, turn : Int]]
      BY <3>4, <3>5
    <3> HIDE DEF f
    <3>7. f \in Specs
      BY <3>5, <3>6, MapSeq DEF Specs
    <3> QED
      BY <2>2, <3>1, <3>7 DEF SourceFits
  <2> QED
    BY <2>3, <2>4
<1> QED
  BY <1>1, <1>2

\* The outline that info answers fits the document.
LEMMA InfoOutlineIs ==
  ASSUME NEW d, Sound(d), NumPages(d) # 0
  PROVE  /\ InfoOutline(d) \in Seq(Asked) /\ DOMAIN InfoOutline(d) = DOMAIN d.outline
         /\ Nested(InfoOutline(d))
         /\ \A i \in DOMAIN d.outline :
              /\ InfoOutline(d)[i].page \in 0..(NumPages(d) - 1)
              /\ d.outline[i].page # Nowhere => InfoOutline(d)[i] = d.outline[i]
<1> DEFINE N == NumPages(d)
           shown(e) == [e EXCEPT !.page =
             LET numbered == IF @ = Nowhere THEN -1 ELSE @ + 1 IN IF numbered - 1 > 0 THEN numbered - 1 ELSE 0]
           f == InfoOutline(d)
<1>1. d.outline \in Seq(Entry) /\ N \in Nat /\ N # 0
  BY DocumentIs DEF Sound
<1>2. \A e \in Entry : e.page \in {Nowhere} \cup 0..(N - 1) =>
        /\ shown(e) \in Asked /\ shown(e).level = e.level
        /\ shown(e).page \in 0..(N - 1)
        /\ e.page # Nowhere => shown(e) = e
  <2> SUFFICES ASSUME NEW e \in Entry, e.page \in {Nowhere} \cup 0..(N - 1)
               PROVE  /\ shown(e) \in Asked /\ shown(e).level = e.level
                      /\ shown(e).page \in 0..(N - 1)
                      /\ e.page # Nowhere => shown(e) = e
    OBVIOUS
  <2> DEFINE page == IF e.page = Nowhere THEN 0 ELSE e.page
  <2>1. shown(e) = [e EXCEPT !.page = page]
    BY <1>1 DEF Nowhere
  <2>2. page \in 0..(N - 1) /\ page \in Nat
    BY <1>1 DEF Nowhere
  <2> HIDE DEF shown
  <2>3. e.page # Nowhere => page = e.page
    OBVIOUS
  <2> HIDE DEF page
  <2>4. e.page = page => [e EXCEPT !.page = page] = e
    BY DEF Entry
  <2>5. [e EXCEPT !.page = page] \in Asked /\ [e EXCEPT !.page = page].level = e.level
        /\ [e EXCEPT !.page = page].page = page
    BY <2>2 DEF Entry, Asked
  <2> QED
    BY <2>1, <2>2, <2>3, <2>4, <2>5
<1>3. f = [i \in DOMAIN d.outline |-> shown(d.outline[i])]
  BY DEF InfoOutline
<1> HIDE DEF shown, f
<1>4. \A i \in DOMAIN d.outline :
        d.outline[i] \in Entry /\ d.outline[i].page \in {Nowhere} \cup 0..(N - 1)
  <2>1. \A i \in DOMAIN d.outline : d.outline[i] \in Entry
    BY <1>1, SeqIs
  <2> QED
    BY <2>1 DEF Sound, Linked
<1>5. \A i \in DOMAIN d.outline :
        /\ f[i] \in Asked /\ f[i].level = d.outline[i].level /\ f[i].page \in 0..(N - 1)
        /\ d.outline[i].page # Nowhere => f[i] = d.outline[i]
  BY <1>2, <1>3, <1>4
<1>6. DOMAIN f = DOMAIN d.outline /\ DOMAIN d.outline = 1..Len(d.outline) /\ Len(d.outline) \in Nat
  BY <1>1, <1>3, SeqIs
<1>7. f \in Seq(Asked)
  <2>1. f \in [1..Len(d.outline) -> Asked]
    BY <1>3, <1>5, <1>6
  <2> QED
    BY <1>6, <2>1, MapSeq
<1>8. Nested(f)
  <2> SUFFICES ASSUME NEW i \in DOMAIN f
               PROVE  f[i].level <= (IF i = 1 THEN 1 ELSE f[i - 1].level + 1)
    BY DEF Nested
  <2>1. d.outline[i].level <= (IF i = 1 THEN 1 ELSE d.outline[i - 1].level + 1)
    BY <1>6 DEF Sound, Nested
  <2>2. i # 1 => i - 1 \in DOMAIN f
    BY <1>6
  <2> QED
    BY <1>5, <1>6, <2>1, <2>2
<1> QED
  BY <1>5, <1>6, <1>7, <1>8 DEF f

LEMMA InitHolds == Init => IInv
<1> SUFFICES ASSUME Init PROVE IInv
  OBVIOUS
<1>1. doc \in Stored /\ asked = 0 /\ answer.ok = TRUE
  BY DEF Init
<1>2. MaxRequests \in Nat
  BY RequestAssumption
<1>3. asked \in 0..MaxRequests
  BY <1>1, <1>2
<1>5. answer.ok \in BOOLEAN
  BY <1>1
<1>4. doc \in Document /\ NumPages(doc) \in 1..MaxPages /\ Linked(doc) /\ Nested(doc.outline) /\ OneField(doc.form)
  BY <1>1, StoredAssumption
<1> QED
  BY <1>3, <1>4, <1>5 DEF IInv, TypeOK

LEMMA StepHolds == IInv /\ [Next]_vars => IInv'
<1> SUFFICES ASSUME IInv, [Next]_vars PROVE IInv'
  OBVIOUS
<1>0. /\ Sound(doc) /\ NumPages(doc) # 0 /\ Quarters \subseteq 0..3
      /\ \A ps \in Lists : ps \in Seq(Int)
  BY Holding, RequestAssumption
<1>1. CASE Rotate
  BY <1>0, <1>1, RotateAnswers, ReplyKeeps DEF Rotate
<1>2. CASE Split
  BY <1>0, <1>2, SplitAnswers, ReplyKeeps DEF Split
<1>3. CASE Reorder
  BY <1>0, <1>3, ReorderAnswers, ReplyKeeps DEF Reorder
<1>4. CASE Delete
  BY <1>0, <1>4, DeleteAnswers, ReplyKeeps DEF Delete
<1>5. CASE Build
  <2>1. PICK s \in FirstSource, t \in SecondSource, annots \in Annots, flatten \in BOOLEAN, entries \in Entries :
          Reply("build", <<s, t, annots, flatten, entries>>, BuildPdf(<<s, t>>, annots, flatten, entries))
    BY <1>5 DEF Build
  <2>2. SourceFits(s) /\ SourceFits(t) /\ entries \in Seq(Asked)
    BY SourcesFit, EntriesAre
  <2>3. Answered(BuildPdf(<<s, t>>, annots, flatten, entries))
    BY <2>2, BuildAnswers
  <2> QED
    BY <2>1, <2>3, ReplyKeeps
<1>6. CASE Redact
  <2>1. PICK reds : Reply("redact", reds, RedactContent(doc, reds))
    BY <1>6 DEF Redact
  <2> QED
    BY <1>0, <2>1, RedactAnswers, ReplyKeeps
<1>7. CASE WriteOutlineBack
  <2>1. Answered(AddBookmarks(doc, InfoOutline(doc)))
    BY <1>0, InfoOutlineIs, BookmarksAre
  <2> QED
    BY <1>7, <2>1, ReplyKeeps DEF WriteOutlineBack
<1>8. CASE Fill
  <2>1. PICK values \in Values, flatten \in BOOLEAN :
          Reply("fill", <<values, flatten>>, FillForm(doc, values, flatten))
    BY <1>8 DEF Fill
  <2>2. \A name \in DOMAIN values : values[name] \in Words
    <3>1. UNION {{vs[n] : n \in DOMAIN vs} : vs \in Values} \subseteq Words
      BY DEF Words
    <3>2. \A name \in DOMAIN values : values[name] \in {values[n] : n \in DOMAIN values}
      OBVIOUS
    <3>3. {values[n] : n \in DOMAIN values} \in {{vs[n] : n \in DOMAIN vs} : vs \in Values}
      OBVIOUS
    <3> QED
      BY <3>1, <3>2, <3>3
  <2> QED
    BY <1>0, <2>1, <2>2, FormIs, ReplyKeeps
<1>9. CASE Mark
  <2>1. PICK ps \in Lists \cup {EveryPage(doc)}, what \in {"mark", "crop"} :
          Reply("mark", <<ps, what>>, MarkPages(doc, ps, what))
    BY <1>9 DEF Mark
  <2>2. what \in Ink
    BY DEF Ink
  <2> QED
    BY <1>0, <2>1, <2>2, MarkAnswers, ReplyKeeps
<1>10. CASE Flatten
  BY <1>0, <1>10, FlattenAnswers, ReplyKeeps DEF Flatten
<1>11. CASE Clean
  BY <1>0, <1>11, SanitizeAnswers, ReplyKeeps DEF Clean
<1>12. CASE Bookmark
  BY <1>0, <1>12, EntriesAre, BookmarksAre, ReplyKeeps DEF Bookmark
<1>13. CASE Encrypt
  BY <1>0, <1>13, EncryptAnswers, ReplyKeeps DEF Encrypt
<1>14. CASE Decrypt
  BY <1>0, <1>14, UnlockAnswers, ReplyKeeps DEF Decrypt
<1>15. CASE Unlock
  <2>1. PICK attested, without, copy, pw :
          Reply("unlock", <<attested, without, copy, pw>>, AuthorizeAndUnlock(doc, attested, pw, without, copy))
    BY <1>15 DEF Unlock
  <2>2. Answered(AuthorizeAndUnlock(doc, attested, pw, without, copy))
    BY <1>0, UnlockAnswers
  <2> QED
    BY <2>1, <2>2, ReplyKeeps
<1>16. CASE UNCHANGED vars
  BY <1>16 DEF vars, IInv, TypeOK
<1> QED
  BY <1>1, <1>2, <1>3, <1>4, <1>5, <1>6, <1>7, <1>8, <1>9, <1>10, <1>11, <1>12, <1>13, <1>14, <1>15,
     <1>16 DEF Next

\* Documents: the inductive invariant holds in every reachable state.
THEOREM Inductive == Spec => []IInv
<1>1. Init => IInv
  BY InitHolds
<1>2. IInv /\ [Next]_vars => IInv'
  BY StepHolds
<1> QED
  BY <1>1, <1>2, PTL DEF Spec

\* Whatever is stored and requested, the client always holds a PDF of one to MaxPages
\* pages of the stored documents, and its outline names pages it has.
THEOREM DocumentsAreSound == Spec => []TypeOK
<1>1. IInv => TypeOK
  BY DEF IInv
<1> QED
  BY <1>1, Inductive, PTL

-----------------------------------------------------------------------------
(* Which request an answer belongs to *)

LEMMA ReplyIs ==
  ASSUME NEW op, NEW with, NEW d, Reply(op, with, d)
  PROVE  /\ answer'.op = op /\ answer'.with = with /\ (answer'.ok <=> d # Refused)
         /\ doc' = IF d = Refused THEN doc ELSE d
<1>1. answer' = [op |-> op, with |-> with, ok |-> d # Refused] /\ doc' = IF d = Refused THEN doc ELSE d
  BY DEF Reply
<1> QED
  BY <1>1

LEMMA AnswerIsOf ==
  ASSUME Next
  PROVE  /\ answer'.op = "delete" => Delete
         /\ answer'.op = "reorder" => Reorder
         /\ answer'.op = "redact" => Redact
         /\ answer'.op = "build" => Build
         /\ answer'.op = "write_back" => WriteOutlineBack
         /\ answer'.op = "fill" => Fill
<1>1. (Rotate => answer'.op = "rotate") /\ (Split => answer'.op = "split") /\ (Mark => answer'.op = "mark")
  BY ReplyIs DEF Rotate, Split, Mark
<1>2. (Flatten => answer'.op = "flatten") /\ (Clean => answer'.op = "sanitize")
      /\ (Bookmark => answer'.op = "bookmarks")
  BY ReplyIs DEF Flatten, Clean, Bookmark
<1>3. (Encrypt => answer'.op = "encrypt") /\ (Decrypt => answer'.op = "decrypt")
      /\ (Unlock => answer'.op = "unlock")
  BY ReplyIs DEF Encrypt, Decrypt, Unlock
<1>4. (Delete => answer'.op = "delete") /\ (Reorder => answer'.op = "reorder") /\ (Redact => answer'.op = "redact")
  BY ReplyIs DEF Delete, Reorder, Redact
<1>5. (Build => answer'.op = "build") /\ (WriteOutlineBack => answer'.op = "write_back")
      /\ (Fill => answer'.op = "fill")
  BY ReplyIs DEF Build, WriteOutlineBack, Fill
<1> QED
  BY <1>1, <1>2, <1>3, <1>4, <1>5 DEF Next

-----------------------------------------------------------------------------
(* The outline that info lists *)

\* The outline that get_info() answers is always accepted by add_bookmarks(), and moves
\* no bookmark that has a page (pdf_service.py:168).
THEOREM OutlineIsWrittenBack == Spec => WriteBackKeepsOutline
<1> DEFINE Back == answer'.op = "write_back" /\ Readable(doc) =>
                     /\ answer'.ok
                     /\ \A i \in DOMAIN doc.outline :
                          doc.outline[i].page # Nowhere => doc'.outline[i] = doc.outline[i]
<1>1. ASSUME IInv, Next PROVE Back
  <2> SUFFICES ASSUME answer'.op = "write_back", Readable(doc)
               PROVE  /\ answer'.ok
                      /\ \A i \in DOMAIN doc.outline :
                           doc.outline[i].page # Nowhere => doc'.outline[i] = doc.outline[i]
    OBVIOUS
  <2> DEFINE entries == InfoOutline(doc)
             e == AddBookmarks(doc, entries)
  <2>1. Reply("write_back", <<>>, e)
    BY <1>1, AnswerIsOf DEF WriteOutlineBack
  <2>2. Sound(doc) /\ NumPages(doc) # 0
    BY <1>1, Holding
  <2>3. /\ entries \in Seq(Asked) /\ DOMAIN entries = DOMAIN doc.outline /\ Nested(entries)
        /\ \A i \in DOMAIN doc.outline :
             /\ entries[i].page \in 0..(NumPages(doc) - 1)
             /\ doc.outline[i].page # Nowhere => entries[i] = doc.outline[i]
    BY <2>2, InfoOutlineIs
  <2> HIDE DEF entries
  <2>4. e # Refused /\ e.outline = entries
    BY <2>2, <2>3, BookmarksAre
  <2> HIDE DEF e
  <2>5. answer'.ok /\ doc' = e
    BY <2>1, <2>4, ReplyIs
  <2> QED
    BY <2>3, <2>4, <2>5
<1>2. IInv /\ [Next]_vars => [Back]_vars
  <2> HIDE DEF Back
  <2> QED
    BY <1>1
<1> QED
  BY <1>2, Inductive, PTL DEF Spec, WriteBackKeepsOutline

-----------------------------------------------------------------------------
(* Forms *)

LEMMA MinIs ==
  ASSUME NEW I \in SUBSET Nat, I # {}
  PROVE  Min(I) \in I /\ \A n \in I : Min(I) <= n
BY LeastExists DEF Min

LEMMA MaxIs ==
  ASSUME NEW k \in Nat, NEW I \in SUBSET (0..k), I # {}
  PROVE  Max(I) \in I
<1>1. PICK m \in I : \A n \in I : n <= m
  BY GreatestExists
<1>2. \A n \in I : m >= n
  BY <1>1
<1> QED
  BY <1>2 DEF Max

\* The widgets of a name, and the buttons of a radio group that are on.
Named(d, name) == {i \in DOMAIN d.form : d.form[i].name = name}
On(d, name) == {i \in Named(d, name) : d.form[i].kind = "radio" /\ d.form[i].value # "Off"}

LEMMA ListedIs ==
  ASSUME NEW d, Sound(d), NEW i \in DOMAIN d.form
  PROVE  LET name == d.form[i].name IN
         /\ ListForm(d)[name] = IF On(d, name) # {} THEN d.form[Max(On(d, name))].on
                                ELSE d.form[Min(Named(d, name))].value
         /\ i \in Named(d, name) /\ Min(Named(d, name)) \in Named(d, name)
         /\ On(d, name) # {} => Max(On(d, name)) \in On(d, name)
<1> DEFINE name == d.form[i].name
           k == Len(d.form)
<1>1. DOMAIN d.form = 1..k /\ k \in Nat
  BY DocumentIs, SeqIs DEF Sound
<1>2. ListForm(d)[name] = FieldValue(d, name)
  BY DEF ListForm
<1> HIDE DEF name
<1>3. FieldValue(d, name) = IF On(d, name) # {} THEN d.form[Max(On(d, name))].on
                            ELSE d.form[Min(Named(d, name))].value
  BY DEF FieldValue, On, Named
<1>4. i \in Named(d, name)
  BY DEF Named, name
<1>5. Named(d, name) \in SUBSET Nat /\ On(d, name) \in SUBSET (0..k)
  BY <1>1 DEF Named, On
<1>6. Min(Named(d, name)) \in Named(d, name)
  BY <1>4, <1>5, MinIs
<1>7. On(d, name) # {} => Max(On(d, name)) \in On(d, name)
  BY <1>1, <1>5, MaxIs
<1> QED
  BY <1>2, <1>3, <1>4, <1>6, <1>7 DEF name

\* What list_form_fields() shows after fill_form_fields() is what was filled in, for
\* fields of every kind; read-only and unnamed ones keep what they showed.
THEOREM FilledFieldsAreListed == Spec => FilledIsListed
<1> DEFINE Filled == answer'.op = "fill" /\ answer'.ok =>
             LET values == answer'.with[1]  flatten == answer'.with[2] IN
             /\ flatten => DOMAIN ListForm(doc') = {}
             /\ ~flatten => \A i \in DOMAIN doc.form :
               LET w == doc.form[i]  shown == ListForm(doc')[w.name] IN
               IF w.name \notin DOMAIN values \/ w.locked THEN shown = ListForm(doc)[w.name]
               ELSE CASE w.kind = "text" -> shown = values[w.name]
                      [] w.kind = "checkbox" -> (shown # "Off") <=> (values[w.name] = "yes")
                      [] w.kind = "radio" -> (shown = w.on) <=> (values[w.name] = w.on)
<1>1. ASSUME IInv, Next, answer'.op = "fill", answer'.ok PROVE Filled
  <2>1. PICK values \in Values, flatten \in BOOLEAN :
          Reply("fill", <<values, flatten>>, FillForm(doc, values, flatten))
    BY <1>1, AnswerIsOf DEF Fill
  <2> DEFINE e == FillForm(doc, values, flatten)
  <2>2. Sound(doc)
    BY <1>1, Holding
  <2>3. \A name \in DOMAIN values : values[name] \in Words
    <3>1. UNION {{vs[n] : n \in DOMAIN vs} : vs \in Values} \subseteq Words
      BY DEF Words
    <3>2. \A name \in DOMAIN values : values[name] \in {values[n] : n \in DOMAIN values}
      OBVIOUS
    <3>3. {values[n] : n \in DOMAIN values} \in {{vs[n] : n \in DOMAIN vs} : vs \in Values}
      OBVIOUS
    <3> QED
      BY <3>1, <3>2, <3>3
  <2>4. answer'.with[1] = values /\ answer'.with[2] = flatten /\ e # Refused /\ doc' = e
    <3>1. answer'.with = <<values, flatten>> /\ e # Refused /\ doc' = e
      BY <1>1, <2>1, ReplyIs
    <3> QED
      BY <3>1
  <2>a. CASE flatten
    <3>1. e.form = <<>>
      BY <2>2, <2>3, <2>4, <2>a, FormIs
    <3> HIDE DEF e
    <3>2. DOMAIN e.form = {}
      BY <3>1
    <3>3. DOMAIN ListForm(e) = {}
      BY <3>2 DEF ListForm
    <3> QED
      BY <2>4, <2>a, <3>3
  <2>b. SUFFICES ASSUME ~flatten PROVE Filled
    BY <2>a
  <2>5. DOMAIN e.form = DOMAIN doc.form /\ Sound(e)
        /\ \A i \in DOMAIN doc.form : e.form[i] = FillWidget(doc.form[i], values)
    <3>1. /\ Answered(e)
          /\ e # Refused /\ ~flatten =>
               /\ DOMAIN e.form = DOMAIN doc.form
               /\ \A i \in DOMAIN doc.form : e.form[i] = FillWidget(doc.form[i], values)
      BY <2>2, <2>3, FormIs
    <3> QED
      BY <2>4, <2>b, <3>1 DEF Answered
  <2> HIDE DEF e
  <2>6. \A i \in DOMAIN doc.form : doc.form[i] \in Widget
    BY <2>2, DocumentIs, SeqIs DEF Sound
  <2>7. \A i \in DOMAIN doc.form : LET w == doc.form[i]  v == e.form[i] IN
          /\ v.name = w.name /\ v.kind = w.kind /\ v.on = w.on /\ v.locked = w.locked
          /\ v.value = IF w.name \notin DOMAIN values \/ w.locked THEN w.value
                       ELSE CASE w.kind = "checkbox" -> IF IsChecked(values[w.name]) THEN w.on ELSE "Off"
                              [] w.kind = "radio" -> IF w.on = values[w.name] THEN w.on ELSE "Off"
                              [] OTHER -> values[w.name]
    BY <2>3, <2>5, <2>6, FillIs
  <2>8. \A name : Named(e, name) = Named(doc, name)
    BY <2>5, <2>7 DEF Named
  <2> SUFFICES ASSUME NEW i \in DOMAIN doc.form
               PROVE  LET w == doc.form[i]  shown == ListForm(e)[w.name] IN
                      IF w.name \notin DOMAIN values \/ w.locked THEN shown = ListForm(doc)[w.name]
                      ELSE CASE w.kind = "text" -> shown = values[w.name]
                             [] w.kind = "checkbox" -> (shown # "Off") <=> (values[w.name] = "yes")
                             [] w.kind = "radio" -> (shown = w.on) <=> (values[w.name] = w.on)
    BY <2>4, <2>b
  <2> DEFINE w == doc.form[i]
             name == w.name
             first == Min(Named(doc, name))
  <2>9. /\ e.form[i].name = name /\ i \in DOMAIN e.form
        /\ w \in Widget
    BY <2>5, <2>6, <2>7
  <2>10. /\ ListForm(e)[name] = IF On(e, name) # {} THEN e.form[Max(On(e, name))].on ELSE e.form[first].value
         /\ ListForm(doc)[name] = IF On(doc, name) # {} THEN doc.form[Max(On(doc, name))].on ELSE doc.form[first].value
         /\ first \in Named(doc, name) /\ i \in Named(doc, name)
         /\ On(e, name) # {} => Max(On(e, name)) \in On(e, name)
         /\ On(doc, name) # {} => Max(On(doc, name)) \in On(doc, name)
    <3>1. /\ ListForm(e)[name] = IF On(e, name) # {} THEN e.form[Max(On(e, name))].on
                                ELSE e.form[Min(Named(e, name))].value
          /\ On(e, name) # {} => Max(On(e, name)) \in On(e, name)
      <4> HIDE DEF e, name
      <4>1. Sound(e) /\ i \in DOMAIN e.form /\ e.form[i].name = name
        BY <2>5, <2>9
      <4>2. LET n == e.form[i].name IN
              /\ ListForm(e)[n] = IF On(e, n) # {} THEN e.form[Max(On(e, n))].on
                                  ELSE e.form[Min(Named(e, n))].value
              /\ On(e, n) # {} => Max(On(e, n)) \in On(e, n)
        BY <4>1, ListedIs
      <4> QED
        BY <4>1, <4>2
    <3>2. /\ ListForm(doc)[name] = IF On(doc, name) # {} THEN doc.form[Max(On(doc, name))].on
                                  ELSE doc.form[first].value
          /\ i \in Named(doc, name) /\ first \in Named(doc, name)
          /\ On(doc, name) # {} => Max(On(doc, name)) \in On(doc, name)
      BY <2>2, ListedIs
    <3>3. Named(e, name) = Named(doc, name)
      BY <2>8
    <3> QED
      BY <3>1, <3>2, <3>3
  <2> HIDE DEF first
  <2>11. \A j \in Named(doc, name) :
           /\ j \in DOMAIN doc.form /\ doc.form[j].name = name
           /\ doc.form[j].kind = w.kind /\ doc.form[j].locked = w.locked
           /\ w.kind # "text" => doc.form[j].on # "Off"
    BY <2>2 DEF Named, Sound, OneField
  <2>12. CASE name \notin DOMAIN values \/ w.locked
    <3>1. \A j \in Named(doc, name) : e.form[j].value = doc.form[j].value
                /\ e.form[j].kind = doc.form[j].kind /\ e.form[j].on = doc.form[j].on
      BY <2>7, <2>11, <2>12
    <3>2. On(e, name) = On(doc, name)
      BY <2>8, <3>1 DEF On
    <3>3. On(doc, name) # {} => Max(On(doc, name)) \in Named(doc, name)
      BY <2>10 DEF On
    <3>4. ListForm(e)[name] = ListForm(doc)[name]
      BY <2>10, <3>1, <3>2, <3>3
    <3> QED
      BY <2>12, <3>4
  <2>13. ASSUME ~(name \notin DOMAIN values \/ w.locked)
         PROVE  CASE w.kind = "text" -> ListForm(e)[name] = values[name]
                  [] w.kind = "checkbox" -> (ListForm(e)[name] # "Off") <=> (values[name] = "yes")
                  [] w.kind = "radio" -> (ListForm(e)[name] = w.on) <=> (values[name] = w.on)
    <3>1. \A j \in Named(doc, name) :
            /\ e.form[j].kind = w.kind /\ e.form[j].on = doc.form[j].on
            /\ w.kind = "text" => e.form[j].value = values[name]
            /\ w.kind = "checkbox" => e.form[j].value = IF IsChecked(values[name]) THEN doc.form[j].on ELSE "Off"
            /\ w.kind = "radio" => e.form[j].value = IF doc.form[j].on = values[name] THEN doc.form[j].on ELSE "Off"
      BY <2>7, <2>11, <2>13
    <3>2. w.kind # "radio" => On(e, name) = {}
      BY <2>8, <3>1 DEF On
    <3>3. CASE w.kind = "text"
      <4>1. ListForm(e)[name] = values[name]
        BY <2>10, <3>1, <3>2, <3>3
      <4> QED
        BY <3>3, <4>1
    <3>4. CASE w.kind = "checkbox"
      <4>1. ListForm(e)[name] = IF IsChecked(values[name]) THEN doc.form[first].on ELSE "Off"
        BY <2>10, <3>1, <3>2, <3>4
      <4>2. doc.form[first].on # "Off"
        BY <2>10, <2>11, <3>4
      <4>3. IsChecked(values[name]) <=> values[name] = "yes"
        BY <2>13 DEF Values, IsChecked
      <4>4. (ListForm(e)[name] # "Off") <=> (values[name] = "yes")
        BY <4>1, <4>2, <4>3
      <4> QED
        BY <3>4, <4>4
    <3>5. CASE w.kind = "radio"
      <4>1. On(e, name) = {j \in Named(doc, name) : doc.form[j].on = values[name]}
        BY <2>8, <2>11, <3>1, <3>5 DEF On
      <4>2. CASE On(e, name) # {}
        <5>1. ListForm(e)[name] = values[name]
          BY <2>10, <3>1, <4>1, <4>2
        <5> QED
          BY <3>5, <5>1
      <4>3. CASE On(e, name) = {}
        <5>1. values[name] # w.on /\ doc.form[first].on # values[name]
          BY <2>10, <4>1, <4>3
        <5>2. ListForm(e)[name] = "Off"
          BY <2>10, <3>1, <3>5, <4>3, <5>1
        <5>3. w.on # "Off"
          BY <2>10, <2>11, <3>5
        <5> QED
          BY <3>5, <5>1, <5>2, <5>3
      <4> QED
        BY <4>2, <4>3
    <3>6. w.kind \in Kinds
      BY <2>9 DEF Widget
    <3> QED
      BY <3>3, <3>4, <3>5, <3>6 DEF Kinds
  <2> QED
    BY <2>12, <2>13
<1>2. IInv /\ [Next]_vars => [Filled]_vars
  <2>1. ~(answer'.op = "fill" /\ answer'.ok) => Filled
    OBVIOUS
  <2> HIDE DEF Filled
  <2> QED
    BY <1>1, <2>1
<1> QED
  BY <1>2, Inductive, PTL DEF Spec, FilledIsListed

-----------------------------------------------------------------------------
(* Pages picked by their places *)

Pick(pages, I) == [k \in 1..Cardinality(I) |-> pages[Kth(I, k)]]

LEMMA PickAll ==
  ASSUME NEW S, NEW pages \in Seq(S)
  PROVE  Pick(pages, 1..Len(pages)) = pages
<1> DEFINE N == Len(pages)
           I == 1..N
<1>1. N \in Nat /\ pages = [k \in 1..N |-> pages[k]]
  BY SeqIs
<1>2. \A n \in Nat : Cardinality(1..n) = n
  BY FS_Interval, FS_EmptySet
<1>3. \A k \in 1..N : Kth(I, k) = k
  <2> SUFFICES ASSUME NEW k \in 1..N PROVE Kth(I, k) = k
    OBVIOUS
  <2>1. Less(I, k) = 1..(k - 1) /\ k - 1 \in Nat /\ (k - 1) + 1 = k
    BY <1>1 DEF Less
  <2>2. Cardinality(Less(I, k)) = k - 1
    BY <1>2, <2>1
  <2>3. Kth(I, Cardinality(Less(I, k)) + 1) = k
    BY <1>1, KthIsOnly
  <2> QED
    BY <2>1, <2>2, <2>3
<1>4. Pick(pages, I) = [k \in 1..N |-> pages[k]]
  BY <1>1, <1>2, <1>3 DEF Pick
<1> QED
  BY <1>1, <1>4

\* While the first x places are all picked, taking out the x-th page leaves the pages of
\* the other places.
LEMMA PickRemove ==
  ASSUME NEW S, NEW pages \in Seq(S), NEW I \in SUBSET (1..Len(pages)), NEW x \in I, 1..x \subseteq I
  PROVE  /\ RemoveAt(Pick(pages, I), x) = Pick(pages, I \ {x})
         /\ x <= Cardinality(I)
<1> DEFINE N == Len(pages)
           c == Cardinality(I)
           J == I \ {x}
           s == Pick(pages, I)
<1>1. N \in Nat /\ c \in Nat /\ x \in Nat /\ x >= 1 /\ \A i \in I : i \in Nat /\ pages[i] \in S
  <2>1. N \in Nat /\ \A i \in 1..N : pages[i] \in S
    BY SeqIs
  <2>2. c \in Nat
    BY <2>1, LessIs
  <2> QED
    BY <2>1, <2>2
<1>2. IsFiniteSet(I) /\ Cardinality(J) = c - 1 /\ J \in SUBSET (1..N)
  <2>1. IsFiniteSet(I)
    BY <1>1, LessIs
  <2> QED
    BY <2>1, FS_RemoveElement
<1>3. Cardinality(1..x) = x /\ x <= c
  <2>1. Cardinality(1..x) = x
    BY <1>1, FS_Interval
  <2>2. Cardinality(1..x) <= c
    BY <1>2, FS_Subset
  <2> QED
    BY <2>1, <2>2
<1>4. Cardinality(Less(I, x)) = x - 1
  <2>1. \A j : j \in I /\ j < x <=> j \in 1..(x - 1)
    <3>1. \A j \in I : j \in Nat /\ j >= 1
      BY <1>1
    <3>2. \A j \in 1..(x - 1) : j \in 1..x /\ j < x
      BY <1>1
    <3>3. \A j \in 1..(x - 1) : j \in I /\ j < x
      BY <3>2
    <3>4. \A j \in I : j < x => j \in 1..(x - 1)
      BY <1>1, <3>1
    <3> QED
      BY <3>3, <3>4
  <2>2. Less(I, x) = 1..(x - 1)
    BY <2>1 DEF Less
  <2>3. Cardinality(1..(x - 1)) = x - 1
    BY <1>1, FS_Interval
  <2> QED
    BY <2>2, <2>3
<1>5. \A k \in 1..c : /\ Kth(I, k) \in I /\ Cardinality(Less(I, Kth(I, k))) = k - 1
  BY <1>1, KthIs
<1>6. \A i \in I : /\ i < x <=> Cardinality(Less(I, i)) < x - 1
                   /\ i > x <=> Cardinality(Less(I, i)) > x - 1
                   /\ Cardinality(Less(I, i)) \in Nat
  <2> SUFFICES ASSUME NEW i \in I
               PROVE  /\ i < x <=> Cardinality(Less(I, i)) < x - 1
                      /\ i > x <=> Cardinality(Less(I, i)) > x - 1
                      /\ Cardinality(Less(I, i)) \in Nat
    OBVIOUS
  <2>1. /\ i < x => Cardinality(Less(I, i)) + 1 <= Cardinality(Less(I, x))
        /\ x < i => Cardinality(Less(I, x)) + 1 <= Cardinality(Less(I, i))
        /\ Cardinality(Less(I, i)) \in Nat
    BY <1>1, LessIs
  <2>2. i \in Nat
    BY <1>1
  <2>3. CASE i < x
    BY <1>1, <1>4, <2>1, <2>2, <2>3
  <2>4. CASE i > x
    BY <1>1, <1>4, <2>1, <2>2, <2>4
  <2>5. CASE i = x
    BY <1>1, <1>4, <2>5
  <2> QED
    BY <1>1, <2>2, <2>3, <2>4, <2>5
<1>7. \A k \in 1..(c - 1) : Kth(J, k) = IF k < x THEN Kth(I, k) ELSE Kth(I, k + 1)
  <2> SUFFICES ASSUME NEW k \in 1..(c - 1)
               PROVE  Kth(J, k) = IF k < x THEN Kth(I, k) ELSE Kth(I, k + 1)
    OBVIOUS
  <2>1. k \in 1..c /\ k + 1 \in 1..c /\ k \in Nat
    BY <1>1
  <2>2. CASE k < x
    <3> DEFINE i == Kth(I, k)
    <3>1. i \in I /\ Cardinality(Less(I, i)) = k - 1
      BY <1>5, <2>1
    <3> HIDE DEF i
    <3>2. i < x
      BY <1>1, <1>6, <2>1, <2>2, <3>1
    <3>3. i \in J /\ Less(J, i) = Less(I, i)
      BY <1>1, <3>1, <3>2 DEF Less
    <3>4. Kth(J, Cardinality(Less(J, i)) + 1) = i
      <4> HIDE DEF J
      <4> QED
        BY <1>1, <1>2, <3>3, KthIsOnly
    <3>5. Cardinality(Less(J, i)) + 1 = k
      BY <2>1, <3>1, <3>3
    <3> QED
      BY <2>2, <3>4, <3>5 DEF i
  <2>3. CASE ~(k < x)
    <3> DEFINE i == Kth(I, k + 1)
    <3>1. i \in I /\ Cardinality(Less(I, i)) = (k + 1) - 1
      BY <1>5, <2>1
    <3> HIDE DEF i
    <3>2. i > x
      BY <1>1, <1>6, <2>1, <2>3, <3>1
    <3>3. i \in J /\ Less(J, i) = Less(I, i) \ {x} /\ x \in Less(I, i)
      BY <1>1, <3>1, <3>2 DEF Less
    <3>4. Cardinality(Less(J, i)) = k - 1
      <4>1. IsFiniteSet(Less(I, i))
        BY <1>1, LessIs
      <4>2. Cardinality(Less(J, i)) = Cardinality(Less(I, i)) - 1
        BY <3>3, <4>1, FS_RemoveElement
      <4> QED
        BY <2>1, <3>1, <4>2
    <3>5. Kth(J, Cardinality(Less(J, i)) + 1) = i
      <4> HIDE DEF J
      <4> QED
        BY <1>1, <1>2, <3>3, KthIsOnly
    <3>6. Cardinality(Less(J, i)) + 1 = k
      BY <2>1, <3>4
    <3> QED
      BY <2>3, <3>5, <3>6 DEF i
  <2> QED
    BY <2>2, <2>3
<1>8. s \in Seq(S) /\ Len(s) = c /\ \A k \in 1..c : s[k] = pages[Kth(I, k)]
  <2>1. s = [k \in 1..c |-> pages[Kth(I, k)]]
    BY DEF Pick
  <2>2. \A k \in 1..c : pages[Kth(I, k)] \in S
    BY <1>1, <1>5
  <2>3. s \in [1..c -> S]
    BY <2>1, <2>2
  <2> HIDE DEF s, c
  <2> QED
    BY <1>1, <2>1, <2>3, MapSeq
<1> HIDE DEF s, c, J, N
<1>9. /\ RemoveAt(s, x) \in Seq(S) /\ Len(RemoveAt(s, x)) = c - 1
      /\ \A k \in 1..(c - 1) : RemoveAt(s, x)[k] = IF k < x THEN s[k] ELSE s[k + 1]
  <2>1. x \in 1..Len(s)
    BY <1>1, <1>3, <1>8
  <2> QED
    BY <1>8, <2>1, RemoveAtIs
<1>10. \A k \in 1..(c - 1) : RemoveAt(s, x)[k] = pages[Kth(J, k)]
  <2> SUFFICES ASSUME NEW k \in 1..(c - 1) PROVE RemoveAt(s, x)[k] = pages[Kth(J, k)]
    OBVIOUS
  <2>1. k \in 1..c /\ k + 1 \in 1..c
    BY <1>1
  <2> QED
    BY <1>7, <1>8, <1>9, <2>1
<1>11. RemoveAt(s, x) = [k \in 1..(c - 1) |-> pages[Kth(J, k)]]
  <2>1. RemoveAt(s, x) = [k \in 1..(c - 1) |-> RemoveAt(s, x)[k]]
    BY <1>9, SeqIs
  <2> QED
    BY <1>10, <2>1
<1> QED
  BY <1>2, <1>3, <1>11 DEF Pick, s, c, J

-----------------------------------------------------------------------------
(* The loop that deletes pages, from the greatest number down *)

\* In a list of different numbers, a place has one above it more than the next greater.
LEMMA AboveIs ==
  ASSUME NEW N \in Nat, NEW ps \in Seq(Int), \A i \in DOMAIN ps : ps[i] \in 0..N, IsInjective(ps)
  PROVE  \A p \in ToSet(ps) :
           /\ p \in 0..N /\ Cardinality(Above(ps, p)) \in Nat /\ Cardinality(Above(ps, p)) < Len(ps)
           /\ Cardinality(AtLeast(ps, p)) = Cardinality(Above(ps, p)) + 1
           /\ \A q \in ToSet(ps) : p < q => Cardinality(Above(ps, q)) < Cardinality(Above(ps, p))
<1>0. Len(ps) \in Nat /\ DOMAIN ps = 1..Len(ps)
  BY SeqIs
<1>1. IsFiniteSet(DOMAIN ps) /\ Cardinality(DOMAIN ps) = Len(ps)
  BY <1>0, PlacesAre
<1>2. \A p : /\ Above(ps, p) \subseteq AtLeast(ps, p) \/ p \notin Int
             /\ Above(ps, p) \subseteq DOMAIN ps /\ AtLeast(ps, p) \subseteq DOMAIN ps
             /\ IsFiniteSet(Above(ps, p)) /\ IsFiniteSet(AtLeast(ps, p))
             /\ Cardinality(Above(ps, p)) \in Nat /\ Cardinality(AtLeast(ps, p)) \in Nat
             /\ Cardinality(AtLeast(ps, p)) <= Len(ps)
  <2> SUFFICES ASSUME NEW p
               PROVE  /\ Above(ps, p) \subseteq AtLeast(ps, p) \/ p \notin Int
                      /\ Above(ps, p) \subseteq DOMAIN ps /\ AtLeast(ps, p) \subseteq DOMAIN ps
                      /\ IsFiniteSet(Above(ps, p)) /\ IsFiniteSet(AtLeast(ps, p))
                      /\ Cardinality(Above(ps, p)) \in Nat /\ Cardinality(AtLeast(ps, p)) \in Nat
                      /\ Cardinality(AtLeast(ps, p)) <= Len(ps)
    OBVIOUS
  <2>1. Above(ps, p) \subseteq DOMAIN ps /\ AtLeast(ps, p) \subseteq DOMAIN ps
    BY DEF Above, AtLeast
  <2>2. IsFiniteSet(Above(ps, p)) /\ IsFiniteSet(AtLeast(ps, p)) /\ Cardinality(AtLeast(ps, p)) <= Len(ps)
    BY <1>1, <2>1, FS_Subset
  <2>3. Cardinality(Above(ps, p)) \in Nat /\ Cardinality(AtLeast(ps, p)) \in Nat
    BY <2>2, FS_CardinalityType
  <2>4. Above(ps, p) \subseteq AtLeast(ps, p) \/ p \notin Int
    <3>1. \A i \in DOMAIN ps : ps[i] \in Int
      BY <1>0, SeqIs
    <3> QED
      BY <3>1 DEF Above, AtLeast
  <2> QED
    BY <2>1, <2>2, <2>3, <2>4
<1>3. \A p \in ToSet(ps) : p \in 0..N /\ \E i \in DOMAIN ps : ps[i] = p
  BY DEF ToSet
<1>4. \A i \in DOMAIN ps : ps[i] \in 0..N
  OBVIOUS
<1>5. ASSUME NEW p \in ToSet(ps) PROVE Cardinality(AtLeast(ps, p)) = Cardinality(Above(ps, p)) + 1
  <2>1. PICK i \in DOMAIN ps : ps[i] = p
    BY <1>3
  <2>2. p \in 0..N
    BY <1>3
  <2>3. \A j \in DOMAIN ps : ps[j] = p <=> j = i
    BY <2>1 DEF IsInjective
  <2>4. \A j \in DOMAIN ps : ps[j] >= p <=> ps[j] > p \/ j = i
    BY <1>4, <2>2, <2>3
  <2>5. AtLeast(ps, p) = Above(ps, p) \cup {i}
    BY <2>1, <2>4 DEF Above, AtLeast
  <2>6. i \notin Above(ps, p)
    BY <2>1, <2>2 DEF Above
  <2> QED
    BY <1>2, <2>5, <2>6, FS_AddElement
<1>6. ASSUME NEW p \in ToSet(ps), NEW q \in ToSet(ps), p < q
      PROVE  Cardinality(Above(ps, q)) < Cardinality(Above(ps, p))
  <2>1. p \in 0..N /\ q \in 0..N
    BY <1>3
  <2>2. \A j \in DOMAIN ps : ps[j] >= q => ps[j] > p
    BY <1>4, <1>6, <2>1
  <2>3. AtLeast(ps, q) \subseteq Above(ps, p)
    BY <2>2 DEF Above, AtLeast
  <2>4. Cardinality(AtLeast(ps, q)) <= Cardinality(Above(ps, p))
    BY <1>2, <2>3, FS_Subset
  <2>5. Cardinality(AtLeast(ps, q)) = Cardinality(Above(ps, q)) + 1
    BY <1>5
  <2> QED
    BY <1>2, <2>4, <2>5
<1>7. ASSUME NEW p \in ToSet(ps) PROVE Cardinality(Above(ps, p)) < Len(ps)
  BY <1>0, <1>2, <1>5
<1> QED
  BY <1>2, <1>3, <1>5, <1>6, <1>7

\* The page numbers the loop has taken out after n turns, and the places it has left.
Gone(ps, n) == {p \in ToSet(ps) : Cardinality(Above(ps, p)) < n}
Left(pages, ps, n) == {i \in DOMAIN pages : i - 1 \notin Gone(ps, n)}

LEMMA GoneIs ==
  ASSUME NEW N \in Nat, NEW ps \in Seq(Int), \A i \in DOMAIN ps : ps[i] \in 0..N, IsInjective(ps)
  PROVE  /\ Gone(ps, 0) = {} /\ Gone(ps, Len(ps)) = ToSet(ps)
         /\ \A n \in 1..Len(ps) :
              /\ Gone(ps, n) = Gone(ps, n - 1) \cup {Descending(ps)[n]}
              /\ Descending(ps)[n] \in ToSet(ps) /\ Descending(ps)[n] \in 0..N
              /\ \A p \in Gone(ps, n - 1) : p \in 0..N /\ p > Descending(ps)[n]
<1> DEFINE above(p) == Cardinality(Above(ps, p))
           V == ToSet(ps)
<1>0. Len(ps) \in Nat
  BY SeqIs
<1>1. \A p \in V : /\ p \in 0..N /\ above(p) \in Nat /\ above(p) < Len(ps)
                   /\ Cardinality(AtLeast(ps, p)) = above(p) + 1
                   /\ \A q \in V : p < q => above(q) < above(p)
  BY AboveIs
<1>2. \A n \in 1..Len(ps) : LET p == Descending(ps)[n] IN
        p \in V /\ above(p) < n /\ n <= Cardinality(AtLeast(ps, p))
  BY DescendingIs
<1> HIDE DEF above, V
<1>3. Gone(ps, 0) = {} /\ Gone(ps, Len(ps)) = V
  BY <1>0, <1>1 DEF Gone, above, V
<1>4. ASSUME NEW n \in 1..Len(ps)
      PROVE  LET p == Descending(ps)[n] IN
             /\ p \in V /\ p \in 0..N /\ above(p) = n - 1
             /\ \A q \in V : above(q) < n - 1 => q > p
             /\ \A q \in V : above(q) < n <=> above(q) < n - 1 \/ q = p
  <2> DEFINE p == Descending(ps)[n]
  <2>1. p \in V /\ above(p) < n /\ n <= Cardinality(AtLeast(ps, p))
    BY <1>2
  <2> HIDE DEF p
  <2>2. p \in 0..N /\ above(p) = n - 1
    BY <1>1, <2>1
  <2>3. ASSUME NEW q \in V, above(q) < n - 1 PROVE q > p
    <3>1. q \in 0..N /\ (q < p => above(p) < above(q))
      BY <1>1, <2>1
    <3>2. q # p
      BY <1>1, <2>2, <2>3
    <3>3. above(q) \in Nat
      BY <1>1
    <3> QED
      BY <2>2, <2>3, <3>1, <3>2, <3>3
  <2>4. ASSUME NEW q \in V PROVE above(q) < n <=> above(q) < n - 1 \/ q = p
    <3>1. /\ q \in 0..N /\ (q < p => above(p) < above(q)) /\ (p < q => above(q) < above(p))
          /\ above(q) \in Nat
      BY <1>1, <2>1
    <3>2. CASE q = p
      BY <2>2, <3>2
    <3>3. CASE q < p
      BY <2>2, <3>1, <3>3
    <3>4. CASE q > p
      BY <2>2, <3>1, <3>4
    <3> QED
      BY <2>2, <3>1, <3>2, <3>3, <3>4
  <2> QED
    BY <2>1, <2>2, <2>3, <2>4 DEF p
<1>5. ASSUME NEW n \in 1..Len(ps)
      PROVE  Gone(ps, n) = Gone(ps, n - 1) \cup {Descending(ps)[n]}
  <2>1. \A q \in V : above(q) < n <=> above(q) < n - 1 \/ q = Descending(ps)[n]
    BY <1>4
  <2>2. Descending(ps)[n] \in V
    BY <1>4
  <2>3. Gone(ps, n) = {q \in V : above(q) < n} /\ Gone(ps, n - 1) = {q \in V : above(q) < n - 1}
    BY DEF Gone, V, above
  <2> QED
    BY <2>1, <2>2, <2>3
<1>6. ASSUME NEW n \in 1..Len(ps), NEW p \in Gone(ps, n - 1)
      PROVE  p \in 0..N /\ p > Descending(ps)[n]
  <2>1. p \in V /\ above(p) < n - 1
    BY DEF Gone, V, above
  <2> QED
    BY <1>1, <1>4, <2>1
<1> QED
  BY <1>3, <1>4, <1>5, <1>6 DEF V

\* The pages that are left are those at the places no number of the list names, in
\* their order.
LEMMA DeleteKeeps ==
  ASSUME NEW d, Sound(d), NEW ps \in Seq(Int), ValidPages(d, ps), IsInjective(ps),
         DeletePages(d, ps) # Refused
  PROVE  DeletePages(d, ps).pages = Pick(d.pages, {i \in DOMAIN d.pages : ~Contains(ps, i - 1)})
<1> DEFINE N == NumPages(d)
           L == Len(ps)
           left(n) == Left(d.pages, ps, n)
<1>0. /\ N \in Nat /\ L \in Nat /\ DOMAIN d.pages = 1..N /\ N = Len(d.pages) /\ d.pages \in Seq(Page)
      /\ DOMAIN ps = 1..L
  BY DocumentIs, SeqIs DEF Sound, NumPages
<1>1. \A i \in DOMAIN ps : ps[i] \in 0..N /\ ps[i] \in 0..(N - 1)
  <2>1. \A i \in DOMAIN ps : ps[i] \in 0..(N - 1)
    BY ValidIs
  <2> QED
    BY <1>0, <2>1
<1>2. PICK f : /\ f[0] = d
               /\ \A n \in 1..L : f[n] = DeletePage(f[n - 1], Descending(ps)[n])
               /\ \A n \in 0..L : Sound(f[n])
               /\ DeletePages(d, ps) = Saved(f[L])
  BY DeleteRuns
<1>3. /\ Gone(ps, 0) = {} /\ Gone(ps, L) = ToSet(ps)
      /\ \A n \in 1..L :
           /\ Gone(ps, n) = Gone(ps, n - 1) \cup {Descending(ps)[n]}
           /\ Descending(ps)[n] \in ToSet(ps) /\ Descending(ps)[n] \in 0..N
           /\ \A p \in Gone(ps, n - 1) : p \in 0..N /\ p > Descending(ps)[n]
  BY <1>0, <1>1, GoneIs
<1> DEFINE I == {n \in 0..L : f[n].pages = Pick(d.pages, left(n))}
<1>4. 0 \in I
  <2>1. left(0) = 1..Len(d.pages)
    BY <1>0, <1>3 DEF Left
  <2>2. Pick(d.pages, left(0)) = d.pages
    BY <1>0, <2>1, PickAll
  <2> QED
    BY <1>0, <1>2, <2>2
<1>5. ASSUME NEW n \in 0..L, n < L, n \in I PROVE n + 1 \in I
  <2> DEFINE p == Descending(ps)[n + 1]
             x == p + 1
  <2>0. n + 1 \in 1..L /\ (n + 1) - 1 = n /\ n + 1 \in 0..L
    BY <1>0, <1>5
  <2>1. /\ Gone(ps, n + 1) = Gone(ps, n) \cup {p} /\ p \in ToSet(ps) /\ p \in 0..N
        /\ \A q \in Gone(ps, n) : q \in 0..N /\ q > p
    BY <1>3, <2>0
  <2>2. p \in 0..(N - 1)
    BY <1>1, <2>1 DEF ToSet
  <2>3. f[n + 1] = DeletePage(f[n], p) /\ Sound(f[n]) /\ f[n].pages = Pick(d.pages, left(n))
    BY <1>2, <1>5, <2>0
  <2> HIDE DEF p, I
  <2>4. x \in 1..N /\ x \in Nat /\ x - 1 = p
    BY <1>0, <2>2
  <2>5. 1..x \subseteq left(n) /\ left(n) \in SUBSET (1..Len(d.pages)) /\ x \in left(n)
    <3>1. \A i \in 1..x : i \in 1..N /\ i - 1 \notin Gone(ps, n)
      BY <1>0, <2>1, <2>2, <2>4
    <3>2. x \in 1..x
      BY <2>4
    <3> QED
      BY <1>0, <3>1, <3>2 DEF Left
  <2>6. left(n + 1) = left(n) \ {x}
    <3>1. \A i \in 1..N : i - 1 = p <=> i = x
      BY <1>0, <2>2, <2>4
    <3> QED
      BY <1>0, <2>1, <3>1 DEF Left
  <2> HIDE DEF x, left
  <2>7. /\ RemoveAt(Pick(d.pages, left(n)), x) = Pick(d.pages, left(n) \ {x})
        /\ x <= Cardinality(left(n))
    BY <1>0, <2>5, PickRemove
  <2>8. NumPages(f[n]) = Cardinality(left(n))
    <3>1. Cardinality(left(n)) \in Nat
      BY <1>0, <2>5, LessIs
    <3>2. DOMAIN f[n].pages = 1..Cardinality(left(n))
      BY <2>3 DEF Pick
    <3>3. DOMAIN f[n].pages = 1..NumPages(f[n]) /\ NumPages(f[n]) \in Nat
      BY <2>3, DocumentIs DEF Sound
    <3>4. \A a, b \in Nat : 1..a = 1..b => a = b
      OBVIOUS
    <3> QED
      BY <3>1, <3>2, <3>3, <3>4
  <2>9. p \in Nat /\ p < NumPages(f[n])
    <3>1. Cardinality(left(n)) \in Nat
      BY <1>0, <2>5, LessIs
    <3> QED
      BY <2>2, <2>4, <2>7, <2>8, <3>1 DEF x
  <2>10. DeletePage(f[n], p).pages = RemoveAt(f[n].pages, p + 1)
    BY <2>3, <2>9, DeletePageIs
  <2>11. f[n + 1].pages = Pick(d.pages, left(n + 1))
    BY <2>3, <2>6, <2>7, <2>10 DEF x
  <2> QED
    BY <2>0, <2>11 DEF I
<1>6. L \in I
  <2> HIDE DEF I
  <2>1. \A n \in 0..L : n \in I
    BY <1>0, <1>4, <1>5, UpTo
  <2> QED
    BY <1>0, <2>1
<1>7. left(L) = {i \in DOMAIN d.pages : ~Contains(ps, i - 1)}
  <2>1. \A p : p \in ToSet(ps) <=> Contains(ps, p)
    BY <1>0 DEF ToSet, Contains
  <2> QED
    BY <1>3, <2>1 DEF Left
<1>8. Sound(f[L]) /\ L \in 0..L
  BY <1>0, <1>2
<1>9. DeletePages(d, ps).pages = f[L].pages
  BY <1>2, <1>8, SavedIs
<1> QED
  BY <1>6, <1>7, <1>9

\* A reordering names every place once: every page is in the answer as often as before.
LEMMA ReorderKeeps ==
  ASSUME NEW d, Sound(d), NEW order \in Seq(Int), ReorderPages(d, order) # Refused
  PROVE  ToBag(ReorderPages(d, order).pages) = ToBag(d.pages)
<1> DEFINE N == NumPages(d)
           to == [i \in 1..N |-> order[i] + 1]
           f == [i \in DOMAIN order |-> d.pages[order[i] + 1]]
           e == [Refused EXCEPT !.pages = f]
           At(s, pg) == {i \in DOMAIN s : s[i] = pg}
<1>1. /\ ValidPages(d, order) /\ Len(order) = N /\ ToSet(order) = 0..(N - 1)
      /\ ReorderPages(d, order) = Saved(e)
  BY DEF ReorderPages
<1>2. N \in Nat /\ DOMAIN d.pages = 1..N /\ DOMAIN order = 1..N
  BY <1>1, DocumentIs, SeqIs DEF Sound
<1>3. \A i \in 1..N : order[i] \in 0..(N - 1) /\ to[i] = order[i] + 1 /\ to[i] \in 1..N /\ d.pages[to[i]] \in Page
  BY <1>1, <1>2, ValidIs
<1>4. \A k \in 1..N : \E i \in 1..N : to[i] = k
  <2> SUFFICES ASSUME NEW k \in 1..N PROVE \E i \in 1..N : to[i] = k
    OBVIOUS
  <2>1. k - 1 \in 0..(N - 1)
    BY <1>2
  <2>2. PICK i \in DOMAIN order : order[i] = k - 1
    BY <1>1, <2>1 DEF ToSet
  <2>3. to[i] = k
    BY <1>2, <2>2
  <2> QED
    BY <1>2, <2>3
<1>5. f = [i \in 1..N |-> d.pages[to[i]]]
  BY <1>2, <1>3
<1>6. DOMAIN to = 1..N
  OBVIOUS
<1> HIDE DEF to, N
<1>7. \A i, j \in 1..N : to[i] = to[j] => i = j
  <2>1. IsFiniteSet(1..N) /\ to \in [1..N -> 1..N]
    <3>1. to = [i \in 1..N |-> to[i]]
      BY DEF to
    <3> QED
      BY <1>2, <1>3, <3>1, PlacesAre
  <2>2. to \in Surjection(1..N, 1..N)
    BY <1>4, <2>1 DEF Surjection
  <2>3. to \in Injection(1..N, 1..N)
    BY <2>1, <2>2, FS_Surjection
  <2> QED
    BY <2>1, <2>3 DEF Injection, IsInjective
<1>8. f \in Seq(Page) /\ DOMAIN f = 1..N
  BY <1>2, <1>3, <1>5, MapSeq
<1>9. Saved(e).pages = f
  BY <1>1, <1>8, Copied, SavedIs
<1> HIDE DEF f, e
<1>10. Range(f) = Range(d.pages)
  <2>1. \A i \in 1..N : to[i] \in 1..N /\ f[i] = d.pages[to[i]]
    BY <1>3, <1>5
  <2>2. Range(f) = {f[i] : i \in 1..N} /\ Range(d.pages) = {d.pages[k] : k \in 1..N}
    BY <1>2, <1>8 DEF Range
  <2>3. \A i \in 1..N : f[i] \in {d.pages[k] : k \in 1..N}
    BY <2>1
  <2>4. ASSUME NEW k \in 1..N PROVE d.pages[k] \in {f[i] : i \in 1..N}
    <3>1. PICK i \in 1..N : to[i] = k
      BY <1>4
    <3>2. f[i] = d.pages[k]
      BY <2>1, <3>1
    <3> QED
      BY <3>2
  <2>5. {f[i] : i \in 1..N} \subseteq {d.pages[k] : k \in 1..N}
    BY <2>3
  <2>6. {d.pages[k] : k \in 1..N} \subseteq {f[i] : i \in 1..N}
    BY <2>4
  <2> QED
    BY <2>2, <2>5, <2>6
<1>11. \A pg : Cardinality(At(f, pg)) = Cardinality(At(d.pages, pg))
  <2> SUFFICES ASSUME NEW pg PROVE Cardinality(At(f, pg)) = Cardinality(At(d.pages, pg))
    OBVIOUS
  <2> DEFINE A == At(f, pg)
             B == At(d.pages, pg)
             g == [i \in A |-> to[i]]
  <2>1. \A i : i \in A <=> i \in 1..N /\ d.pages[to[i]] = pg
    BY <1>5, <1>8
  <2>2. \A i : i \in B <=> i \in 1..N /\ d.pages[i] = pg
    BY <1>2
  <2>3. IsFiniteSet(A)
    <3>1. A \subseteq 1..N
      BY <2>1
    <3> QED
      BY <1>2, <3>1, PlacesAre, FS_Subset
  <2> HIDE DEF A, B
  <2>4. g \in [A -> B]
    BY <1>3, <2>1, <2>2
  <2>5. g \in Injection(A, B)
    BY <1>7, <2>1, <2>4 DEF Injection, IsInjective
  <2>6. g \in Surjection(A, B)
    <3> SUFFICES ASSUME NEW b \in B PROVE \E a \in A : g[a] = b
      BY <2>4 DEF Surjection
    <3>1. PICK i \in 1..N : to[i] = b
      BY <1>4, <2>2
    <3>2. i \in A
      BY <2>1, <2>2, <3>1
    <3> QED
      BY <3>1, <3>2
  <2>7. ExistsBijection(A, B)
    BY <2>5, <2>6 DEF ExistsBijection, Bijection
  <2> QED
    BY <2>3, <2>7, FS_Bijection DEF A, B
<1>12. ToBag(f) = ToBag(d.pages)
  BY <1>10, <1>11 DEF ToBag
<1> QED
  BY <1>1, <1>9, <1>12

\* Once everything that was found is named, nothing is found.
LEMMA RedactClears ==
  ASSUME NEW d, Sound(d), NEW reds, DetectPii(d) \subseteq reds, RedactContent(d, reds) # Refused
  PROVE  DetectPii(RedactContent(d, reds)) = {}
<1> DEFINE what(i) == {r.what : r \in {x \in reds : x.page = i - 1}}
           f == [i \in DOMAIN d.pages |-> Without(d.pages[i], what(i))]
           e == Saved([d EXCEPT !.pages = f])
<1>1. RedactContent(d, reds) = e
  BY DEF RedactContent
<1>2. f \in [DOMAIN d.pages -> Page] /\ \A i \in DOMAIN d.pages : f[i].ink = d.pages[i].ink \ what(i)
  <2>1. \A i \in DOMAIN d.pages : d.pages[i] \in Page
    BY PagesAre
  <2> HIDE DEF what
  <2>2. \A i \in DOMAIN d.pages : Without(d.pages[i], what(i)) \in Page
                                  /\ Without(d.pages[i], what(i)).ink = d.pages[i].ink \ what(i)
    BY <2>1, PageIs
  <2> QED
    BY <2>2
<1> HIDE DEF f
<1>3. e.pages = f /\ DOMAIN f = DOMAIN d.pages
  BY <1>1, <1>2, MarkedAnswers
<1>4. \A i \in DOMAIN d.pages : "ssn" \in d.pages[i].ink => "ssn" \in what(i)
  <2> SUFFICES ASSUME NEW i \in DOMAIN d.pages, "ssn" \in d.pages[i].ink PROVE "ssn" \in what(i)
    OBVIOUS
  <2> DEFINE r == [page |-> i - 1, what |-> "ssn"]
  <2>1. r \in reds
    BY DEF DetectPii
  <2>2. r.page = i - 1 /\ r.what = "ssn"
    OBVIOUS
  <2> QED
    BY <2>1, <2>2
<1> HIDE DEF e, what
<1>5. \A i \in DOMAIN e.pages : "ssn" \notin e.pages[i].ink
  BY <1>2, <1>3, <1>4
<1> QED
  BY <1>1, <1>5 DEF DetectPii

\* A list of page numbers means the same pages to the client and to the loops of
\* delete_pages() and reorder_pages(), whose page numbers shift while they work, and
\* redact_content() of all that detect_pii() reports leaves it nothing to report.
THEOREM RequestsAreExact == Spec => RequestIsExact
<1> DEFINE Exact == answer'.ok =>
             /\ answer'.op = "delete" /\ IsInjective(answer'.with) => doc'.pages = Kept(answer'.with)
             /\ answer'.op = "reorder" => ToBag(doc'.pages) = ToBag(doc.pages)
             /\ answer'.op = "redact" /\ DetectPii(doc) \subseteq answer'.with => DetectPii(doc') = {}
<1>1. ASSUME IInv, Next, answer'.ok, answer'.op = "delete", IsInjective(answer'.with)
      PROVE  doc'.pages = Kept(answer'.with)
  <2>1. PICK ps \in Lists : Reply("delete", ps, DeletePages(doc, ps))
    BY <1>1, AnswerIsOf DEF Delete
  <2>2. Sound(doc) /\ ps \in Seq(Int)
    BY <1>1, Holding, RequestAssumption
  <2>3. DeletePages(doc, ps) # Refused /\ doc' = DeletePages(doc, ps) /\ answer'.with = ps
    BY <1>1, <2>1, ReplyIs
  <2>4. ValidPages(doc, ps)
    BY <2>3 DEF DeletePages
  <2>5. doc'.pages = Pick(doc.pages, {i \in DOMAIN doc.pages : ~Contains(ps, i - 1)})
    BY <1>1, <2>2, <2>3, <2>4, DeleteKeeps
  <2> QED
    BY <2>3, <2>5 DEF Kept, Pick, Kth, Less
<1>2. ASSUME IInv, Next, answer'.ok, answer'.op = "reorder"
      PROVE  ToBag(doc'.pages) = ToBag(doc.pages)
  <2>1. PICK order \in Lists : Reply("reorder", order, ReorderPages(doc, order))
    BY <1>2, AnswerIsOf DEF Reorder
  <2>2. Sound(doc) /\ order \in Seq(Int)
    BY <1>2, Holding, RequestAssumption
  <2>3. ReorderPages(doc, order) # Refused /\ doc' = ReorderPages(doc, order)
    BY <1>2, <2>1, ReplyIs
  <2> QED
    BY <2>2, <2>3, ReorderKeeps
<1>3. ASSUME IInv, Next, answer'.ok, answer'.op = "redact", DetectPii(doc) \subseteq answer'.with
      PROVE  DetectPii(doc') = {}
  <2>1. PICK reds \in SUBSET [page : 0..MaxPages, what : {"ssn"}] :
          Reply("redact", reds, RedactContent(doc, reds))
    BY <1>3, AnswerIsOf DEF Redact
  <2>2. RedactContent(doc, reds) # Refused /\ doc' = RedactContent(doc, reds) /\ answer'.with = reds
    BY <1>3, <2>1, ReplyIs
  <2>3. Sound(doc) /\ DetectPii(doc) \subseteq reds
    BY <1>3, <2>2, Holding
  <2> QED
    BY <2>2, <2>3, RedactClears
<1>4. IInv /\ [Next]_vars => [Exact]_vars
  <2>1. IInv /\ Next => Exact
    BY <1>1, <1>2, <1>3
  <2> HIDE DEF Exact
  <2> QED
    BY <2>1
<1> QED
  BY <1>4, Inductive, PTL DEF Spec, RequestIsExact

-----------------------------------------------------------------------------
(* What a build makes of its sources *)

\* A mark that is drawn burns the page whose number, counted from 1, it has.
LEMMA FlattenIs ==
  ASSUME NEW d, Sound(d), Readable(d), NumPages(d) # 0,
         NEW annots \in SUBSET [page_number : Int, drawn : BOOLEAN]
  PROVE  LET e == FlattenAnnotations(d, annots) IN
         /\ e # Refused /\ DOMAIN e.pages = DOMAIN d.pages
         /\ \A i \in DOMAIN d.pages :
              /\ e.pages[i].of = d.pages[i].of
              /\ "burn" \in e.pages[i].ink <=>
                   "burn" \in d.pages[i].ink \/ [page_number |-> i, drawn |-> TRUE] \in annots
<1> DEFINE Drawn(i) == \E a \in annots : a.page_number - 1 = i - 1 /\ a.drawn
           f == [i \in DOMAIN d.pages |-> IF Drawn(i) THEN Inked(d.pages[i], "burn") ELSE d.pages[i]]
           e == Saved([d EXCEPT !.pages = f])
<1>0. FlattenAnnotations(d, annots) = e
  BY DEF FlattenAnnotations
<1>1. \A i \in DOMAIN d.pages : Drawn(i) <=> [page_number |-> i, drawn |-> TRUE] \in annots
  <2> SUFFICES ASSUME NEW i \in DOMAIN d.pages
               PROVE  Drawn(i) <=> [page_number |-> i, drawn |-> TRUE] \in annots
    OBVIOUS
  <2>1. i \in Int
    BY DocumentIs DEF Sound
  <2>2. ASSUME NEW a \in annots, a.page_number - 1 = i - 1, a.drawn
        PROVE  a = [page_number |-> i, drawn |-> TRUE]
    <3>1. a = [page_number |-> a.page_number, drawn |-> a.drawn] /\ a.page_number \in Int /\ a.drawn \in BOOLEAN
      OBVIOUS
    <3>2. a.page_number = i /\ a.drawn = TRUE
      BY <2>1, <2>2, <3>1
    <3> QED
      BY <3>1, <3>2
  <2>3. ASSUME [page_number |-> i, drawn |-> TRUE] \in annots PROVE Drawn(i)
    BY <2>3
  <2> QED
    BY <2>2, <2>3
<1> HIDE DEF Drawn
<1>2. \A i \in DOMAIN d.pages :
        /\ f[i] \in Page /\ f[i].of = d.pages[i].of
        /\ f[i].ink = IF Drawn(i) THEN d.pages[i].ink \cup {"burn"} ELSE d.pages[i].ink
  <2>1. \A i \in DOMAIN d.pages : d.pages[i] \in Page
    BY PagesAre
  <2>2. "burn" \in Ink
    BY DEF Ink
  <2>3. \A pg \in Page : /\ Inked(pg, "burn") \in Page /\ Inked(pg, "burn").of = pg.of
                         /\ Inked(pg, "burn").ink = pg.ink \cup {"burn"}
    BY <2>2, PageIs
  <2> QED
    BY <2>1, <2>3
<1>3. f \in [DOMAIN d.pages -> Page]
  BY <1>2
<1> HIDE DEF f
<1>4. e # Refused /\ e.pages = f /\ DOMAIN f = DOMAIN d.pages
  BY <1>3, MarkedAnswers
<1> HIDE DEF e
<1> QED
  BY <1>0, <1>1, <1>2, <1>4

\* The page a client means by the k-th of a build's pages.
PageMeant(s, t, k) ==
  IF k <= Len(PageSpecs(s)) THEN s.of.pages[PageSpecs(s)[k].page + 1]
  ELSE t.of.pages[PageSpecs(t)[k - Len(PageSpecs(s))].page + 1]

\* A merge has the pages that its sources name, in their order.
LEMMA MergeKeeps ==
  ASSUME NEW s, NEW t, SourceFits(s), SourceFits(t), MergePdfs(<<s, t>>) # Refused
  PROVE  LET e == MergePdfs(<<s, t>>) IN
         /\ Sound(e) /\ Readable(e) /\ NumPages(e) # 0
         /\ NumPages(e) = Len(PageSpecs(s)) + Len(PageSpecs(t))
         /\ \A k \in 1..NumPages(e) :
              e.pages[k].of = PageMeant(s, t, k).of /\ e.pages[k].ink = PageMeant(s, t, k).ink
<1> DEFINE all == Copies(s) \o Copies(t)
           c == [Refused EXCEPT !.pages = all]
           e == MergePdfs(<<s, t>>)
           a == Len(PageSpecs(s))
           b == Len(PageSpecs(t))
<1>1. SourceValid(s) /\ SourceValid(t) /\ e = Saved(c) /\ all \in Seq(Page)
  BY MergeIs
<1>2. /\ Copies(s) \in Seq(Page) /\ Len(Copies(s)) = a /\ a \in Nat /\ DOMAIN PageSpecs(s) = 1..a
      /\ \A i \in DOMAIN PageSpecs(s) :
           LET pg == s.of.pages[PageSpecs(s)[i].page + 1] IN
           Copies(s)[i].of = pg.of /\ Copies(s)[i].ink = pg.ink
  BY <1>1, CopiesAre
<1>3. /\ Copies(t) \in Seq(Page) /\ Len(Copies(t)) = b /\ b \in Nat /\ DOMAIN PageSpecs(t) = 1..b
      /\ \A i \in DOMAIN PageSpecs(t) :
           LET pg == t.of.pages[PageSpecs(t)[i].page + 1] IN
           Copies(t)[i].of = pg.of /\ Copies(t)[i].ink = pg.ink
  BY <1>1, CopiesAre
<1>4. /\ Len(all) = a + b
      /\ \A k \in 1..(a + b) : all[k] = IF k <= a THEN Copies(s)[k] ELSE Copies(t)[k - a]
  <2>1. /\ Len(Copies(s) \o Copies(t)) = Len(Copies(s)) + Len(Copies(t))
        /\ \A k \in 1..(Len(Copies(s)) + Len(Copies(t))) : (Copies(s) \o Copies(t))[k] =
             IF k <= Len(Copies(s)) THEN Copies(s)[k] ELSE Copies(t)[k - Len(Copies(s))]
    <3>1. \A x, y \in Seq(Page) :
            /\ Len(x \o y) = Len(x) + Len(y)
            /\ \A k \in 1..(Len(x) + Len(y)) : (x \o y)[k] = IF k <= Len(x) THEN x[k] ELSE y[k - Len(x)]
      BY ConcatProperties
    <3>2. Copies(s) \in Seq(Page) /\ Copies(t) \in Seq(Page)
      BY <1>2, <1>3
    <3> QED
      BY <3>1, <3>2
  <2> HIDE DEF a, b
  <2> QED
    BY <1>2, <1>3, <2>1
<1> HIDE DEF all
<1>5. Sound(c) /\ c.pages = all /\ NumPages(c) = a + b
  BY <1>1, <1>4, Copied DEF NumPages
<1> HIDE DEF c
<1>6. e.pages = all /\ e.lock = "open" /\ Answered(e) /\ NumPages(c) # 0 /\ NumPages(e) = a + b
  BY <1>1, <1>4, <1>5, SavedIs DEF NumPages
<1>7. Sound(e) /\ Readable(e) /\ NumPages(e) # 0
  BY <1>5, <1>6 DEF Answered, Readable
<1> HIDE DEF e, a, b
<1>8. ASSUME NEW k \in 1..(a + b)
      PROVE  all[k].of = PageMeant(s, t, k).of /\ all[k].ink = PageMeant(s, t, k).ink
  <2>1. CASE k <= a
    <3>1. k \in DOMAIN PageSpecs(s) /\ all[k] = Copies(s)[k]
      BY <1>2, <1>3, <1>4, <2>1
    <3>2. PageMeant(s, t, k) = s.of.pages[PageSpecs(s)[k].page + 1]
      BY <2>1 DEF PageMeant, a
    <3> QED
      BY <1>2, <3>1, <3>2
  <2>2. CASE ~(k <= a)
    <3>1. k - a \in DOMAIN PageSpecs(t) /\ all[k] = Copies(t)[k - a]
      BY <1>2, <1>3, <1>4, <2>2
    <3>2. PageMeant(s, t, k) = t.of.pages[PageSpecs(t)[k - a].page + 1]
      BY <2>2 DEF PageMeant, a
    <3> QED
      BY <1>3, <3>1, <3>2
  <2> QED
    BY <2>1, <2>2
<1> QED
  BY <1>6, <1>7, <1>8 DEF e, a, b

\* A built document has the pages that are meant, burned where they should be, and its
\* bookmarks lead to the pages they name.
BuiltAsMeant(e, s, t, annots, flatten, entries) ==
  /\ NumPages(e) = Len(PageSpecs(s)) + Len(PageSpecs(t))
  /\ \A k \in 1..NumPages(e) :
       /\ e.pages[k].of = PageMeant(s, t, k).of
       /\ "burn" \in e.pages[k].ink
            <=> "burn" \in PageMeant(s, t, k).ink \/ (flatten /\ [page_number |-> k, drawn |-> TRUE] \in annots)
  /\ \A i \in DOMAIN entries : LET leads == e.pages[e.outline[i].page + 1].of IN
       /\ entries[i].page < NumPages(e) => leads = PageMeant(s, t, entries[i].page + 1).of
       /\ ~(entries[i].page < NumPages(e)) => i = Len(entries) /\ leads = PageMeant(s, t, NumPages(e)).of

LEMMA BuildKeeps ==
  ASSUME NEW s, NEW t, SourceFits(s), SourceFits(t), NEW entries \in Seq(Asked),
         NEW annots \in SUBSET [page_number : Int, drawn : BOOLEAN], NEW flatten \in BOOLEAN,
         BuildPdf(<<s, t>>, annots, flatten, entries) # Refused
  PROVE  BuiltAsMeant(BuildPdf(<<s, t>>, annots, flatten, entries), s, t, annots, flatten, entries)
<1> DEFINE merged == MergePdfs(<<s, t>>)
           burned == IF flatten /\ annots # {} THEN FlattenAnnotations(merged, annots) ELSE merged
           e == BuildPdf(<<s, t>>, annots, flatten, entries)
           n == Len(PageSpecs(s)) + Len(PageSpecs(t))
<1>1. /\ merged # Refused
      /\ e = IF entries # <<>> THEN AddBookmarks(burned, entries) ELSE burned
  BY DEF BuildPdf
<1>2. /\ Sound(merged) /\ Readable(merged) /\ NumPages(merged) # 0 /\ NumPages(merged) = n
      /\ \A k \in 1..n : merged.pages[k].of = PageMeant(s, t, k).of /\ merged.pages[k].ink = PageMeant(s, t, k).ink
  BY <1>1, MergeKeeps
<1> HIDE DEF merged, e, n
<1>3. DOMAIN merged.pages = 1..n /\ n \in Nat
  BY <1>2, DocumentIs DEF Sound
<1>4. /\ burned # Refused /\ DOMAIN burned.pages = 1..n /\ Sound(burned)
      /\ \A k \in 1..n :
           /\ burned.pages[k].of = PageMeant(s, t, k).of
           /\ "burn" \in burned.pages[k].ink
                <=> "burn" \in PageMeant(s, t, k).ink \/ (flatten /\ [page_number |-> k, drawn |-> TRUE] \in annots)
  <2>1. CASE ~(flatten /\ annots # {})
    <3>1. burned = merged /\ \A k \in 1..n : ~(flatten /\ [page_number |-> k, drawn |-> TRUE] \in annots)
      BY <2>1
    <3> HIDE DEF burned
    <3> QED
      BY <1>1, <1>2, <1>3, <3>1
  <2>2. CASE flatten /\ annots # {}
    <3>1. burned = FlattenAnnotations(merged, annots)
      BY <2>2
    <3> HIDE DEF burned
    <3>2. /\ burned # Refused /\ DOMAIN burned.pages = DOMAIN merged.pages
          /\ \A i \in DOMAIN merged.pages :
               /\ burned.pages[i].of = merged.pages[i].of
               /\ "burn" \in burned.pages[i].ink <=>
                    "burn" \in merged.pages[i].ink \/ [page_number |-> i, drawn |-> TRUE] \in annots
      BY <1>2, <3>1, FlattenIs
    <3>3. Sound(burned)
      BY <1>2, <3>1, FlattenAnswers DEF Answered
    <3> QED
      BY <1>2, <1>3, <2>2, <3>2, <3>3
  <2> QED
    BY <2>1, <2>2
<1> HIDE DEF burned
<1>5. NumPages(burned) = n
  <2>1. DOMAIN burned.pages = 1..NumPages(burned) /\ NumPages(burned) \in Nat
    BY <1>4, DocumentIs DEF Sound
  <2>2. \A x, y \in Nat : 1..x = 1..y => x = y
    OBVIOUS
  <2> QED
    BY <1>3, <1>4, <2>1, <2>2
<1>6. /\ e.pages = burned.pages
      /\ \A i \in DOMAIN entries :
           /\ entries[i].page \in Nat
           /\ entries[i].page < n => e.outline[i] = entries[i]
           /\ ~(entries[i].page < n) => i = Len(entries) /\ e.outline[i].page = n - 1
  <2>1. CASE entries = <<>>
    BY <1>1, <2>1
  <2>2. CASE entries # <<>>
    <3>1. e = AddBookmarks(burned, entries) /\ e # Refused
      BY <1>1, <2>2 DEF e
    <3>2. \A i \in DOMAIN entries : entries[i].page \in Nat
      <4>1. \A i \in DOMAIN entries : entries[i] \in Asked
        BY SeqIs
      <4> QED
        BY <4>1 DEF Asked
    <3> QED
      BY <1>4, <1>5, <3>1, <3>2, BookmarksAre
  <2> QED
    BY <2>1, <2>2
<1>7. NumPages(e) = n /\ n # 0
  BY <1>2, <1>5, <1>6 DEF NumPages
<1>8. ASSUME NEW i \in DOMAIN entries
      PROVE  LET leads == e.pages[e.outline[i].page + 1].of IN
             /\ entries[i].page < n => leads = PageMeant(s, t, entries[i].page + 1).of
             /\ ~(entries[i].page < n) => i = Len(entries) /\ leads = PageMeant(s, t, n).of
  <2>1. \A k \in 1..n : e.pages[k].of = PageMeant(s, t, k).of
    BY <1>4, <1>6
  <2>2. CASE entries[i].page < n
    <3>1. entries[i].page + 1 \in 1..n /\ e.outline[i].page = entries[i].page
      BY <1>3, <1>6, <2>2
    <3> QED
      BY <2>1, <2>2, <3>1
  <2>3. CASE ~(entries[i].page < n)
    <3>1. i = Len(entries) /\ e.outline[i].page + 1 = n /\ n \in 1..n
      BY <1>3, <1>6, <1>7, <2>3
    <3> QED
      BY <2>1, <2>3, <3>1
  <2> QED
    BY <2>2, <2>3
<1> QED
  BY <1>4, <1>6, <1>7, <1>8 DEF e, n, BuiltAsMeant

\* build_pdf() counts annotations from 1 and bookmarks from 0, both over the pages of the
\* merged document: what is burned, and where a bookmark leads, is what the client
\* meant, and a last bookmark past the end leads to the last page.
THEOREM BuildsAreExact == Spec => BuildIsExact
<1> DEFINE Exact == answer'.op = "build" /\ answer'.ok =>
             LET s == answer'.with[1]  t == answer'.with[2]
                 annots == answer'.with[3]  flatten == answer'.with[4]  entries == answer'.with[5]
                 first == PageSpecs(s)  second == PageSpecs(t)  built == Len(first) + Len(second)
                 Meant(k) == IF k <= Len(first) THEN s.of.pages[first[k].page + 1]
                             ELSE t.of.pages[second[k - Len(first)].page + 1]
                 leads(i) == doc'.pages[doc'.outline[i].page + 1].of IN
             /\ NumPages(doc') = built
             /\ \A k \in 1..built :
                  /\ doc'.pages[k].of = Meant(k).of
                  /\ "burn" \in doc'.pages[k].ink
                       <=> "burn" \in Meant(k).ink \/ (flatten /\ [page_number |-> k, drawn |-> TRUE] \in annots)
             /\ \A i \in DOMAIN entries :
                  IF entries[i].page < built THEN leads(i) = Meant(entries[i].page + 1).of
                  ELSE i = Len(entries) /\ leads(i) = Meant(built).of
<1>1. ASSUME IInv, Next, answer'.op = "build", answer'.ok PROVE Exact
  <2>1. PICK s \in FirstSource, t \in SecondSource, annots \in Annots, flatten \in BOOLEAN, entries \in Entries :
          Reply("build", <<s, t, annots, flatten, entries>>, BuildPdf(<<s, t>>, annots, flatten, entries))
    BY <1>1, AnswerIsOf DEF Build
  <2> DEFINE e == BuildPdf(<<s, t>>, annots, flatten, entries)
  <2>2. e # Refused /\ doc' = e /\ answer'.with = <<s, t, annots, flatten, entries>>
    BY <1>1, <2>1, ReplyIs
  <2>3. SourceFits(s) /\ SourceFits(t) /\ entries \in Seq(Asked)
    BY <1>1, SourcesFit, EntriesAre
  <2>4. annots \in SUBSET [page_number : Int, drawn : BOOLEAN]
    <3>1. MaxPages + 1 \in Int
      BY RequestAssumption
    <3>2. \A k \in Int, drawn \in BOOLEAN :
            {[page_number |-> k, drawn |-> drawn]} \in SUBSET [page_number : Int, drawn : BOOLEAN]
      OBVIOUS
    <3>3. \/ annots = {}
          \/ \E k \in {1, 2, MaxPages + 1} : annots = {[page_number |-> k, drawn |-> TRUE]}
          \/ annots = {[page_number |-> 1, drawn |-> FALSE]}
      BY DEF Annots
    <3>4. {1, 2, MaxPages + 1} \subseteq Int /\ TRUE \in BOOLEAN /\ FALSE \in BOOLEAN
      BY <3>1
    <3>5. CASE annots = {}
      BY <3>5
    <3>6. ASSUME NEW k \in {1, 2, MaxPages + 1}, annots = {[page_number |-> k, drawn |-> TRUE]}
          PROVE  annots \in SUBSET [page_number : Int, drawn : BOOLEAN]
      <4>1. k \in Int
        BY <3>4
      <4> QED
        BY <3>2, <3>6, <4>1
    <3>7. CASE annots = {[page_number |-> 1, drawn |-> FALSE]}
      BY <3>2, <3>4, <3>7
    <3> QED
      BY <3>3, <3>5, <3>6, <3>7
  <2>5. BuiltAsMeant(e, s, t, annots, flatten, entries)
    <3>1. BuildPdf(<<s, t>>, annots, flatten, entries) # Refused
      BY <2>2
    <3> QED
      BY <2>3, <2>4, <3>1, BuildKeeps
  <2> HIDE DEF e
  <2>6. /\ answer'.with[1] = s /\ answer'.with[2] = t /\ answer'.with[3] = annots
        /\ answer'.with[4] = flatten /\ answer'.with[5] = entries
    BY <2>2
  <2>7. BuiltAsMeant(doc', answer'.with[1], answer'.with[2], answer'.with[3], answer'.with[4], answer'.with[5])
    BY <2>2, <2>5, <2>6
  <2> QED
    BY <2>7 DEF PageMeant, BuiltAsMeant
<1>2. IInv /\ [Next]_vars => [Exact]_vars
  <2>1. ~(answer'.op = "build" /\ answer'.ok) => Exact
    OBVIOUS
  <2> HIDE DEF Exact
  <2> QED
    BY <1>1, <2>1
<1> QED
  BY <1>2, Inductive, PTL DEF Spec, BuildIsExact

=============================================================================
