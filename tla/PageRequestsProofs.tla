------------------------- MODULE PageRequestsProofs -------------------------
(* Theorems about PageRequests: for any documents, pages, workers and limits,  *)
(* what a table, orientation or OCR request is answered at its deadline or     *)
(* before it, what the table report may claim, and how often the fallback is   *)
(* used.                                                                       *)
EXTENDS PageRequests, FiniteSetTheorems, SequenceTheorems, WellFoundedInduction, TLAPS

-----------------------------------------------------------------------------
(* The strengthening *)

\* The results of a table page, and those of the other operations.
Source == {"native_pdf", "rapidtable", "docling_tableformer"}
Reason ==
  {"none", "native_table_recognition_failed", "blank_page", "native_table_not_resolved",
   "no_ruled_table_region", "table_region_failed", "table_region_unresolved",
   "fallback_invalid_table_structure", "fallback_no_table_structure", "fallback_failed",
   "fallback_page_limit"}
TableReport ==
  [tables : SUBSET {"native", "image", "docling"}, source : Source,
   status : TableStatus, reason : Reason]

Holds(w, p) == at[w] # Idle /\ at[w].page = p

TypesFit ==
  /\ request \in Requests /\ print \in Documents[request.operation]
  /\ thread \in {"opening", "queueing", "waiting", "expired", "over"}
  /\ units \in Seq(Range(request.pages))
  /\ at = [w \in Worker |-> at[w]] /\ done = [p \in Page |-> done[p]]
  /\ error \in {"none", "unsupported_language", "configuration", "timeout"}
  /\ settled \in BOOLEAN

\* Before the thread queues the pages nothing has been read.
NothingEarly ==
  thread \in {"opening", "queueing"} =>
    /\ units = <<>> /\ error = "none" /\ ~settled /\ converted = {}
    /\ \A w \in Worker : at[w] = Idle
    /\ \A p \in Page : done[p] = Unread

\* While no page has failed, each page asked for is in line, with a worker or read; when
\* the job is settled nothing is with a worker.
NothingLost ==
  /\ thread \in {"waiting", "expired"} /\ error = "none" =>
       \A i \in DOMAIN Targets :
         \/ Targets[i] \in Range(units)
         \/ \E w \in Worker : Holds(w, Targets[i])
         \/ done[Targets[i]] # Unread
  /\ settled => units = <<>> /\ \A w \in Worker : at[w] = Idle

AnswerFits == answer.kind # "none" <=> thread = "over"

\* A page of a table request is at one place, and has passed to the fallback once.
OnePlace ==
  request.operation = "tables" =>
    /\ IsInjective(units)
    /\ \A w \in Worker : at[w] # Idle => at[w].page \notin Range(units)
    /\ \A v, w \in Worker : at[v] # Idle /\ at[w] # Idle /\ at[v].page = at[w].page => v = w
    /\ converted \cap Range(units) = {}
    /\ \A w \in Worker : at[w] # Idle =>
         (at[w].page \in converted <=> at[w].stage = "converting")

ClaimsFit ==
  /\ IsFiniteSet(converted) /\ claims = Cardinality(converted) /\ claims <= MaxFallback
  /\ converted # {} => Docling /\ request.strategy = "auto"

\* What a reader has found of a page before the fallback: not all, but what it resolved.
FoundFits(page, result) ==
  /\ result \in TableReport /\ result.status \in {"unsupported", "failed"}
  /\ result.reason # "fallback_page_limit"
  /\ Resolved(page) # {} => result.tables # {}

WorkersFit ==
  \A w \in Worker : at[w] # Idle =>
    /\ at[w] = [page |-> at[w].page, stage |-> at[w].stage, found |-> at[w].found]
    /\ at[w].page \in Range(request.pages)
    /\ at[w].stage \in {"reading", "claiming", "converting"}
    /\ at[w].stage # "reading" =>
         /\ request.operation = "tables" /\ Docling /\ request.strategy = "auto"
         /\ FoundFits(print[at[w].page], at[w].found)

\* What is recorded of a table page.
HonestResult(p, result) ==
  LET page == print[p] IN
  /\ result \in TableReport
  /\ result.status = "empty" => page.ink = "blank"
  /\ request.strategy = "auto" /\ Resolved(page) # {} => result.tables # {}
  /\ result.status = "complete" =>
       /\ result.tables # {}
       /\ result.source = "rapidtable" => \A r \in page.regions : RegionOutcome(r) = "resolved"
       /\ result.source = "docling_tableformer" => page.docling = "complete" /\ p \in converted
  /\ result.reason = "fallback_page_limit" => claims = MaxFallback

ResultsFit == request.operation = "tables" => \A p \in Page : done[p] # Unread => HonestResult(p, done[p])

IInv ==
  /\ TypesFit /\ NothingEarly /\ NothingLost /\ AnswerFits
  /\ OnePlace /\ ClaimsFit /\ WorkersFit /\ ResultsFit

-----------------------------------------------------------------------------
(* The pages a request asks for *)

\* Every number below the size of a finite set of numbers counts those below one of them.
LEMMA RanksReach ==
  ASSUME NEW m \in Nat, NEW I \in SUBSET (1..m), NEW n \in 1..Cardinality(I)
  PROVE  /\ IsFiniteSet(I) /\ Cardinality(I) \in Nat
         /\ \E i \in I : Cardinality({k \in I : k < i}) = n - 1
<1> DEFINE c == Cardinality(I)
           Below(i) == {k \in I : k < i}
           rank == [i \in I |-> Cardinality(Below(i))]
<1>1. IsFiniteSet(I) /\ c \in Nat
  <2>1. IsFiniteSet(1..m)
    BY FS_Interval
  <2> QED
    BY <2>1, FS_Subset, FS_CardinalityType
<1>2. \A i \in I : i \in 1..m
  OBVIOUS
<1>3. ASSUME NEW i \in I
      PROVE  Cardinality(Below(i)) \in 0..(c - 1) /\ IsFiniteSet(Below(i))
  <2>1. Below(i) \in SUBSET I /\ Below(i) # I
    BY <1>2
  <2>2. IsFiniteSet(Below(i)) /\ Cardinality(Below(i)) \in Nat /\ Cardinality(Below(i)) <= c
        /\ Cardinality(Below(i)) # c
    <3> HIDE DEF Below
    <3> QED
      BY <1>1, <2>1, FS_Subset, FS_CardinalityType
  <2> QED
    BY <1>1, <2>2
<1>4. ASSUME NEW i \in I, NEW k \in I, i < k
      PROVE  rank[i] # rank[k]
  <2>0. i \in Int /\ k \in Int /\ \A n1 \in I : n1 \in Int
    BY <1>2
  <2>1. Below(i) \in SUBSET Below(k) /\ Below(i) # Below(k)
    <3>1. i \in Below(k) /\ i \notin Below(i)
      BY <1>4, <2>0
    <3>2. \A n1 \in I : n1 < i => n1 < k
      BY <1>4, <2>0
    <3> QED
      BY <3>1, <3>2
  <2>2. Cardinality(Below(i)) # Cardinality(Below(k))
    <3> HIDE DEF Below
    <3> QED
      BY <1>3, <2>1, FS_Subset
  <2> QED
    BY <2>2
<1>5. rank \in Injection(I, 0..(c - 1))
  <2>1. rank \in [I -> 0..(c - 1)]
    BY <1>3
  <2>2. \A i, k \in I : rank[i] = rank[k] => i = k
    <3> HIDE DEF rank
    <3> QED
      BY <1>2, <1>4
  <2> HIDE DEF rank
  <2> QED
    BY <2>1, <2>2 DEF Injection, IsInjective
<1>6. IsFiniteSet(0..(c - 1)) /\ Cardinality(0..(c - 1)) = c
  <2> HIDE DEF c
  <2>1. c - 1 \in Int /\ 0 \in Int
    BY <1>1
  <2>2. /\ IsFiniteSet(0..(c - 1))
        /\ Cardinality(0..(c - 1)) = IF 0 > c - 1 THEN 0 ELSE (c - 1) - 0 + 1
    BY <2>1, FS_Interval
  <2> QED
    BY <1>1, <2>2
<1>7. rank \in Surjection(I, 0..(c - 1))
  <2> HIDE DEF rank
  <2> QED
    BY <1>1, <1>5, <1>6, FS_Injection
<1>8. n - 1 \in 0..(c - 1)
  BY <1>1
<1>9. \E i \in I : rank[i] = n - 1
  <2> HIDE DEF rank, c
  <2> QED
    BY <1>7, <1>8 DEF Surjection
<1> QED
  BY <1>1, <1>9

\* What is picked comes from the sequence, and once from each place.
LEMMA PickedIs ==
  ASSUME NEW S, NEW s \in Seq(S), NEW I \in SUBSET (DOMAIN s)
  PROVE  /\ Picked(s, I) \in Seq(Range(s)) /\ DOMAIN Picked(s, I) = 1..Len(Picked(s, I))
         /\ Len(Picked(s, I)) = Cardinality(I)
         /\ (\A i, k \in I : s[i] = s[k] => i = k) => IsInjective(Picked(s, I))
<1> DEFINE place == [n \in 1..Cardinality(I) |->
                       CHOOSE i \in I : Cardinality({k \in I : k < i}) = n - 1]
           t == Picked(s, I)
<1>1. DOMAIN s = 1..Len(s) /\ Len(s) \in Nat
  BY LenProperties
<1>2. \A n \in 1..Cardinality(I) :
        place[n] \in I /\ Cardinality({k \in I : k < place[n]}) = n - 1
  <2> TAKE n \in 1..Cardinality(I)
  <2>1. \E i \in I : Cardinality({k \in I : k < i}) = n - 1
    BY <1>1, RanksReach
  <2> QED
    BY <2>1
<1>3. Cardinality(I) \in Nat
  <2>1. IsFiniteSet(DOMAIN s)
    BY <1>1, FS_Interval
  <2> QED
    BY <2>1, FS_Subset, FS_CardinalityType
<1>4. t = [n \in 1..Cardinality(I) |-> s[place[n]]]
  BY DEF Picked
<1> HIDE DEF t, place
<1>5. t \in [1..Cardinality(I) -> Range(s)]
  BY <1>2, <1>4 DEF Range
<1>6. t \in Seq(Range(s)) /\ Len(t) = Cardinality(I) /\ DOMAIN t = 1..Cardinality(I)
  BY <1>3, <1>5
<1>7. ASSUME \A i, k \in I : s[i] = s[k] => i = k
      PROVE  IsInjective(t)
  <2> SUFFICES ASSUME NEW m \in 1..Cardinality(I), NEW n \in 1..Cardinality(I), t[m] = t[n]
               PROVE  m = n
    BY <1>6 DEF IsInjective
  <2>1. place[m] = place[n]
    BY <1>2, <1>4, <1>7
  <2>2. m - 1 = n - 1
    BY <1>2, <2>1
  <2> QED
    BY <1>3, <2>2
<1> QED
  BY <1>6, <1>7 DEF t

\* The pages of a request are among those it names, and a table request has each once.
LEMMA TargetsAre ==
  ASSUME TypesFit
  PROVE  /\ Targets \in Seq(Range(request.pages)) /\ DOMAIN Targets = 1..Len(Targets)
         /\ Len(Targets) \in Nat /\ Range(request.pages) \subseteq Page
         /\ request.operation = "tables" => IsInjective(Targets)
<1> DEFINE pages == request.pages
           first == {i \in DOMAIN pages : \A k \in DOMAIN pages : k < i => pages[k] # pages[i]}
           scans == {i \in DOMAIN pages : request.force \/ ~print[pages[i]].text}
<1>1. pages \in Seq(Page) /\ DOMAIN pages = 1..Len(pages) /\ Len(pages) \in Nat
      /\ request.operation \in {"tables", "orientation", "ocr"}
  BY RequestAssumption, LenProperties DEF TypesFit
<1>2. Range(pages) \subseteq Page /\ pages \in Seq(Range(pages))
  <2>1. \A i \in 1..Len(pages) : pages[i] \in Page
    BY <1>1, ElementOfSeq
  <2>2. pages \in [1..Len(pages) -> Range(pages)]
    BY <1>1 DEF Range
  <2>3. pages \in Seq(Range(pages))
    BY <1>1, <2>2
  <2>4. Range(pages) = {pages[i] : i \in 1..Len(pages)}
    BY <1>1 DEF Range
  <2> HIDE DEF pages
  <2> QED
    BY <2>1, <2>3, <2>4
<1>3. CASE request.operation = "tables"
  <2>1. Targets = Picked(pages, first)
    BY <1>3 DEF Targets, Distinct
  <2>2. \A i, k \in first : pages[i] = pages[k] => i = k
    BY <1>1
  <2>3. first \in SUBSET DOMAIN pages
    OBVIOUS
  <2> HIDE DEF first, pages
  <2>4. Picked(pages, first) \in Seq(Range(pages)) /\ IsInjective(Picked(pages, first))
    BY <1>1, <2>2, <2>3, PickedIs
  <2> QED
    BY <1>2, <2>1, <2>4, LenProperties DEF pages
<1>4. CASE request.operation = "orientation"
  <2>1. Targets = Picked(pages, scans)
    BY <1>4 DEF Targets
  <2>2. scans \in SUBSET DOMAIN pages
    OBVIOUS
  <2> HIDE DEF scans, pages
  <2>3. Picked(pages, scans) \in Seq(Range(pages))
    BY <1>1, <2>2, PickedIs
  <2> QED
    BY <1>2, <1>4, <2>1, <2>3, LenProperties DEF pages
<1>5. CASE request.operation = "ocr"
  BY <1>1, <1>2, <1>5, LenProperties DEF Targets
<1> QED
  BY <1>1, <1>3, <1>4, <1>5

-----------------------------------------------------------------------------
(* What the readers find *)

LEMMA NotAResult ==
  /\ \A r \in TableReport : r # Unread
  /\ \A p, found : [page |-> p, stage |-> "reading", found |-> found] # Idle
BY DEF TableReport, Unread, Idle

\* A reading that does not go by the fallback.
PlainResult(page, strategy, result) ==
  /\ result \in TableReport
  /\ result.status = "empty" => page.ink = "blank"
  /\ strategy = "auto" /\ Resolved(page) # {} => result.tables # {}
  /\ result.status = "complete" =>
       /\ result.tables # {}
       /\ result.source = "rapidtable" => \A r \in page.regions : RegionOutcome(r) = "resolved"
       /\ result.source # "docling_tableformer"
  /\ result.reason # "fallback_page_limit"

PageFits(page) ==
  /\ page.ink \in {"blank", "plain", "ruled"}
  /\ page.ink = "ruled" <=> page.regions # {}
  /\ page.docling \in {"complete", "invalid", "none", "raises"}

LEMMA NativeIsPlain ==
  ASSUME NEW page, NEW strategy, ReadNative(page, strategy) # Unread
  PROVE  PlainResult(page, strategy, ReadNative(page, strategy))
<1> DEFINE blank == page.ink = "blank"
<1>0. strategy = "pymupdf" \/ (strategy = "auto" /\ page.accepted /\ page.native = "tables")
  BY DEF ReadNative
<1>1. CASE page.native = "tables"
  <2>1. ReadNative(page, strategy) = TableResult({"native"}, "native_pdf", "complete", "none")
    BY <1>0, <1>1 DEF ReadNative
  <2> QED
    BY <2>1 DEF PlainResult, TableStatus, TableResult, TableReport, Source, Reason
<1>2. CASE page.native = "raises"
  <2>1. ReadNative(page, strategy) = TableResult({}, "native_pdf", "failed", "native_table_recognition_failed")
    BY <1>0, <1>2 DEF ReadNative
  <2> QED
    BY <1>0, <1>2, <2>1 DEF PlainResult, TableStatus, TableResult, TableReport, Source, Reason
<1>3. CASE page.native \notin {"tables", "raises"}
  <2>1. ReadNative(page, strategy) =
          TableResult({}, "native_pdf", IF blank THEN "empty" ELSE "unsupported",
                      IF blank THEN "blank_page" ELSE "native_table_not_resolved")
    BY <1>0, <1>3 DEF ReadNative
  <2> QED
    BY <1>0, <1>3, <2>1 DEF PlainResult, TableStatus, TableResult, TableReport, Source, Reason
<1> QED
  BY <1>1, <1>2, <1>3

LEMMA ImageIsPlain ==
  ASSUME NEW page, PageFits(page), NEW strategy, ReadNative(page, strategy) = Unread
  PROVE  PlainResult(page, strategy, ReadImage(page))
<1> DEFINE outcomes == {RegionOutcome(r) : r \in page.regions}
           tables == IF "resolved" \in outcomes THEN {"image"} ELSE {}
<1>0. tables \in SUBSET {"native", "image", "docling"}
  OBVIOUS
<1>1. \A r \in page.regions : RegionOutcome(r) \in {"resolved", "unresolved", "failed"}
  BY DEF RegionOutcome
<1>2. strategy = "auto" /\ Resolved(page) # {} => tables # {}
  <2>1. strategy = "auto" => ~(page.accepted /\ page.native = "tables")
    BY DEF ReadNative, TableResult, Unread
  <2> QED
    BY <2>1 DEF Resolved
<1>3. CASE page.ink = "blank"
  <2>1. ReadImage(page) = TableResult({}, "rapidtable", "empty", "blank_page") /\ tables = {}
    BY <1>3 DEF ReadImage, PageFits
  <2> HIDE DEF tables
  <2> QED
    BY <1>2, <1>3, <2>1 DEF PlainResult, TableStatus, TableResult, TableReport, Source, Reason
<1>4. CASE page.ink = "plain"
  <2>1. ReadImage(page) = TableResult({}, "rapidtable", "unsupported", "no_ruled_table_region") /\ tables = {}
    BY <1>4 DEF ReadImage, PageFits
  <2> HIDE DEF tables
  <2> QED
    BY <1>2, <2>1 DEF PlainResult, TableStatus, TableResult, TableReport, Source, Reason
<1>5. CASE page.ink = "ruled" /\ "failed" \in outcomes
  <2>1. ReadImage(page) = TableResult(tables, "rapidtable", "failed", "table_region_failed")
    BY <1>5 DEF ReadImage
  <2> HIDE DEF tables
  <2> QED
    BY <1>0, <1>2, <2>1 DEF PlainResult, TableStatus, TableResult, TableReport, Source, Reason
<1>6. CASE page.ink = "ruled" /\ "failed" \notin outcomes /\ "unresolved" \in outcomes
  <2>1. ReadImage(page) = TableResult(tables, "rapidtable", "unsupported", "table_region_unresolved")
    BY <1>6 DEF ReadImage
  <2> HIDE DEF tables
  <2> QED
    BY <1>0, <1>2, <2>1 DEF PlainResult, TableStatus, TableResult, TableReport, Source, Reason
<1>7. CASE page.ink = "ruled" /\ "failed" \notin outcomes /\ "unresolved" \notin outcomes
  <2>1. ReadImage(page) = TableResult(tables, "rapidtable", "complete", "none")
    BY <1>7 DEF ReadImage
  <2>2. \A r \in page.regions : RegionOutcome(r) = "resolved"
    BY <1>1, <1>7
  <2>3. tables # {}
    BY <1>7, <2>2 DEF PageFits
  <2> HIDE DEF tables
  <2> QED
    BY <1>0, <1>2, <2>1, <2>2, <2>3 DEF PlainResult, TableStatus, TableResult, TableReport, Source, Reason
<1> QED
  BY <1>3, <1>4, <1>5, <1>6, <1>7 DEF PageFits

\* The fallback keeps what was resolved, and is complete only when it reads the page completely.
LEMMA MergedIs ==
  ASSUME NEW page, PageFits(page), NEW found, FoundFits(page, found),
         NEW result, result = Merged(found, ReadDocling(page))
  PROVE  /\ result \in TableReport /\ result.status # "empty"
         /\ Resolved(page) # {} => result.tables # {}
         /\ result.status = "complete" =>
              /\ result.tables # {} /\ result.source = "docling_tableformer" /\ page.docling = "complete"
         /\ result.reason # "fallback_page_limit"
<1> DEFINE alternative == ReadDocling(page)
<1>1. /\ alternative \in TableReport /\ alternative.status \in {"complete", "unsupported", "failed"}
      /\ alternative.status = "complete" =>
           /\ alternative.tables # {} /\ alternative.source = "docling_tableformer"
           /\ page.docling = "complete"
      /\ alternative.reason # "fallback_page_limit"
  BY DEF ReadDocling, PageFits, TableStatus, TableResult, TableReport, Source, Reason
<1>2. CASE alternative.status = "complete" \/ found.tables = {}
  <2>1. result = alternative
    BY <1>2 DEF Merged
  <2> QED
    BY <1>1, <1>2, <2>1 DEF FoundFits
<1>3. CASE ~(alternative.status = "complete" \/ found.tables = {})
  <2>1. result = [found EXCEPT !.status = "unsupported", !.reason = alternative.reason]
    BY <1>3 DEF Merged
  <2> HIDE DEF alternative
  <2> QED
    BY <1>1, <1>3, <2>1 DEF FoundFits, TableReport, TableStatus, Reason
<1> QED
  BY <1>2, <1>3

\* The verdict on a scan and the reading of a page are records of their own.
LEMMA VerdictIsRecorded == \A scan : Classify(scan) # Unread
<1>1. \A verdict : DOMAIN verdict = {"rotation", "confidence"} => verdict # Unread
  BY DEF Unread
<1>2. DOMAIN Undecided = {"rotation", "confidence"}
  BY DEF Undecided
<1>3. ASSUME NEW scan PROVE DOMAIN Classify(scan) = {"rotation", "confidence"}
  BY <1>2, Zenon DEF Classify, Decide
<1> QED
  BY <1>1, <1>3

LEMMA PageIsRecorded ==
  ASSUME NEW page, page.engine \in {"reads", "raises"}, NEW force
  PROVE  ReadOcrPage(page, force) # Unread
<1>1. "status" \in DOMAIN PageResult /\ "status" \notin DOMAIN Unread
  BY DEF PageResult, Unread
<1>2. \A why : "status" \in DOMAIN Failed(why)
  BY <1>1 DEF Failed
<1>3. "status" \in DOMAIN Recognize(page)
  BY <1>1, <1>2 DEF Recognize
<1>4. "status" \in DOMAIN ReadOcrPage(page, force)
  BY <1>1, <1>2, <1>3 DEF ReadOcrPage
<1> QED
  BY <1>1, <1>4

\* A worker that has read a page records a result or the first error, or goes on to the
\* fallback with what it has found.
ReadsOn(w, found) ==
  /\ at' = [at EXCEPT ![w] = [@ EXCEPT !.stage = "claiming", !.found = found]]
  /\ UNCHANGED <<units, done, error>>

LEMMA PageOfWorker ==
  ASSUME TypesFit, WorkersFit, NEW w \in Worker, at[w] # Idle
  PROVE  /\ at[w].page \in Page
         /\ request.operation \in {"tables", "orientation", "ocr"}
         /\ request.operation = "tables" => PageFits(print[at[w].page])
         /\ request.operation = "ocr" => print[at[w].page].engine \in {"reads", "raises"}
<1>1. at[w].page \in Page
  BY TargetsAre DEF WorkersFit
<1>2. request.operation \in {"tables", "orientation", "ocr"}
  BY RequestAssumption DEF TypesFit
<1> QED
  BY <1>1, <1>2, DocumentAssumption DEF TypesFit, PageFits, PrintFits

LEMMA ReadingEnds ==
  ASSUME TypesFit, WorkersFit, NEW w \in Worker, ReadUnit(w)
  PROVE  /\ at[w] # Idle /\ at[w].stage = "reading"
         /\ \/ \E why \in {"unsupported_language", "configuration"} : Fails(w, why)
            \/ \E result : /\ Record(w, at[w].page, result) /\ result # Unread
                           /\ request.operation = "tables" =>
                                PlainResult(print[at[w].page], request.strategy, result)
            \/ \E found : /\ ReadsOn(w, found) /\ FoundFits(print[at[w].page], found)
                          /\ request.operation = "tables" /\ Docling /\ request.strategy = "auto"
         /\ UNCHANGED <<asked, clock, thread, route, settled, claims, converted, answer>>
<1> DEFINE page == at[w].page
           content == print[page]
           native == ReadNative(content, request.strategy)
           first == IF request.operation # "tables" THEN Unread
                    ELSE IF native # Unread THEN native ELSE ReadImage(content)
<1>1. at[w] # Idle /\ at[w].stage = "reading"
      /\ UNCHANGED <<asked, clock, thread, route, settled, claims, converted, answer>>
  BY DEF ReadUnit
<1>2. request.operation = "tables" => PlainResult(content, request.strategy, first) /\ first # Unread
  <2> SUFFICES ASSUME request.operation = "tables"
               PROVE  PlainResult(content, request.strategy, first) /\ first # Unread
    OBVIOUS
  <2>1. PageFits(content)
    BY <1>1, PageOfWorker
  <2>2. PlainResult(content, request.strategy, first)
    <3> HIDE DEF content
    <3> QED
      BY <2>1, NativeIsPlain, ImageIsPlain
  <2> QED
    BY <2>2, NotAResult DEF PlainResult
<1>3. /\ request.operation \in {"tables", "orientation", "ocr"}
      /\ request.operation = "ocr" => content.engine \in {"reads", "raises"}
  BY <1>1, PageOfWorker
<1>4. \/ \E why \in {"unsupported_language", "configuration"} : Fails(w, why)
      \/ request.operation = "orientation" /\ Record(w, page, Classify(content))
      \/ request.operation = "ocr" /\ Record(w, page, ReadOcrPage(content, request.force))
      \/ request.operation = "tables" /\ ~NeedsFallback(first) /\ Record(w, page, first)
      \/ request.operation = "tables" /\ NeedsFallback(first) /\ ReadsOn(w, first)
  <2>1. CASE UnknownLanguage(content)
    BY <2>1 DEF ReadUnit
  <2>2. CASE ~UnknownLanguage(content) /\ NeedsModels(content) /\ engine = "broken"
    BY <2>2 DEF ReadUnit
  <2>3. CASE ~UnknownLanguage(content) /\ ~(NeedsModels(content) /\ engine = "broken")
    <3>1. CASE request.operation = "orientation"
      BY <2>3, <3>1 DEF ReadUnit
    <3>2. CASE request.operation = "ocr"
      BY <2>3, <3>2 DEF ReadUnit
    <3>3. CASE request.operation = "tables" /\ ~NeedsFallback(first)
      BY <2>3, <3>3 DEF ReadUnit
    <3>4. CASE request.operation = "tables" /\ NeedsFallback(first)
      BY <2>3, <3>4 DEF ReadUnit, ReadsOn
    <3> QED
      BY <1>3, <3>1, <3>2, <3>3, <3>4
  <2> QED
    BY <2>1, <2>2, <2>3
<1> HIDE DEF first
<1>5. CASE \E why \in {"unsupported_language", "configuration"} : Fails(w, why)
  BY <1>1, <1>5
<1>6. CASE request.operation = "orientation" /\ Record(w, page, Classify(content))
  BY <1>1, <1>6, VerdictIsRecorded
<1>7. CASE request.operation = "ocr" /\ Record(w, page, ReadOcrPage(content, request.force))
  BY <1>1, <1>3, <1>7, PageIsRecorded
<1>8. CASE request.operation = "tables" /\ ~NeedsFallback(first) /\ Record(w, page, first)
  BY <1>1, <1>2, <1>8
<1>9. CASE request.operation = "tables" /\ NeedsFallback(first) /\ ReadsOn(w, first)
  <2>1. FoundFits(content, first) /\ Docling /\ request.strategy = "auto"
    BY <1>2, <1>9 DEF NeedsFallback, FoundFits, PlainResult
  <2> QED
    BY <1>1, <1>9, <2>1
<1> QED
  BY <1>4, <1>5, <1>6, <1>7, <1>8, <1>9

\* The first page of the line.
LEMMA FirstOfLine ==
  ASSUME NEW S, NEW s \in Seq(S), s # <<>>
  PROVE  /\ Head(s) \in S /\ Tail(s) \in Seq(S)
         /\ Range(s) = {Head(s)} \cup Range(Tail(s))
         /\ IsInjective(s) => IsInjective(Tail(s)) /\ Head(s) \notin Range(Tail(s))
<1>1. /\ Head(s) \in S /\ Head(s) = s[1]
      /\ Tail(s) \in Seq(S) /\ Len(Tail(s)) = Len(s) - 1
      /\ \A i \in 1..Len(Tail(s)) : Tail(s)[i] = s[i + 1]
  BY HeadTailProperties, EmptySeq
<1>2. Len(s) \in Nat /\ Len(s) # 0 /\ DOMAIN s = 1..Len(s) /\ DOMAIN Tail(s) = 1..(Len(s) - 1)
  BY <1>1, LenProperties, EmptySeq
<1>3. \A i \in 1..Len(s) : i # 1 => i - 1 \in 1..(Len(s) - 1) /\ s[i] = Tail(s)[i - 1]
  BY <1>1, <1>2
<1>4. Range(s) = {Head(s)} \cup Range(Tail(s))
  <2>1. \A i \in 1..(Len(s) - 1) : i + 1 \in 1..Len(s) /\ Tail(s)[i] = s[i + 1]
    BY <1>1, <1>2
  <2>2. 1 \in 1..Len(s)
    BY <1>2
  <2> QED
    BY <1>1, <1>2, <1>3, <2>1, <2>2 DEF Range
<1>5. ASSUME IsInjective(s)
      PROVE  IsInjective(Tail(s)) /\ Head(s) \notin Range(Tail(s))
  <2>1. \A i \in 1..(Len(s) - 1) : i + 1 \in 1..Len(s) /\ i + 1 # 1 /\ Tail(s)[i] = s[i + 1]
    BY <1>1, <1>2
  <2>2. 1 \in 1..Len(s) /\ \A i, k \in 1..Len(s) : s[i] = s[k] => i = k
    BY <1>2, <1>5 DEF IsInjective
  <2>3. Head(s) \notin Range(Tail(s))
    BY <1>1, <1>2, <2>1, <2>2 DEF Range
  <2>4. \A i, k \in 1..(Len(s) - 1) : Tail(s)[i] = Tail(s)[k] => i = k
    <3> SUFFICES ASSUME NEW i \in 1..(Len(s) - 1), NEW k \in 1..(Len(s) - 1), Tail(s)[i] = Tail(s)[k]
                 PROVE  i = k
      OBVIOUS
    <3>1. i + 1 = k + 1
      BY <2>1, <2>2
    <3> QED
      BY <1>2, <3>1
  <2> QED
    BY <1>2, <2>3, <2>4 DEF IsInjective
<1> QED
  BY <1>1, <1>4, <1>5

-----------------------------------------------------------------------------
(* The strengthening holds *)

LEMMA Begins == Init => IInv
<1> SUFFICES ASSUME Init PROVE IInv
  OBVIOUS
<1>1. TypesFit
  <2>1. /\ request \in Requests /\ print \in Documents[request.operation] /\ thread = "opening"
        /\ at = [w \in Worker |-> Idle] /\ done = [p \in Page |-> Unread]
        /\ error = "none" /\ settled = FALSE /\ units = <<>>
    BY DEF Init
  <2>2. at = [w \in Worker |-> at[w]] /\ done = [p \in Page |-> done[p]]
    BY <2>1
  <2>3. units \in Seq(Range(request.pages))
    BY <2>1, EmptySeq
  <2> QED
    BY <2>1, <2>2, <2>3 DEF TypesFit
<1>2. NothingEarly /\ NothingLost /\ AnswerFits
  BY DEF Init, NothingEarly, NothingLost, AnswerFits
<1>3. OnePlace
  <2>1. IsInjective(units) /\ Range(units) = {}
    BY DEF Init, IsInjective, Range
  <2> QED
    BY <2>1 DEF Init, OnePlace
<1>4. ClaimsFit
  BY FS_EmptySet, RequestAssumption DEF Init, ClaimsFit
<1>5. WorkersFit /\ ResultsFit
  BY DEF Init, WorkersFit, ResultsFit
<1> QED
  BY <1>1, <1>2, <1>3, <1>4, <1>5 DEF IInv

LEMMA AskedStays ==
  ASSUME UNCHANGED asked
  PROVE  Targets' = Targets
BY DEF asked, Targets, Distinct

\* A worker is at work only after the thread has queued the pages.
LEMMA WorkIsLate ==
  ASSUME IInv, NEW w \in Worker, at[w] # Idle \/ units # <<>>
  PROVE  thread \notin {"opening", "queueing"}
BY DEF IInv, NothingEarly

\* Steps of the caller and of time that leave the job alone.
LEMMA JobStays ==
  ASSUME IInv, UNCHANGED <<asked, job>>, AnswerFits',
         thread' \in {"opening", "queueing", "waiting", "expired", "over"},
         thread' \in {"opening", "queueing"} => thread \in {"opening", "queueing"},
         thread' \in {"waiting", "expired"} => thread \in {"waiting", "expired"}
  PROVE  IInv'
<1>1. Targets' = Targets
  BY AskedStays
<1>2. TypesFit'
  BY DEF IInv, TypesFit, asked, job
<1>3. NothingEarly'
  BY DEF IInv, NothingEarly, job
<1>4. NothingLost'
  BY <1>1 DEF IInv, NothingLost, Holds, job
<1>5. OnePlace' /\ ClaimsFit' /\ WorkersFit' /\ ResultsFit'
  BY DEF IInv, OnePlace, ClaimsFit, WorkersFit, FoundFits, ResultsFit, HonestResult, asked, job
<1> QED
  BY <1>2, <1>3, <1>4, <1>5 DEF IInv

LEMMA TakeKeeps ==
  ASSUME IInv, NEW w \in Worker, Take(w)
  PROVE  IInv'
<1> DEFINE pages == Range(request.pages)
           unit == [page |-> Head(units), stage |-> "reading", found |-> Unread]
<1>1. /\ at[w] = Idle /\ units # <<>> /\ units \in Seq(pages)
      /\ at' = [at EXCEPT ![w] = unit] /\ units' = Tail(units)
      /\ UNCHANGED <<asked, thread, done, error, settled, claims, converted, answer>>
  BY DEF Take, IInv, TypesFit
<1>2. /\ Head(units) \in pages /\ Tail(units) \in Seq(pages)
      /\ Range(units) = {Head(units)} \cup Range(Tail(units))
      /\ IsInjective(units) => IsInjective(Tail(units)) /\ Head(units) \notin Range(Tail(units))
  BY <1>1, FirstOfLine
<1>3. unit # Idle /\ unit.page = Head(units) /\ unit.stage = "reading"
  BY NotAResult
<1>4. at'[w] = unit /\ \A v \in Worker : v # w => at'[v] = at[v]
  BY <1>1 DEF IInv, TypesFit
<1>5. thread \notin {"opening", "queueing"} /\ ~settled
  BY <1>1, WorkIsLate DEF IInv, NothingLost
<1> HIDE DEF unit
<1>6. TypesFit'
  BY <1>1, <1>2 DEF IInv, TypesFit, asked
<1>7. NothingEarly' /\ AnswerFits'
  BY <1>1, <1>5 DEF IInv, NothingEarly, AnswerFits
<1>8. NothingLost'
  <2>1. Targets' = Targets
    BY <1>1, AskedStays
  <2>2. ASSUME thread \in {"waiting", "expired"}, error = "none", NEW i \in DOMAIN Targets
        PROVE  \/ Targets[i] \in Range(units')
               \/ \E v \in Worker : at'[v] # Idle /\ at'[v].page = Targets[i]
               \/ done[Targets[i]] # Unread
    <3>1. CASE Targets[i] \in Range(units)
      BY <1>1, <1>2, <1>3, <1>4, <3>1
    <3>2. CASE \E v \in Worker : Holds(v, Targets[i])
      BY <1>1, <1>4, <3>2 DEF Holds
    <3> QED
      BY <2>2, <3>1, <3>2 DEF IInv, NothingLost
  <2> QED
    BY <1>1, <1>5, <2>1, <2>2 DEF NothingLost, Holds
<1>9. OnePlace'
  <2> SUFFICES ASSUME request.operation = "tables" PROVE OnePlace'
    BY <1>1 DEF OnePlace, asked
  <2>1. IsInjective(units) /\ converted \cap Range(units) = {}
        /\ \A v \in Worker : at[v] # Idle => at[v].page \notin Range(units)
    BY DEF IInv, OnePlace
  <2>2. IsInjective(units') /\ converted' \cap Range(units') = {}
    BY <1>1, <1>2, <2>1
  <2>3. \A v \in Worker : at'[v] # Idle => at'[v].page \notin Range(units')
    BY <1>1, <1>2, <1>3, <1>4, <2>1
  <2>4. \A u, v \in Worker : at'[u] # Idle /\ at'[v] # Idle /\ at'[u].page = at'[v].page => u = v
    <3>1. \A v \in Worker : v # w /\ at'[v] # Idle => at'[v].page # at'[w].page
      BY <1>2, <1>3, <1>4, <2>1
    <3> QED
      BY <1>4, <3>1 DEF IInv, OnePlace
  <2>5. \A v \in Worker : at'[v] # Idle => (at'[v].page \in converted' <=> at'[v].stage = "converting")
    <3>1. at'[w].page \notin converted /\ at'[w].stage # "converting"
      BY <1>2, <1>3, <1>4, <2>1
    <3> QED
      BY <1>1, <1>4, <3>1 DEF IInv, OnePlace
  <2> QED
    BY <2>2, <2>3, <2>4, <2>5 DEF OnePlace
<1>10. ClaimsFit' /\ ResultsFit'
  BY <1>1 DEF IInv, ClaimsFit, ResultsFit, HonestResult, asked
<1>11. WorkersFit'
  <2>1. unit = [page |-> unit.page, stage |-> unit.stage, found |-> unit.found]
    BY DEF unit
  <2> QED
    BY <1>1, <1>2, <1>3, <1>4, <2>1 DEF IInv, WorkersFit, FoundFits, asked
<1> QED
  BY <1>6, <1>7, <1>8, <1>9, <1>10, <1>11 DEF IInv

\* A result is recorded and the worker is free.
LEMMA RecordKeeps ==
  ASSUME IInv, NEW w \in Worker, at[w] # Idle, NEW result, result # Unread,
         Record(w, at[w].page, result),
         request.operation = "tables" => HonestResult(at[w].page, result),
         UNCHANGED <<asked, clock, thread, route, settled, claims, converted, answer>>
  PROVE  IInv'
<1> DEFINE page == at[w].page
<1>1. /\ page \in Page /\ thread \notin {"opening", "queueing"} /\ ~settled
      /\ UNCHANGED <<asked, units, thread, error, settled, claims, converted, answer>>
  BY PageOfWorker, WorkIsLate DEF IInv, NothingLost, Record
<1>2. /\ at' = [v \in Worker |-> IF v = w THEN Idle ELSE at[v]]
      /\ done' = [p \in Page |-> IF p = page THEN result ELSE done[p]]
  BY DEF Record, IInv, TypesFit
<1>3. TypesFit'
  BY <1>1, <1>2 DEF IInv, TypesFit, asked
<1>4. NothingEarly' /\ AnswerFits'
  BY <1>1 DEF IInv, NothingEarly, AnswerFits
<1>5. NothingLost'
  <2>1. Targets' = Targets
    BY <1>1, AskedStays
  <2>2. ASSUME thread \in {"waiting", "expired"}, error = "none", NEW i \in DOMAIN Targets
        PROVE  \/ Targets[i] \in Range(units)
               \/ \E v \in Worker : at'[v] # Idle /\ at'[v].page = Targets[i]
               \/ done'[Targets[i]] # Unread
    <3>1. Targets[i] \in Page
      <4>1. Targets \in Seq(Range(request.pages)) /\ DOMAIN Targets = 1..Len(Targets)
            /\ Range(request.pages) \subseteq Page
        BY TargetsAre DEF IInv
      <4> QED
        BY <4>1, ElementOfSeq
    <3>2. CASE \E v \in Worker : Holds(v, Targets[i])
      <4>1. PICK v \in Worker : at[v] # Idle /\ at[v].page = Targets[i]
        BY <3>2 DEF Holds
      <4>2. CASE v = w
        BY <1>1, <1>2, <3>1, <4>1, <4>2
      <4>3. CASE v # w
        BY <1>2, <4>1, <4>3
      <4> QED
        BY <4>2, <4>3
    <3>3. CASE done[Targets[i]] # Unread
      BY <1>2, <3>1, <3>3
    <3> QED
      BY <2>2, <3>2, <3>3 DEF IInv, NothingLost
  <2> QED
    BY <1>1, <2>1, <2>2 DEF NothingLost, Holds
<1>6. OnePlace'
  BY <1>1, <1>2 DEF IInv, OnePlace, asked
<1>7. ClaimsFit'
  BY <1>1 DEF IInv, ClaimsFit, asked
<1>8. WorkersFit'
  BY <1>1, <1>2 DEF IInv, WorkersFit, FoundFits, asked
<1>9. ResultsFit'
  BY <1>1, <1>2 DEF IInv, ResultsFit, HonestResult, asked
<1> QED
  BY <1>3, <1>4, <1>5, <1>6, <1>7, <1>8, <1>9 DEF IInv

\* The first error empties the line.
LEMMA FailsKeeps ==
  ASSUME IInv, NEW w \in Worker, at[w] # Idle,
         NEW why \in {"unsupported_language", "configuration"}, Fails(w, why),
         UNCHANGED <<asked, clock, thread, route, settled, claims, converted, answer>>
  PROVE  IInv'
<1>1. /\ thread \notin {"opening", "queueing"} /\ ~settled
      /\ error' # "none" /\ error' \in {"none", "unsupported_language", "configuration", "timeout"}
      /\ units' = <<>> /\ Range(units') = {} /\ IsInjective(units')
      /\ UNCHANGED <<asked, thread, done, settled, claims, converted, answer>>
  BY WorkIsLate DEF IInv, TypesFit, NothingLost, Fails, Range, IsInjective
<1>2. at' = [v \in Worker |-> IF v = w THEN Idle ELSE at[v]]
  BY DEF Fails, IInv, TypesFit
<1>3. TypesFit'
  <2>1. units' \in Seq(Range(request'.pages))
    BY <1>1, EmptySeq
  <2> QED
    BY <1>1, <1>2, <2>1 DEF IInv, TypesFit, asked
<1>4. NothingEarly' /\ AnswerFits' /\ NothingLost'
  BY <1>1 DEF IInv, NothingEarly, AnswerFits, NothingLost
<1>5. OnePlace'
  BY <1>1, <1>2 DEF IInv, OnePlace, asked
<1>6. ClaimsFit' /\ ResultsFit'
  BY <1>1 DEF IInv, ClaimsFit, ResultsFit, HonestResult, asked
<1>7. WorkersFit'
  BY <1>1, <1>2 DEF IInv, WorkersFit, FoundFits, asked
<1> QED
  BY <1>3, <1>4, <1>5, <1>6, <1>7 DEF IInv

\* A worker with a reading that does not settle the page goes on to ask for the fallback.
LEMMA ReadsOnKeeps ==
  ASSUME IInv, NEW w \in Worker, at[w] # Idle, at[w].stage = "reading",
         NEW found, ReadsOn(w, found), FoundFits(print[at[w].page], found),
         request.operation = "tables", Docling, request.strategy = "auto",
         UNCHANGED <<asked, clock, thread, route, settled, claims, converted, answer>>
  PROVE  IInv'
<1> DEFINE unit == [page |-> at[w].page, stage |-> "claiming", found |-> found]
<1>1. UNCHANGED <<asked, units, done, error, thread, settled, claims, converted, answer>>
  BY DEF ReadsOn
<1>2. at' = [v \in Worker |-> IF v = w THEN unit ELSE at[v]]
  <2>1. at[w] = [page |-> at[w].page, stage |-> at[w].stage, found |-> at[w].found]
    BY DEF IInv, WorkersFit
  <2>2. ASSUME NEW held, NEW p, NEW stage, NEW f, held = [page |-> p, stage |-> stage, found |-> f]
        PROVE  [held EXCEPT !.stage = "claiming", !.found = found]
                 = [page |-> held.page, stage |-> "claiming", found |-> found]
    <3>1. held \in [page : {p}, stage : {stage}, found : {f}] /\ held.page = p
      BY <2>2
    <3>2. [held EXCEPT !.stage = "claiming", !.found = found]
            \in [page : {p}, stage : {"claiming"}, found : {found}]
      BY <3>1
    <3>3. \A r \in [page : {p}, stage : {"claiming"}, found : {found}] :
            r = [page |-> p, stage |-> "claiming", found |-> found]
      OBVIOUS
    <3> QED
      BY <3>1, <3>2, <3>3
  <2>3. [at[w] EXCEPT !.stage = "claiming", !.found = found] = unit
    BY <2>1, <2>2
  <2> HIDE DEF unit
  <2> QED
    BY <2>3 DEF ReadsOn, IInv, TypesFit
<1>3. /\ unit # Idle /\ unit.page = at[w].page /\ unit.stage = "claiming" /\ unit.found = found
      /\ unit = [page |-> unit.page, stage |-> unit.stage, found |-> unit.found]
  BY DEF Idle
<1> HIDE DEF unit
<1>4. TypesFit' /\ NothingEarly' /\ AnswerFits'
  <2>1. thread \notin {"opening", "queueing"}
    BY WorkIsLate
  <2> QED
    BY <1>1, <1>2, <2>1 DEF IInv, TypesFit, NothingEarly, AnswerFits, asked
<1>5. NothingLost'
  <2>1. Targets' = Targets
    BY <1>1, AskedStays
  <2>2. \A v \in Worker : \A p : Holds(v, p) => at'[v] # Idle /\ at'[v].page = p
    BY <1>2, <1>3 DEF Holds
  <2>3. ~settled
    BY DEF IInv, NothingLost
  <2> QED
    BY <1>1, <2>1, <2>2, <2>3 DEF IInv, NothingLost, Holds
<1>6. OnePlace'
  BY <1>1, <1>2, <1>3 DEF IInv, OnePlace, asked
<1>7. ClaimsFit' /\ ResultsFit'
  BY <1>1 DEF IInv, ClaimsFit, ResultsFit, HonestResult, asked
<1>8. WorkersFit'
  BY <1>1, <1>2, <1>3 DEF IInv, WorkersFit, FoundFits, asked
<1> QED
  BY <1>4, <1>5, <1>6, <1>7, <1>8 DEF IInv

\* The fallback is given one more page of the request, which has not had it before.
LEMMA ClaimGrants ==
  ASSUME IInv, NEW w \in Worker, Claim(w), MayClaim
  PROVE  IInv'
<1> DEFINE page == at[w].page
           unit == [page |-> page, stage |-> "converting", found |-> at[w].found]
<1>1. /\ at[w] # Idle /\ at[w].stage = "claiming" /\ claims' = claims + 1 /\ claims < MaxFallback
      /\ converted' = converted \cup {page}
      /\ UNCHANGED <<asked, units, done, error, thread, settled, answer>>
  BY DEF Claim, MayClaim
<1>2. at' = [v \in Worker |-> IF v = w THEN unit ELSE at[v]]
  <2>1. at[w] = [page |-> at[w].page, stage |-> at[w].stage, found |-> at[w].found]
    BY <1>1 DEF IInv, WorkersFit
  <2>2. ASSUME NEW held, NEW p, NEW stage, NEW f, held = [page |-> p, stage |-> stage, found |-> f]
        PROVE  [held EXCEPT !.stage = "converting"]
                 = [page |-> held.page, stage |-> "converting", found |-> held.found]
    BY <2>2
  <2>3. [at[w] EXCEPT !.stage = "converting"] = unit
    BY <2>1, <2>2
  <2> HIDE DEF unit
  <2> QED
    BY <2>3 DEF Claim, MayClaim, IInv, TypesFit
<1>3. /\ unit # Idle /\ unit.page = page /\ unit.stage = "converting" /\ unit.found = at[w].found
      /\ unit = [page |-> unit.page, stage |-> unit.stage, found |-> unit.found]
  BY DEF Idle
<1> HIDE DEF unit
<1>4. /\ request.operation = "tables" /\ Docling /\ request.strategy = "auto"
      /\ FoundFits(print[page], at[w].found) /\ page \notin converted
  BY <1>1 DEF IInv, WorkersFit, OnePlace
<1>5. thread \notin {"opening", "queueing"} /\ ~settled
  BY <1>1, WorkIsLate DEF IInv, NothingLost
<1>6. TypesFit' /\ NothingEarly' /\ AnswerFits'
  BY <1>1, <1>2, <1>5 DEF IInv, TypesFit, NothingEarly, AnswerFits, asked
<1>7. NothingLost'
  <2>1. Targets' = Targets
    BY <1>1, AskedStays
  <2>2. \A v \in Worker : \A p : Holds(v, p) => at'[v] # Idle /\ at'[v].page = p
    BY <1>2, <1>3 DEF Holds
  <2> QED
    BY <1>1, <1>5, <2>1, <2>2 DEF IInv, NothingLost, Holds
<1>8. OnePlace'
  <2>1. page \notin Range(units) /\ \A v \in Worker : v # w /\ at[v] # Idle => at[v].page # page
    BY <1>1, <1>4 DEF IInv, OnePlace
  <2> QED
    BY <1>1, <1>2, <1>3, <1>4, <2>1 DEF IInv, OnePlace, asked
<1>9. ClaimsFit'
  <2>1. IsFiniteSet(converted) /\ claims = Cardinality(converted)
    BY DEF IInv, ClaimsFit
  <2>2. IsFiniteSet(converted') /\ Cardinality(converted') = Cardinality(converted) + 1
    BY <1>1, <1>4, <2>1, FS_AddElement
  <2>3. claims \in Nat /\ MaxFallback \in Nat
    BY <2>1, FS_CardinalityType, RequestAssumption
  <2> QED
    BY <1>1, <1>4, <2>1, <2>2, <2>3 DEF ClaimsFit, asked
<1>10. WorkersFit'
  BY <1>1, <1>2, <1>3, <1>4 DEF IInv, WorkersFit, FoundFits, asked
<1>11. ResultsFit'
  <2>1. \A p \in Page : done[p] # Unread => done[p].reason # "fallback_page_limit"
    <3>1. claims # MaxFallback
      <4>1. claims \in Nat /\ MaxFallback \in Nat
        BY FS_CardinalityType, RequestAssumption DEF IInv, ClaimsFit
      <4> QED
        BY <1>1, <4>1
    <3> QED
      BY <1>4, <3>1 DEF IInv, ResultsFit, HonestResult
  <2> QED
    BY <1>1, <1>4, <2>1 DEF IInv, ResultsFit, HonestResult, asked
<1> QED
  BY <1>6, <1>7, <1>8, <1>9, <1>10, <1>11 DEF IInv

\* A page is refused the fallback only when the request has had its share; the reading that
\* is kept may still hold tables.
LEMMA ClaimRefuses ==
  ASSUME IInv, NEW w \in Worker, Claim(w), ~MayClaim
  PROVE  IInv'
<1> DEFINE found == at[w].found
           result == [found EXCEPT !.status = "unsupported", !.reason = "fallback_page_limit"]
<1>1. /\ at[w] # Idle /\ at[w].stage = "claiming" /\ Record(w, at[w].page, result)
      /\ UNCHANGED <<asked, clock, thread, route, settled, claims, converted, answer>>
  BY DEF Claim
<1>2. request.strategy = "auto" /\ FoundFits(print[at[w].page], found)
  BY <1>1 DEF IInv, WorkersFit
<1>3. claims = MaxFallback
  <2>1. claims \in Nat /\ MaxFallback \in Nat /\ claims <= MaxFallback
    BY FS_CardinalityType, RequestAssumption DEF IInv, ClaimsFit
  <2> QED
    BY <2>1 DEF MayClaim
<1>4. result \in TableReport /\ result.tables = found.tables /\ result.status = "unsupported"
  <2> HIDE DEF found
  <2> QED
    BY <1>2 DEF FoundFits, TableReport, TableStatus, Reason
<1> HIDE DEF result
<1>5. result # Unread
  BY <1>4, NotAResult
<1>6. HonestResult(at[w].page, result)
  BY <1>2, <1>3, <1>4 DEF HonestResult, FoundFits
<1> QED
  BY <1>1, <1>5, <1>6, RecordKeeps

LEMMA ConvertKeeps ==
  ASSUME IInv, NEW w \in Worker, Convert(w)
  PROVE  IInv'
<1> DEFINE page == at[w].page
           result == Merged(at[w].found, ReadDocling(print[page]))
<1>1. /\ at[w] # Idle /\ at[w].stage = "converting" /\ Record(w, page, result)
      /\ UNCHANGED <<asked, clock, thread, route, settled, claims, converted, answer>>
  BY DEF Convert
<1>2. /\ request.operation = "tables" /\ FoundFits(print[page], at[w].found)
      /\ PageFits(print[page]) /\ page \in converted
  BY <1>1, PageOfWorker DEF IInv, WorkersFit, OnePlace
<1>3. /\ result \in TableReport /\ result.status # "empty"
      /\ Resolved(print[page]) # {} => result.tables # {}
      /\ result.status = "complete" =>
           /\ result.tables # {} /\ result.source = "docling_tableformer" /\ print[page].docling = "complete"
      /\ result.reason # "fallback_page_limit"
  BY <1>2, MergedIs
<1> HIDE DEF result
<1>4. result # Unread /\ HonestResult(page, result)
  BY <1>2, <1>3, NotAResult DEF HonestResult
<1> QED
  BY <1>1, <1>4, RecordKeeps

LEMMA ReadKeeps ==
  ASSUME IInv, NEW w \in Worker, ReadUnit(w)
  PROVE  IInv'
<1>0. TypesFit /\ WorkersFit
  BY DEF IInv
<1>1. /\ at[w] # Idle /\ at[w].stage = "reading"
      /\ UNCHANGED <<asked, clock, thread, route, settled, claims, converted, answer>>
  BY <1>0, ReadingEnds
<1>2. CASE \E why \in {"unsupported_language", "configuration"} : Fails(w, why)
  BY <1>1, <1>2, FailsKeeps
<1>3. ASSUME NEW result, Record(w, at[w].page, result), result # Unread,
             request.operation = "tables" => PlainResult(print[at[w].page], request.strategy, result)
      PROVE  IInv'
  <2>1. request.operation = "tables" => HonestResult(at[w].page, result)
    BY <1>3 DEF PlainResult, HonestResult
  <2> QED
    BY <1>1, <1>3, <2>1, RecordKeeps
<1>4. ASSUME NEW found, ReadsOn(w, found), FoundFits(print[at[w].page], found),
             request.operation = "tables", Docling, request.strategy = "auto"
      PROVE  IInv'
  BY <1>1, <1>4, ReadsOnKeeps
<1> QED
  BY <1>0, <1>2, <1>3, <1>4, ReadingEnds

LEMMA FinishKeeps ==
  ASSUME IInv, Finish
  PROVE  IInv'
<1>1. /\ UNCHANGED <<asked, thread, units, at, done, error, claims, converted, answer>>
      /\ units = <<>> /\ thread \in {"waiting", "expired"} /\ settled' = TRUE
      /\ \A w \in Worker : at[w] = Idle
  BY DEF Finish
<1>2. Targets' = Targets
  BY <1>1, AskedStays
<1>3. TypesFit' /\ NothingEarly' /\ AnswerFits' /\ NothingLost'
  BY <1>1, <1>2 DEF IInv, TypesFit, NothingEarly, AnswerFits, NothingLost, Holds, asked
<1> QED
  BY <1>1, <1>3 DEF IInv, OnePlace, ClaimsFit, WorkersFit, FoundFits, ResultsFit, HonestResult, asked

\* The caller's steps and time.
LEMMA OpenKeeps ==
  ASSUME IInv, Open
  PROVE  IInv'
<1>1. UNCHANGED <<asked, job>> /\ thread' \in {"queueing", "over"} /\ thread = "opening" /\ AnswerFits'
  BY DEF Open, Answers, IInv, AnswerFits
<1> QED
  BY <1>1, JobStays

LEMMA EnqueueKeeps ==
  ASSUME IInv, Enqueue
  PROVE  IInv'
<1>1. /\ thread = "queueing" /\ UNCHANGED <<asked, at, done, error, settled, claims, converted>>
      /\ units = <<>> /\ error = "none" /\ ~settled /\ converted = {}
      /\ \A w \in Worker : at[w] = Idle
      /\ \A p \in Page : done[p] = Unread
  BY DEF Enqueue, IInv, NothingEarly
<1>2. CASE thread' = "over"
  <2>1. UNCHANGED units /\ AnswerFits'
    BY <1>2 DEF Enqueue, Answers, IInv, AnswerFits
  <2> QED
    BY <1>1, <1>2, <2>1, JobStays DEF job
<1>3. CASE thread' # "over"
  <2>1. units' = Targets /\ thread' = "waiting" /\ UNCHANGED answer
    BY <1>3 DEF Enqueue, Answers
  <2>2. /\ Targets \in Seq(Range(request.pages))
        /\ request.operation = "tables" => IsInjective(Targets)
    BY TargetsAre DEF IInv
  <2>3. Targets' = Targets
    BY <1>1, AskedStays
  <2>4. TypesFit' /\ NothingEarly' /\ AnswerFits'
    BY <1>1, <2>1, <2>2 DEF IInv, TypesFit, NothingEarly, AnswerFits, asked
  <2>5. NothingLost'
    <3>1. \A i \in DOMAIN Targets : Targets[i] \in Range(Targets)
      BY DEF Range
    <3> QED
      BY <1>1, <2>1, <2>3, <3>1 DEF NothingLost
  <2>6. OnePlace'
    BY <1>1, <2>1, <2>2 DEF OnePlace, asked
  <2>7. ClaimsFit' /\ WorkersFit' /\ ResultsFit'
    BY <1>1 DEF IInv, ClaimsFit, WorkersFit, ResultsFit, HonestResult, asked
  <2> QED
    BY <2>4, <2>5, <2>6, <2>7 DEF IInv
<1> QED
  BY <1>2, <1>3

LEMMA GiveUpKeeps ==
  ASSUME IInv, GiveUp
  PROVE  IInv'
<1>1. /\ thread = "expired" /\ thread' = "over" /\ units' = <<>> /\ error' = "timeout"
      /\ Range(units') = {} /\ IsInjective(units') /\ AnswerFits'
      /\ UNCHANGED <<asked, at, done, settled, claims, converted>>
  BY DEF GiveUp, Answers, AnswerFits, Range, IsInjective
<1>2. TypesFit'
  <2>1. units' \in Seq(Range(request'.pages))
    BY <1>1, EmptySeq
  <2> QED
    BY <1>1, <2>1 DEF IInv, TypesFit, asked
<1>3. NothingEarly' /\ NothingLost' /\ OnePlace'
  BY <1>1 DEF IInv, NothingEarly, NothingLost, OnePlace, asked
<1>4. ClaimsFit' /\ WorkersFit' /\ ResultsFit'
  BY <1>1 DEF IInv, ClaimsFit, WorkersFit, FoundFits, ResultsFit, HonestResult, asked
<1> QED
  BY <1>1, <1>2, <1>3, <1>4 DEF IInv

LEMMA CallerKeeps ==
  ASSUME IInv, Expire \/ Return \/ Reply \/ RouteTimesOut \/ Tick \/ UNCHANGED vars
  PROVE  IInv'
<1>1. UNCHANGED <<asked, job>>
  BY DEF Expire, Return, Reply, RouteTimesOut, Tick, vars, asked, job
<1>2. thread' = thread \/ (thread = "waiting" /\ thread' \in {"expired", "over"})
  BY DEF Expire, Return, Reply, RouteTimesOut, Tick, Answers, vars
<1>3. AnswerFits'
  <2>1. CASE Return
    <3>1. error \in {"none", "unsupported_language", "configuration", "timeout"}
      BY DEF IInv, TypesFit
    <3>2. thread' = "over" /\ answer'.kind \in {error, "pages"} /\ (error = "none" => answer'.kind = "pages")
      BY <2>1 DEF Return, Answers
    <3> QED
      BY <3>1, <3>2 DEF AnswerFits
  <2>2. CASE Expire \/ Reply \/ RouteTimesOut \/ Tick \/ UNCHANGED vars
    BY <2>2 DEF IInv, AnswerFits, Expire, Reply, RouteTimesOut, Tick, vars
  <2> QED
    BY <2>1, <2>2
<1> QED
  BY <1>1, <1>2, <1>3, JobStays DEF IInv, TypesFit

LEMMA Steps == IInv /\ [Next]_vars => IInv'
<1> SUFFICES ASSUME IInv, [Next]_vars PROVE IInv'
  OBVIOUS
<1>1. ASSUME NEW w \in Worker, Take(w) PROVE IInv'
  BY <1>1, TakeKeeps
<1>2. ASSUME NEW w \in Worker, ReadUnit(w) PROVE IInv'
  BY <1>2, ReadKeeps
<1>3. ASSUME NEW w \in Worker, Claim(w) PROVE IInv'
  BY <1>3, ClaimGrants, ClaimRefuses
<1>4. ASSUME NEW w \in Worker, Convert(w) PROVE IInv'
  BY <1>4, ConvertKeeps
<1>5. CASE Finish
  BY <1>5, FinishKeeps
<1>6. CASE Open
  BY <1>6, OpenKeeps
<1>7. CASE Enqueue
  BY <1>7, EnqueueKeeps
<1>8. CASE GiveUp
  BY <1>8, GiveUpKeeps
<1>9. CASE Expire \/ Return \/ Reply \/ RouteTimesOut \/ Tick \/ UNCHANGED vars
  BY <1>9, CallerKeeps
<1> QED
  BY <1>1, <1>2, <1>3, <1>4, <1>5, <1>6, <1>7, <1>8, <1>9 DEF Next, Work, Caller

\* Whatever pages are asked for, and however reading, deadline and answer fall: no page is
\* lost between the line, the workers and the results, a page of a table request is in one
\* place and has the fallback once, and each result is one its reader can give
\* (app/services/ocr_queue.py: run_pages, run_rapid, _run_sync; the table pipeline).
THEOREM Inductive == Spec => []IInv
<1> QED
  BY Begins, Steps, PTL DEF Spec

-----------------------------------------------------------------------------
(* What it implies *)

\* Workers and results belong to the request, and the fallback gets at most
\* TABLE_FALLBACK_MAX_PAGES of its pages, each once, only of an automatic request, and a
\* page is refused it only when so many have had it (_claim_table_fallback).
THEOREM RequestsAreBounded == Spec => []Inv
<1>1. ASSUME IInv PROVE Inv
  <2>1. TypeOK
    <3>1. /\ \A w \in Worker : at[w] # Idle => at[w].page \in Range(request.pages)
          /\ thread \in {"opening", "queueing"} => units = <<>> /\ \A p \in Page : done[p] = Unread
      BY <1>1 DEF IInv, WorkersFit, NothingEarly
    <3>2. Range(units) \subseteq Range(request.pages)
      <4>1. units \in Seq(Range(request.pages))
        BY <1>1 DEF IInv, TypesFit
      <4>2. DOMAIN units = 1..Len(units) /\ \A i \in 1..Len(units) : units[i] \in Range(request.pages)
        BY <4>1, LenProperties, ElementOfSeq
      <4>3. Range(units) = {units[i] : i \in DOMAIN units}
        BY DEF Range
      <4> QED
        BY <4>2, <4>3
    <3>3. request.operation = "tables" => \A p \in Page : done[p] # Unread => done[p].status \in TableStatus
      BY <1>1 DEF IInv, ResultsFit, HonestResult, TableReport
    <3>4. claims \in 0..MaxFallback
      BY <1>1, FS_CardinalityType, RequestAssumption DEF IInv, ClaimsFit
    <3> QED
      BY <3>1, <3>2, <3>3, <3>4 DEF TypeOK
  <2>2. FallbackIsBounded
    BY <1>1 DEF IInv, ClaimsFit, ResultsFit, HonestResult, FallbackIsBounded
  <2> QED
    BY <2>1, <2>2 DEF Inv
<1> QED
  BY <1>1, Inductive, PTL

\* "empty is never an error substitute" (pdf_service.py:1549): a page is empty only if it is
\* blank, keeps the tables some reader resolved, and is complete only if the reader that is
\* named resolved all that it met.
THEOREM TableReportIsHonest == Spec => []ReportIsHonest
<1>1. ASSUME IInv PROVE ReportIsHonest
  BY <1>1 DEF IInv, ResultsFit, HonestResult, ReportIsHonest
<1> QED
  BY <1>1, Inductive, PTL

\* Each page of a settled job that met no error has a result.
LEMMA SettledIsRead ==
  ASSUME IInv, thread = "waiting", settled, error = "none"
  PROVE  \A i \in DOMAIN Targets : done[Targets[i]] # Unread
<1>1. units = <<>> /\ \A w \in Worker : at[w] = Idle
  BY DEF IInv, NothingLost
<1>2. Range(units) = {}
  BY <1>1 DEF Range
<1> QED
  BY <1>1, <1>2 DEF IInv, NothingLost, Holds

\* "Preserve completed table pages at the deadline" (ocr_queue.py:698): the answer is given
\* once, has one entry per page in the order asked, each the page's reading if there was one
\* when it was given, and only a table request answers with pages missing.
THEOREM AnswerKeepsPages == Spec => DeadlineKeepsPages
<1> DEFINE Same == answer' = answer
           Faithful ==
             /\ answer.kind = "none" /\ Len(answer'.pages) = Len(Targets)
             /\ \A i \in DOMAIN Targets :
                  answer'.pages[i] = IF done[Targets[i]] = Unread THEN TimedOut ELSE done[Targets[i]]
             /\ request.operation # "tables" => \A i \in DOMAIN Targets : done[Targets[i]] # Unread
           Bare == answer.kind = "none" /\ answer'.kind # "pages"
<1>1. ASSUME IInv, [Next]_vars PROVE Same \/ Faithful \/ Bare
  <2>0. /\ DOMAIN Targets = 1..Len(Targets) /\ Len(Targets) \in Nat /\ Targets \in Seq(Range(request.pages))
        /\ thread # "over" => answer.kind = "none"
        /\ error \in {"none", "unsupported_language", "configuration", "timeout"}
    BY <1>1, TargetsAre DEF IInv, TypesFit, AnswerFits
  <2>1. CASE Open
    BY <2>0, <2>1 DEF Open, Answers
  <2>2. CASE Enqueue
    <3>1. CASE Targets = <<>>
      <4>1. answer'.pages = <<>> /\ Len(Targets) = 0 /\ DOMAIN Targets = {} /\ answer.kind = "none"
        BY <2>0, <2>2, <3>1 DEF Enqueue, Answers
      <4>2. Faithful
        BY <3>1, <4>1
      <4> QED
        BY <4>2
    <3>2. CASE Targets # <<>> /\ request.operation = "tables" /\ clock > 0
      <4>1. answer'.pages = Snapshot /\ answer.kind = "none"
        BY <2>0, <2>2, <3>2 DEF Enqueue, Answers
      <4>2. Faithful
        BY <2>0, <3>2, <4>1 DEF Snapshot
      <4> QED
        BY <4>2
    <3>3. CASE Targets # <<>> /\ ~(request.operation = "tables" /\ clock > 0)
      BY <2>2, <3>3 DEF Enqueue
    <3> QED
      BY <3>1, <3>2, <3>3
  <2>3. CASE GiveUp
    <3>1. CASE request.operation = "tables"
      <4>1. answer'.pages = Snapshot /\ answer.kind = "none"
        BY <2>0, <2>3, <3>1 DEF GiveUp, Answers
      <4>2. Faithful
        BY <2>0, <3>1, <4>1 DEF Snapshot
      <4> QED
        BY <4>2
    <3>2. CASE request.operation # "tables"
      BY <2>0, <2>3, <3>2 DEF GiveUp, Answers
    <3> QED
      BY <3>1, <3>2
  <2>4. CASE Return
    <3>1. CASE error # "none"
      BY <2>0, <2>4, <3>1 DEF Return, Answers
    <3>2. CASE error = "none"
      <4>1. \A i \in DOMAIN Targets : done[Targets[i]] # Unread
        BY <1>1, <2>4, <3>2, SettledIsRead DEF Return
      <4>2. answer'.pages = [i \in DOMAIN Targets |-> done[Targets[i]]] /\ answer.kind = "none"
        BY <2>0, <2>4, <3>2 DEF Return, Answers
      <4>3. Faithful
        BY <2>0, <4>1, <4>2
      <4> QED
        BY <4>3
    <3> QED
      BY <3>1, <3>2
  <2>5. CASE Expire \/ Reply \/ RouteTimesOut \/ Tick \/ Finish \/ UNCHANGED vars
    BY <2>5 DEF Expire, Reply, RouteTimesOut, Tick, Finish, vars
  <2>6. CASE Work
    BY <2>6 DEF Work, Take, ReadUnit, Claim, Convert
  <2> QED
    BY <1>1, <2>1, <2>2, <2>3, <2>4, <2>5, <2>6 DEF Next, Caller
<1>2. ASSUME IInv, [Next]_vars
      PROVE  [/\ answer' # answer /\ answer'.kind = "pages" =>
                   /\ Len(answer'.pages) = Len(Targets)
                   /\ \A i \in DOMAIN Targets :
                        answer'.pages[i] = IF done[Targets[i]] = Unread THEN TimedOut ELSE done[Targets[i]]
                   /\ request.operation # "tables" => \A i \in DOMAIN Targets : done[Targets[i]] # Unread
              /\ answer.kind # "none" => answer' = answer]_vars
  BY <1>1, <1>2
<1> QED
  BY <1>2, Inductive, PTL DEF Spec, DeadlineKeepsPages

-----------------------------------------------------------------------------
(* Which way up a scan is *)

Reads == {"clear", "misread", "poor"}
Line == [along : BOOLEAN, length : Nat, small : BOOLEAN, tiny : BOOLEAN, start : Reads, end : Reads]

Across(scan) == OnAxis(Detected(scan.lines), scan.turn % 2 = 0)
Downward(scan) == OnAxis(Detected(scan.lines), scan.turn % 2 = 1)
ScoresOf(scan) == Readings(ReadLines(scan), Upright(scan))

\* A total is a number, and above zero when one of its numbers is.
LEMMA TotalIs ==
  ASSUME NEW f, IsFiniteSet(DOMAIN f), \A i \in DOMAIN f : f[i] \in Int
  PROVE  /\ Total(f) \in Nat
         /\ (\A i \in DOMAIN f : f[i] <= 0) => Total(f) = 0
         /\ (\E i \in DOMAIN f : f[i] > 0) => Total(f) > 0
<1> DEFINE Part(i) == {i} \X (1..f[i])
           parts == {Part(i) : i \in DOMAIN f}
           all == UNION parts
<1>1. IsFiniteSet(all)
  <2>1. ASSUME NEW i \in DOMAIN f PROVE IsFiniteSet(Part(i))
    <3>1. f[i] \in Int
      OBVIOUS
    <3>2. IsFiniteSet(1..f[i])
      BY <3>1, FS_Interval
    <3>3. IsFiniteSet({i})
      BY FS_Singleton
    <3> QED
      BY <3>2, <3>3, FS_Product
  <2>2. IsFiniteSet(parts)
    <3> DEFINE part == [i \in DOMAIN f |-> Part(i)]
    <3>1. part \in Surjection(DOMAIN f, parts)
      <4> HIDE DEF Part
      <4> QED
        BY DEF Surjection
    <3> HIDE DEF part, parts
    <3> QED
      BY <3>1, FS_Surjection
  <2>3. \A T \in parts : IsFiniteSet(T)
    <3> HIDE DEF Part
    <3> QED
      BY <2>1
  <2> HIDE DEF parts
  <2> QED
    BY <2>2, <2>3, FS_UNION
<1>2. Total(f) = Cardinality(all)
  BY DEF Total
<1>3. ASSUME \A i \in DOMAIN f : f[i] <= 0
      PROVE  all = {}
  <2>1. ASSUME NEW i \in DOMAIN f PROVE Part(i) = {}
    <3>1. 1..f[i] = {}
      BY <1>3
    <3> QED
      BY <3>1
  <2> HIDE DEF Part
  <2> QED
    BY <2>1
<1>4. ASSUME NEW i \in DOMAIN f, f[i] > 0
      PROVE  all # {}
  <2>1. <<i, 1>> \in Part(i)
    BY <1>4
  <2> HIDE DEF Part
  <2> QED
    BY <2>1
<1> HIDE DEF all
<1>5. Cardinality(all) \in Nat /\ (Cardinality(all) = 0 <=> all = {})
  BY <1>1, FS_CardinalityType, FS_EmptySet
<1> QED
  BY <1>2, <1>3, <1>4, <1>5

LEMMA LengthIs ==
  ASSUME NEW lines \in Seq(Line)
  PROVE  Length(lines) \in Nat /\ (Len(lines) = 0 => Length(lines) = 0)
<1> DEFINE f == [i \in DOMAIN lines |-> lines[i].length]
<1>1. DOMAIN lines = 1..Len(lines) /\ Len(lines) \in Nat /\ \A i \in 1..Len(lines) : lines[i] \in Line
  BY LenProperties, ElementOfSeq
<1>2. DOMAIN f = 1..Len(lines) /\ \A i \in DOMAIN f : f[i] \in Int
  BY <1>1 DEF Line
<1>3. IsFiniteSet(1..Len(lines))
  BY <1>1, FS_Interval
<1>4. Length(lines) = Total(f)
  BY DEF Length
<1> HIDE DEF f
<1>5. Total(f) \in Nat /\ ((\A i \in DOMAIN f : f[i] <= 0) => Total(f) = 0)
  BY <1>2, <1>3, TotalIs
<1>6. Len(lines) = 0 => DOMAIN f = {}
  BY <1>2
<1> QED
  BY <1>4, <1>5, <1>6

\* Lines that are picked are lines of their kind.
LEMMA PickedFrom ==
  ASSUME NEW S, NEW s \in Seq(S), NEW I \in SUBSET (DOMAIN s)
  PROVE  Picked(s, I) \in Seq(S) /\ Len(Picked(s, I)) = Cardinality(I)
<1>1. Picked(s, I) \in Seq(Range(s)) /\ Len(Picked(s, I)) = Cardinality(I)
  BY PickedIs
<1>2. Range(s) \subseteq S
  <2>1. DOMAIN s = 1..Len(s) /\ \A i \in 1..Len(s) : s[i] \in S
    BY LenProperties, ElementOfSeq
  <2> QED
    BY <2>1 DEF Range
<1>3. \A t \in Seq(Range(s)) : t \in Seq(S)
  BY <1>2
<1> QED
  BY <1>1, <1>3

\* The scores of n lines.
PairsFit(pairs, n) ==
  n \in Nat /\ DOMAIN pairs = 1..n /\ \A i \in 1..n : pairs[i][1] \in Nat /\ pairs[i][2] \in Nat

LEMMA LinesAreKept ==
  ASSUME NEW S, NEW lines \in Seq(S)
  PROVE  /\ Detected(lines) \in Seq(S) /\ Len(Detected(lines)) <= Len(lines)
         /\ Crops(lines) \in Seq(S) /\ (Len(lines) = 0 => Len(Crops(lines)) = 0)
         /\ \A along \in BOOLEAN :
              /\ OnAxis(lines, along) \in Seq(S) /\ Len(OnAxis(lines, along)) <= Len(lines)
              /\ (\A l \in S : l.along # along) => Len(OnAxis(lines, along)) = 0
<1>0. DOMAIN lines = 1..Len(lines) /\ Len(lines) \in Nat /\ \A i \in 1..Len(lines) : lines[i] \in S
  BY LenProperties, ElementOfSeq
<1>1. ASSUME NEW I \in SUBSET DOMAIN lines
      PROVE  /\ Picked(lines, I) \in Seq(S) /\ Len(Picked(lines, I)) <= Len(lines)
             /\ I = {} => Len(Picked(lines, I)) = 0
  <2>1. Picked(lines, I) \in Seq(S) /\ Len(Picked(lines, I)) = Cardinality(I)
    BY PickedFrom
  <2>2. IsFiniteSet(1..Len(lines)) /\ Cardinality(1..Len(lines)) = Len(lines)
    BY <1>0, FS_Interval
  <2>3. Cardinality(I) <= Len(lines)
    BY <1>0, <2>2, FS_Subset
  <2> QED
    BY <2>1, <2>3, FS_EmptySet
<1>2. Detected(lines) \in Seq(S) /\ Len(Detected(lines)) <= Len(lines)
  <2> DEFINE I == {i \in DOMAIN lines : ~lines[i].small}
  <2>1. I \in SUBSET DOMAIN lines
    OBVIOUS
  <2>2. Detected(lines) \in {lines, Picked(lines, I)}
    BY DEF Detected
  <2> HIDE DEF I
  <2> QED
    BY <1>0, <1>1, <2>1, <2>2
<1>3. Crops(lines) \in Seq(S) /\ (Len(lines) = 0 => Len(Crops(lines)) = 0)
  <2> DEFINE I == {i \in DOMAIN lines : ~lines[i].tiny}
  <2>1. I \in SUBSET DOMAIN lines
    OBVIOUS
  <2>2. Crops(lines) = Picked(lines, I)
    BY DEF Crops
  <2> HIDE DEF I
  <2>3. Len(lines) = 0 => I = {}
    BY <1>0, <2>1
  <2> QED
    BY <1>1, <2>1, <2>2, <2>3
<1>4. ASSUME NEW along \in BOOLEAN
      PROVE  /\ OnAxis(lines, along) \in Seq(S) /\ Len(OnAxis(lines, along)) <= Len(lines)
             /\ (\A l \in S : l.along # along) => Len(OnAxis(lines, along)) = 0
  <2> DEFINE I == {i \in DOMAIN lines : lines[i].along = along}
  <2>1. I \in SUBSET DOMAIN lines
    OBVIOUS
  <2>2. OnAxis(lines, along) = Picked(lines, I)
    BY DEF OnAxis
  <2>3. (\A l \in S : l.along # along) => I = {}
    BY <1>0
  <2> HIDE DEF I
  <2> QED
    BY <1>1, <2>1, <2>2, <2>3
<1> QED
  BY <1>2, <1>3, <1>4

\* The longest lines are lines of the page; when there are no more of them than are read,
\* they are all of them, whichever way up the page is shown.
LEMMA LongestAre ==
  ASSUME NEW S, NEW lines \in Seq(S), NEW upright \in BOOLEAN, \A l \in S : l.length \in Nat
  PROVE  /\ Longest(lines, upright) \in Seq(S)
         /\ Len(lines) = 0 => Len(Longest(lines, upright)) = 0
         /\ Len(lines) <= MaxReadLines => Longest(lines, upright) = Picked(lines, DOMAIN lines)
<1> DEFINE above(k, i) == IF upright THEN k < i ELSE k > i
           before(i) == {k \in DOMAIN lines : \/ lines[k].length > lines[i].length
                                              \/ lines[k].length = lines[i].length /\ above(k, i)}
           I == {i \in DOMAIN lines : Cardinality(before(i)) < MaxReadLines}
<1>1. DOMAIN lines = 1..Len(lines) /\ Len(lines) \in Nat
  BY LenProperties
<1>2. I \in SUBSET DOMAIN lines
  OBVIOUS
<1>3. Longest(lines, upright) = Picked(lines, I)
  BY DEF Longest
<1>4. ASSUME Len(lines) <= MaxReadLines PROVE I = DOMAIN lines
  <2> SUFFICES ASSUME NEW i \in DOMAIN lines PROVE Cardinality(before(i)) < MaxReadLines
    OBVIOUS
  <2>0. i \in 1..Len(lines) /\ MaxReadLines \in Int
    BY <1>1, OrientationAssumption
  <2>1. before(i) \subseteq (1..Len(lines)) \ {i}
    <3>1. ~above(i, i)
      BY <2>0
    <3>2. lines[i].length \in Nat
      BY <1>1, <2>0, ElementOfSeq
    <3>3. i \notin before(i)
      BY <3>1, <3>2
    <3> QED
      BY <1>1, <3>3
  <2>2. IsFiniteSet(1..Len(lines)) /\ Cardinality(1..Len(lines)) = Len(lines)
    <3> DEFINE n == Len(lines)
    <3>1. n \in Int /\ n \in Nat
      BY <1>1
    <3> HIDE DEF n
    <3>2. IsFiniteSet(1..n) /\ Cardinality(1..n) = IF 1 > n THEN 0 ELSE n - 1 + 1
      BY <3>1, FS_Interval
    <3>3. (IF 1 > n THEN 0 ELSE n - 1 + 1) = n
      BY <3>1
    <3> QED
      BY <3>2, <3>3 DEF n
  <2> HIDE DEF before
  <2>3. IsFiniteSet((1..Len(lines)) \ {i}) /\ Cardinality((1..Len(lines)) \ {i}) = Len(lines) - 1
    BY <2>0, <2>2, FS_RemoveElement
  <2>4. Cardinality(before(i)) <= Len(lines) - 1 /\ Cardinality(before(i)) \in Nat
    BY <2>1, <2>3, FS_Subset, FS_CardinalityType
  <2> QED
    BY <1>1, <1>4, <2>0, <2>4
<1> HIDE DEF I
<1>5. Picked(lines, I) \in Seq(S) /\ Len(Picked(lines, I)) = Cardinality(I)
  BY <1>2, PickedFrom
<1>6. Len(lines) = 0 => I = {}
  BY <1>1, <1>2
<1> QED
  BY <1>3, <1>4, <1>5, <1>6, FS_EmptySet

LEMMA ScoreIs ==
  ASSUME NEW reads \in Reads, NEW upright \in BOOLEAN
  PROVE  /\ Score(reads, upright) \in Nat
         /\ reads # "misread" => Score(reads, TRUE) >= Score(reads, FALSE)
<1>1. CASE reads = "clear"
  BY <1>1 DEF Score
<1>2. CASE reads = "misread"
  BY <1>2 DEF Score
<1>3. CASE reads = "poor"
  BY <1>3 DEF Score
<1> QED
  BY <1>1, <1>2, <1>3 DEF Reads

\* The scores of each line are those of the end on the left.
LEMMA ReadingsAre ==
  ASSUME NEW lines \in Seq(Line), NEW upright \in BOOLEAN
  PROVE  /\ DOMAIN Readings(lines, upright) = 1..Len(lines)
         /\ PairsFit(Readings(lines, upright), Len(lines))
         /\ \A i \in 1..Len(lines) :
              /\ lines[i] \in Line /\ LeftEnd(lines[i], upright) \in Reads
              /\ Readings(lines, upright)[i][1] = Score(LeftEnd(lines[i], upright), upright)
              /\ Readings(lines, upright)[i][2] = Score(LeftEnd(lines[i], upright), ~upright)
<1>1. DOMAIN lines = 1..Len(lines) /\ Len(lines) \in Nat /\ DOMAIN Readings(lines, upright) = 1..Len(lines)
  BY LenProperties DEF Readings
<1>2. ASSUME NEW i \in 1..Len(lines)
      PROVE  /\ lines[i] \in Line /\ LeftEnd(lines[i], upright) \in Reads
             /\ Readings(lines, upright)[i][1] = Score(LeftEnd(lines[i], upright), upright)
             /\ Readings(lines, upright)[i][2] = Score(LeftEnd(lines[i], upright), ~upright)
             /\ Readings(lines, upright)[i][1] \in Nat /\ Readings(lines, upright)[i][2] \in Nat
  <2>1. lines[i] \in Line
    BY ElementOfSeq
  <2>2. LeftEnd(lines[i], upright) \in Reads
    BY <2>1 DEF LeftEnd, Line
  <2>3. Readings(lines, upright)[i] = <<Score(LeftEnd(lines[i], upright), upright),
                                        Score(LeftEnd(lines[i], upright), ~upright)>>
    BY <1>1 DEF Readings
  <2>4. /\ Score(LeftEnd(lines[i], upright), upright) \in Nat
        /\ Score(LeftEnd(lines[i], upright), ~upright) \in Nat
    <3>1. (~upright) \in BOOLEAN
      OBVIOUS
    <3> QED
      BY <2>2, <3>1, ScoreIs
  <2>5. /\ Readings(lines, upright)[i][1] = Score(LeftEnd(lines[i], upright), upright)
        /\ Readings(lines, upright)[i][2] = Score(LeftEnd(lines[i], upright), ~upright)
    BY <2>3
  <2> QED
    BY <2>1, <2>2, <2>4, <2>5
<1> QED
  BY <1>1, <1>2 DEF PairsFit

\* A half turn swaps the two scores of a line whose ends are alike.
LEMMA HalfTurnSwaps ==
  ASSUME NEW lines \in Seq(Line), NEW upright \in BOOLEAN, \A i \in 1..Len(lines) : lines[i].start = lines[i].end
  PROVE  \A i \in 1..Len(lines) :
           /\ Readings(lines, ~upright)[i][1] = Readings(lines, upright)[i][2]
           /\ Readings(lines, ~upright)[i][2] = Readings(lines, upright)[i][1]
<1> SUFFICES ASSUME NEW i \in 1..Len(lines)
             PROVE  /\ Readings(lines, ~upright)[i][1] = Readings(lines, upright)[i][2]
                    /\ Readings(lines, ~upright)[i][2] = Readings(lines, upright)[i][1]
  OBVIOUS
<1>1. LeftEnd(lines[i], ~upright) = LeftEnd(lines[i], upright)
  BY DEF LeftEnd
<1>2. \A u \in BOOLEAN : /\ Readings(lines, u)[i][1] = Score(LeftEnd(lines[i], u), u)
                         /\ Readings(lines, u)[i][2] = Score(LeftEnd(lines[i], u), ~u)
  BY ReadingsAre
<1>3. CASE upright = TRUE
  BY <1>1, <1>2, <1>3
<1>4. CASE upright = FALSE
  BY <1>1, <1>2, <1>4
<1> QED
  BY <1>3, <1>4

\* The votes are numbers, and lines whose scores are swapped vote the other way.
LEMMA VotesAre ==
  ASSUME NEW pairs, NEW n, PairsFit(pairs, n)
  PROVE  /\ Up(pairs) \in Nat /\ Down(pairs) \in Nat
         /\ (\A i \in Evidence(pairs) : pairs[i][1] >= pairs[i][2]) => Down(pairs) = 0
         /\ (\A i \in Evidence(pairs) : pairs[i][2] >= pairs[i][1]) => Up(pairs) = 0
         /\ (\E i \in Evidence(pairs) : pairs[i][2] > pairs[i][1]) => Down(pairs) > 0
         /\ IsFiniteSet(Evidence(pairs))
<1> DEFINE E == Evidence(pairs)
           up == [i \in E |-> pairs[i][1] - pairs[i][2]]
           down == [i \in E |-> pairs[i][2] - pairs[i][1]]
<1>1. E \subseteq 1..n /\ n \in Nat
  BY DEF Evidence, PairsFit
<1>2. IsFiniteSet(E)
  <2>1. IsFiniteSet(1..n)
    BY <1>1, FS_Interval
  <2> HIDE DEF E
  <2> QED
    BY <1>1, <2>1, FS_Subset
<1>3. Up(pairs) = Total(up) /\ Down(pairs) = Total(down)
  BY DEF Up, Down
<1> HIDE DEF E
<1>4. \A i \in E : pairs[i][1] \in Nat /\ pairs[i][2] \in Nat
  BY <1>1 DEF PairsFit
<1>5. /\ DOMAIN up = E /\ DOMAIN down = E
      /\ \A i \in E : /\ up[i] = pairs[i][1] - pairs[i][2] /\ up[i] \in Int
                      /\ down[i] = pairs[i][2] - pairs[i][1] /\ down[i] \in Int
  BY <1>4
<1> HIDE DEF up, down
<1>6. Total(up) \in Nat /\ ((\A i \in E : up[i] <= 0) => Total(up) = 0)
  BY <1>2, <1>5, TotalIs
<1>7. /\ Total(down) \in Nat /\ ((\A i \in E : down[i] <= 0) => Total(down) = 0)
      /\ (\E i \in E : down[i] > 0) => Total(down) > 0
  BY <1>2, <1>5, TotalIs
<1>8. \A i \in E : /\ pairs[i][1] >= pairs[i][2] => down[i] <= 0
                   /\ pairs[i][2] >= pairs[i][1] => up[i] <= 0
                   /\ pairs[i][2] > pairs[i][1] => down[i] > 0
  BY <1>4, <1>5
<1> QED
  BY <1>2, <1>3, <1>6, <1>7, <1>8 DEF E

LEMMA SwappedVotes ==
  ASSUME NEW pairs, NEW n, PairsFit(pairs, n), NEW other, DOMAIN other = 1..n,
         \A i \in 1..n : other[i][1] = pairs[i][2] /\ other[i][2] = pairs[i][1]
  PROVE  Up(other) = Down(pairs) /\ Down(other) = Up(pairs)
<1>1. DOMAIN pairs = 1..n /\ \A i \in 1..n : pairs[i][1] \in Nat /\ pairs[i][2] \in Nat
  BY DEF PairsFit
<1>2. \A a, b \in Int : Larger(a, b) = Larger(b, a)
  BY DEF Larger
<1>3. Evidence(other) = Evidence(pairs)
  <2>1. ASSUME NEW i \in 1..n
        PROVE  /\ Larger(other[i][1] - other[i][2], other[i][2] - other[i][1])
                    = Larger(pairs[i][1] - pairs[i][2], pairs[i][2] - pairs[i][1])
               /\ Larger(other[i][1], other[i][2]) = Larger(pairs[i][1], pairs[i][2])
    <3>1. other[i][1] = pairs[i][2] /\ other[i][2] = pairs[i][1]
      OBVIOUS
    <3>2. /\ pairs[i][1] \in Int /\ pairs[i][2] \in Int
          /\ pairs[i][1] - pairs[i][2] \in Int /\ pairs[i][2] - pairs[i][1] \in Int
      BY <1>1
    <3>3. /\ Larger(pairs[i][2] - pairs[i][1], pairs[i][1] - pairs[i][2])
               = Larger(pairs[i][1] - pairs[i][2], pairs[i][2] - pairs[i][1])
          /\ Larger(pairs[i][2], pairs[i][1]) = Larger(pairs[i][1], pairs[i][2])
      BY <1>2, <3>2
    <3> QED
      BY <3>1, <3>3, Zenon
  <2> QED
    BY <1>1, <2>1 DEF Evidence
<1>4. Evidence(pairs) \subseteq 1..n
  BY <1>1 DEF Evidence
<1>5. /\ [i \in Evidence(other) |-> other[i][1] - other[i][2]] = [i \in Evidence(pairs) |-> pairs[i][2] - pairs[i][1]]
      /\ [i \in Evidence(other) |-> other[i][2] - other[i][1]] = [i \in Evidence(pairs) |-> pairs[i][1] - pairs[i][2]]
  BY <1>3, <1>4
<1> QED
  BY <1>5 DEF Up, Down


\* What Classify answers.
LEMMA VerdictIs ==
  ASSUME NEW scan
  PROVE  \/ Classify(scan).rotation = 0
         \/ /\ Classify(scan).rotation = RotationFor(Sideways(scan), Down(ScoresOf(scan)) > Up(ScoresOf(scan)))
            /\ ~(Len(ReadLines(scan)) < MinDecisive)
            /\ ~(Cardinality(Evidence(ScoresOf(scan))) < MinDecisive)
<1> DEFINE lines == Detected(scan.lines)
           verdict == Decide(ScoresOf(scan), Length(Chosen(scan)), Length(lines), Sideways(scan))
<1>1. Classify(scan) = IF Len(lines) < MinLines \/ Length(lines) = 0 \/ Len(ReadLines(scan)) < MinDecisive
                       THEN Undecided ELSE verdict
  BY Zenon DEF Classify, ScoresOf
<1>2. verdict = IF Cardinality(Evidence(ScoresOf(scan))) < MinDecisive THEN Undecided
                ELSE [rotation |-> RotationFor(Sideways(scan), Down(ScoresOf(scan)) > Up(ScoresOf(scan))),
                      confidence |-> verdict.confidence]
  BY DEF Decide, Undecided
<1> HIDE DEF verdict, lines
<1>3. Undecided.rotation = 0
  BY DEF Undecided
<1>4. CASE Len(ReadLines(scan)) < MinDecisive \/ Cardinality(Evidence(ScoresOf(scan))) < MinDecisive
  BY <1>1, <1>2, <1>3, <1>4
<1>5. CASE ~(Len(ReadLines(scan)) < MinDecisive) /\ ~(Cardinality(Evidence(ScoresOf(scan))) < MinDecisive)
  <2>1. verdict.rotation = RotationFor(Sideways(scan), Down(ScoresOf(scan)) > Up(ScoresOf(scan)))
    BY <1>2, <1>5
  <2> QED
    BY <1>1, <1>3, <1>5, <2>1
<1> QED
  BY <1>4, <1>5

LEMMA PartsAre ==
  ASSUME NEW S, S \subseteq Line, NEW scan, scan.turn \in 0..3, scan.lines \in Seq(S)
  PROVE  /\ Across(scan) \in Seq(S) /\ Downward(scan) \in Seq(S)
         /\ Chosen(scan) \in Seq(S) /\ ReadLines(scan) \in Seq(S)
         /\ Len(Chosen(scan)) <= Len(scan.lines)
         /\ Length(Across(scan)) \in Nat /\ Length(Downward(scan)) \in Nat
         /\ Sideways(scan) \in BOOLEAN /\ Along(scan) \in BOOLEAN /\ Upright(scan) \in BOOLEAN
         /\ Sideways(scan) <=> Length(Downward(scan)) > Length(Across(scan))
         /\ PairsFit(ScoresOf(scan), Len(ReadLines(scan)))
         /\ Len(Chosen(scan)) = 0 => Len(ReadLines(scan)) = 0
<1>1. (scan.turn % 2 = 0) \in BOOLEAN /\ (scan.turn % 2 = 1) \in BOOLEAN
  OBVIOUS
<1>2. Detected(scan.lines) \in Seq(S) /\ Len(Detected(scan.lines)) <= Len(scan.lines)
  BY LinesAreKept
<1>3. Across(scan) \in Seq(S) /\ Downward(scan) \in Seq(S)
  BY <1>1, <1>2, LinesAreKept DEF Across, Downward
<1>4. Sideways(scan) \in BOOLEAN /\ Along(scan) \in BOOLEAN /\ Upright(scan) \in BOOLEAN
      /\ (Sideways(scan) <=> Length(Downward(scan)) > Length(Across(scan)))
  <2>1. Sideways(scan) = (Length(Downward(scan)) > Length(Across(scan)))
    BY Zenon DEF Sideways, Downward, Across
  <2>2. (Length(Downward(scan)) > Length(Across(scan))) \in BOOLEAN
    OBVIOUS
  <2>3. Along(scan) \in BOOLEAN
    BY DEF Along
  <2>4. Upright(scan) \in BOOLEAN
    BY DEF Upright
  <2> QED
    BY <2>1, <2>2, <2>3, <2>4
<1>5. Chosen(scan) \in Seq(S) /\ Len(Chosen(scan)) <= Len(Detected(scan.lines))
  BY <1>2, <1>4, LinesAreKept DEF Chosen
<1>6. Longest(Chosen(scan), Upright(scan)) \in Seq(S)
      /\ (Len(Chosen(scan)) = 0 => Len(Longest(Chosen(scan), Upright(scan))) = 0)
  <2>1. \A l \in S : l.length \in Nat
    BY DEF Line
  <2> QED
    BY <1>4, <1>5, <2>1, LongestAre
<1>7. ReadLines(scan) \in Seq(S)
      /\ (Len(Longest(Chosen(scan), Upright(scan))) = 0 => Len(ReadLines(scan)) = 0)
  BY <1>6, LinesAreKept DEF ReadLines
<1>8. \A lines \in Seq(S) : lines \in Seq(Line) /\ Len(lines) \in Nat
  OBVIOUS
<1>9. Length(Across(scan)) \in Nat /\ Length(Downward(scan)) \in Nat
  BY <1>3, <1>8, LengthIs
<1>10. PairsFit(ScoresOf(scan), Len(ReadLines(scan)))
  BY <1>4, <1>7, <1>8, ReadingsAre DEF ScoresOf
<1>11. Len(Chosen(scan)) <= Len(scan.lines)
  BY <1>2, <1>5, <1>8
<1> QED
  BY <1>3, <1>4, <1>5, <1>6, <1>7, <1>9, <1>10, <1>11

\* Which way up the lines of the axis are shown, for each turn of the print.
LEMMA UprightIs ==
  ASSUME NEW scan, scan.turn \in 0..3, Sideways(scan) \in BOOLEAN
  PROVE  /\ Along(scan) /\ Sideways(scan) => scan.turn \in {1, 3} /\ (Upright(scan) <=> scan.turn = 3)
         /\ Along(scan) /\ ~Sideways(scan) => scan.turn \in {0, 2} /\ (Upright(scan) <=> scan.turn = 0)
         /\ ~Along(scan) /\ Sideways(scan) => scan.turn \in {0, 2} /\ (Upright(scan) <=> scan.turn = 2)
         /\ ~Along(scan) /\ ~Sideways(scan) => scan.turn \in {1, 3} /\ (Upright(scan) <=> scan.turn = 3)
<1> DEFINE t == scan.turn
           half == IF Sideways(scan) THEN 1 ELSE 0
           stray == IF Along(scan) THEN 0 ELSE 1
<1>1. t \in 0..3 /\ half \in 0..1 /\ stray \in 0..1
  OBVIOUS
<1>2. /\ Sideways(scan) => half = 1
      /\ ~Sideways(scan) => half = 0
      /\ Along(scan) => stray = 0
      /\ ~Along(scan) => stray = 1
  OBVIOUS
<1>3. Upright(scan) <=> (t + half + stray) % 4 = 0
  BY DEF Upright
<1>4. Along(scan) <=> (t % 2 = 1 <=> Sideways(scan))
  BY DEF Along
<1> HIDE DEF t, half, stray
<1>5. t % 2 = 1 <=> t \in {1, 3}
  BY <1>1
<1>6. (t + half + stray) % 4 = 0 <=> t + half + stray \in {0, 4}
  <2>1. \A n \in 0..5 : n % 4 = 0 <=> n \in {0, 4}
    OBVIOUS
  <2>2. t + half + stray \in 0..5
    BY <1>1
  <2> QED
    BY <2>1, <2>2
<1>7. t \in {0, 2} <=> ~(t \in {1, 3})
  BY <1>1
<1>8. CASE Along(scan) /\ Sideways(scan)
  BY <1>1, <1>2, <1>3, <1>4, <1>5, <1>6, <1>8 DEF t
<1>9. CASE Along(scan) /\ ~Sideways(scan)
  BY <1>1, <1>2, <1>3, <1>4, <1>5, <1>6, <1>7, <1>9 DEF t
<1>10. CASE ~Along(scan) /\ Sideways(scan)
  BY <1>1, <1>2, <1>3, <1>4, <1>5, <1>6, <1>7, <1>10 DEF t
<1>11. CASE ~Along(scan) /\ ~Sideways(scan)
  BY <1>1, <1>2, <1>3, <1>4, <1>5, <1>6, <1>11 DEF t
<1> QED
  BY <1>8, <1>9, <1>10, <1>11

\* A scan of the application has a turn and lines, and its correction turns it.
LEMMA CorrectedIs ==
  ASSUME NEW scan \in ScannedPage
  PROVE  LET c == Correction(Classify(scan)) IN
         /\ scan.turn \in 0..3 /\ scan.lines \in Seq(Line) /\ Corrected(scan) \in ScannedPage
         /\ Corrected(scan).lines = scan.lines
         /\ c \in {0, 90, 180, 270} /\ Corrected(scan).turn = (scan.turn + c \div 90) % 4
         /\ Corrected(scan).turn \in 0..3
         /\ c # 0 => c = Classify(scan).rotation
         /\ c = 0 => Corrected(scan) = scan
<1> DEFINE c == Correction(Classify(scan))
<1>1. scan.turn \in 0..3 /\ scan.lines \in Seq(Line)
      /\ scan = [turn |-> scan.turn, text |-> scan.text, lines |-> scan.lines]
  BY DEF ScannedPage, Line, Reads
<1>2. c \in {0, 90, 180, 270} /\ (c # 0 => c = Classify(scan).rotation)
  BY DEF Correction
<1>3. Corrected(scan) = [scan EXCEPT !.turn = (scan.turn + c \div 90) % 4]
  BY DEF Corrected
<1> HIDE DEF c
<1>4. Corrected(scan).lines = scan.lines /\ Corrected(scan).turn = (scan.turn + c \div 90) % 4
      /\ Corrected(scan) = [turn |-> (scan.turn + c \div 90) % 4, text |-> scan.text, lines |-> scan.lines]
  BY <1>1, <1>3
<1>5. c \div 90 \in 0..3 /\ (c = 0 => c \div 90 = 0)
  BY <1>2
<1>6. (scan.turn + c \div 90) % 4 \in 0..3 /\ (c = 0 => (scan.turn + c \div 90) % 4 = scan.turn)
  BY <1>1, <1>5
<1>7. Corrected(scan) \in ScannedPage
  BY <1>4, <1>6 DEF ScannedPage
<1> QED
  BY <1>1, <1>2, <1>4, <1>6, <1>7 DEF c


\* A page that is turned shows the lines of its axis across: the same lines, the same way
\* up after a quarter turn, and the other way up after the turns of a flip.
LEMMA TurnedShows ==
  ASSUME NEW scan \in ScannedPage, Correction(Classify(scan)) # 0
  PROVE  LET c == Correction(Classify(scan))  next == Corrected(scan) IN
         /\ ~Sideways(next) /\ Chosen(next) = Chosen(scan)
         /\ c = 90 => Upright(next) = Upright(scan) /\ ~(Down(ScoresOf(scan)) > Up(ScoresOf(scan)))
         /\ c # 90 => Upright(next) = ~Upright(scan) /\ Down(ScoresOf(scan)) > Up(ScoresOf(scan))
<1> DEFINE c == Correction(Classify(scan))
           next == Corrected(scan)
           sideways == Sideways(scan)
           flip == Down(ScoresOf(scan)) > Up(ScoresOf(scan))
<1>1. /\ scan.turn \in 0..3 /\ scan.lines \in Seq(Line) /\ next.lines = scan.lines
      /\ next.turn = (scan.turn + c \div 90) % 4 /\ next.turn \in 0..3
      /\ c = Classify(scan).rotation
  BY CorrectedIs
<1>2. c = RotationFor(sideways, flip) /\ sideways \in BOOLEAN /\ flip \in BOOLEAN
  BY <1>1, VerdictIs, PartsAre
<1>3. \/ c = 180 /\ ~sideways /\ flip
      \/ c = 90 /\ sideways /\ ~flip
      \/ c = 270 /\ sideways /\ flip
  <2> HIDE DEF c, sideways, flip
  <2>1. c # 0
    BY DEF c
  <2> QED
    BY <1>2, <2>1 DEF RotationFor
<1>4. /\ c = 180 => next.turn = (scan.turn + 2) % 4
      /\ c = 90 => next.turn = (scan.turn + 1) % 4
      /\ c = 270 => next.turn = (scan.turn + 3) % 4
  <2> HIDE DEF c, next
  <2>1. 180 \div 90 = 2 /\ 90 \div 90 = 1 /\ 270 \div 90 = 3
    OBVIOUS
  <2> QED
    BY <1>1, <2>1
<1>5. /\ ~sideways => (next.turn % 2 = 0) = (scan.turn % 2 = 0) /\ (next.turn % 2 = 1) = (scan.turn % 2 = 1)
      /\ sideways => (next.turn % 2 = 0) = (scan.turn % 2 = 1) /\ (next.turn % 2 = 1) = (scan.turn % 2 = 0)
  <2> HIDE DEF c, next, sideways, flip
  <2>1. \A t \in 0..3 : (t % 2 = 0 <=> t \in {0, 2}) /\ (t % 2 = 1 <=> t \in {1, 3})
    OBVIOUS
  <2>2. \A t \in 0..3 : /\ (t + 2) % 4 = IF t \in {0, 1} THEN t + 2 ELSE t - 2
                        /\ (t + 1) % 4 = IF t = 3 THEN 0 ELSE t + 1
                        /\ (t + 3) % 4 = IF t = 0 THEN 3 ELSE t - 1
    OBVIOUS
  <2>3. /\ ~sideways => (next.turn \in {0, 2} <=> scan.turn \in {0, 2})
        /\ sideways => (next.turn \in {0, 2} <=> scan.turn \in {1, 3})
    BY <1>1, <1>3, <1>4, <2>2
  <2>4. next.turn \in {0, 2} <=> ~(next.turn \in {1, 3})
    BY <1>1
  <2>5. scan.turn \in {0, 2} <=> ~(scan.turn \in {1, 3})
    BY <1>1
  <2> QED
    BY <1>1, <2>1, <2>3, <2>4, <2>5
<1>6. /\ Length(Across(scan)) \in Nat /\ Length(Downward(scan)) \in Nat
      /\ sideways <=> Length(Downward(scan)) > Length(Across(scan))
      /\ Sideways(next) <=> Length(Downward(next)) > Length(Across(next))
  BY <1>1, PartsAre
<1>7. ~Sideways(next)
  <2>1. /\ ~sideways => Across(next) = Across(scan) /\ Downward(next) = Downward(scan)
        /\ sideways => Across(next) = Downward(scan) /\ Downward(next) = Across(scan)
    BY <1>1, <1>5, Zenon DEF Across, Downward
  <2> HIDE DEF sideways, next
  <2> QED
    BY <1>6, <2>1
<1>8. Along(next) = Along(scan) /\ Sideways(next) \in BOOLEAN
  <2>1. Sideways(next) = FALSE
    BY <1>1, <1>7, PartsAre
  <2>2. Along(next) = ((next.turn % 2 = 1) = FALSE) /\ Along(scan) = ((scan.turn % 2 = 1) = sideways)
    BY <2>1 DEF Along
  <2>3. (next.turn % 2 = 1) = IF sideways THEN scan.turn % 2 = 0 ELSE scan.turn % 2 = 1
    BY <1>2, <1>5
  <2>4. (scan.turn % 2 = 0) = ~(scan.turn % 2 = 1)
    <3>1. \A t \in 0..3 : t % 2 = 0 <=> ~(t % 2 = 1)
      OBVIOUS
    <3> QED
      BY <1>1, <3>1
  <2> HIDE DEF sideways, next
  <2> QED
    BY <1>2, <2>1, <2>2, <2>3, <2>4
<1>9. Chosen(next) = Chosen(scan)
  BY <1>1, <1>8 DEF Chosen
<1>10. Upright(next) \in BOOLEAN /\ Upright(scan) \in BOOLEAN /\ Along(scan) \in BOOLEAN /\ Sideways(next) = FALSE
  BY <1>1, <1>7, <1>8, PartsAre
<1>11. /\ Along(scan) /\ sideways => scan.turn \in {1, 3} /\ (Upright(scan) <=> scan.turn = 3)
       /\ Along(scan) /\ ~sideways => scan.turn \in {0, 2} /\ (Upright(scan) <=> scan.turn = 0)
       /\ ~Along(scan) /\ sideways => scan.turn \in {0, 2} /\ (Upright(scan) <=> scan.turn = 2)
       /\ ~Along(scan) /\ ~sideways => scan.turn \in {1, 3} /\ (Upright(scan) <=> scan.turn = 3)
  BY <1>1, <1>2, UprightIs
<1>12. /\ Along(scan) => next.turn \in {0, 2} /\ (Upright(next) <=> next.turn = 0)
       /\ ~Along(scan) => next.turn \in {1, 3} /\ (Upright(next) <=> next.turn = 3)
  BY <1>1, <1>7, <1>8, UprightIs
<1>13. /\ c = 90 => (Upright(next) <=> Upright(scan))
       /\ c # 90 => (Upright(next) <=> ~Upright(scan))
  <2> HIDE DEF c, next, sideways, flip
  <2>1. /\ 0 + 2 = 2 /\ 1 + 2 = 3 /\ 2 % 4 = 2 /\ 3 % 4 = 3 /\ (2 + 2) % 4 = 0 /\ (3 + 2) % 4 = 1
        /\ (0 + 1) % 4 = 1 /\ (1 + 1) % 4 = 2 /\ (2 + 1) % 4 = 3 /\ (3 + 1) % 4 = 0
        /\ (0 + 3) % 4 = 3 /\ (1 + 3) % 4 = 0 /\ (2 + 3) % 4 = 1 /\ (3 + 3) % 4 = 2
        /\ (0 + 2) % 4 = 2 /\ (1 + 2) % 4 = 3
    OBVIOUS
  <2>2. scan.turn = 0 \/ scan.turn = 1 \/ scan.turn = 2 \/ scan.turn = 3
    BY <1>1
  <2>3. CASE c = 180
    BY <1>3, <1>4, <1>11, <1>12, <2>1, <2>2, <2>3
  <2>4. CASE c = 90
    BY <1>3, <1>4, <1>11, <1>12, <2>1, <2>2, <2>4
  <2>5. CASE c = 270
    BY <1>3, <1>4, <1>11, <1>12, <2>1, <2>2, <2>5
  <2> QED
    BY <1>3, <2>3, <2>4, <2>5
<1>14. /\ c = 90 => Upright(next) = Upright(scan)
       /\ c # 90 => Upright(next) = ~Upright(scan)
  <2>1. CASE Upright(scan) = TRUE
    BY <1>10, <1>13, <2>1
  <2>2. CASE Upright(scan) = FALSE
    BY <1>10, <1>13, <2>2
  <2> QED
    BY <1>10, <2>1, <2>2
<1> QED
  BY <1>3, <1>7, <1>9, <1>14

\* A page is never answered a quarter turn again, and nothing at all when the reader is
\* shown the same ends of the same lines, or the ends of all lines are alike.
LEMMA CorrectedIsSettled ==
  ASSUME NEW scan \in ScannedPage
  PROVE  LET again == Correction(Classify(Corrected(scan))) IN
         /\ again \in {0, 180}
         /\ Correction(Classify(scan)) \in {0, 90} \/ ReadWhole(scan) => again = 0
<1> DEFINE c == Correction(Classify(scan))
           next == Corrected(scan)
           up == Up(ScoresOf(scan))
           down == Down(ScoresOf(scan))
           read == ReadLines(scan)
<1>1. /\ scan.turn \in 0..3 /\ scan.lines \in Seq(Line) /\ next.lines = scan.lines
      /\ next.turn \in 0..3 /\ (c = 0 => next = scan)
  BY CorrectedIs
<1>2. CASE c = 0
  BY <1>1, <1>2
<1>3. CASE c # 0
  <2>1. /\ ~Sideways(next) /\ Chosen(next) = Chosen(scan)
        /\ c = 90 => Upright(next) = Upright(scan) /\ ~(down > up)
        /\ c # 90 => Upright(next) = ~Upright(scan) /\ down > up
    BY <1>3, TurnedShows
  <2>2. /\ read \in Seq(Line) /\ PairsFit(ScoresOf(scan), Len(read)) /\ Upright(scan) \in BOOLEAN
        /\ Chosen(scan) \in Seq(Line) /\ Len(Chosen(scan)) <= Len(scan.lines)
        /\ Sideways(next) = FALSE
    BY <1>1, <2>1, PartsAre
  <2>3. up \in Nat /\ down \in Nat
    BY <2>2, VotesAre
  <2>4. Correction(Classify(next)) \in {0, 180}
        /\ (~(Down(ScoresOf(next)) > Up(ScoresOf(next))) => Correction(Classify(next)) = 0)
    <3> DEFINE flips == Down(ScoresOf(next)) > Up(ScoresOf(next))
    <3>1. Classify(next).rotation = 0 \/ Classify(next).rotation = RotationFor(FALSE, flips)
      BY <2>2, VerdictIs
    <3>2. RotationFor(FALSE, flips) \in {0, 180} /\ (~flips => RotationFor(FALSE, flips) = 0)
      BY DEF RotationFor
    <3> HIDE DEF flips
    <3>3. Classify(next).rotation \in {0, 180} /\ (~flips => Classify(next).rotation = 0)
      BY <3>1, <3>2
    <3>4. Correction(Classify(next)) \in {0, Classify(next).rotation}
      BY DEF Correction
    <3> QED
      BY <3>3, <3>4 DEF flips
  <2>5. CASE c = 90
    <3>1. ScoresOf(next) = ScoresOf(scan)
      BY <2>1, <2>5 DEF ScoresOf, ReadLines
    <3> QED
      BY <2>1, <2>4, <2>5, <3>1
  <2>6. ASSUME c # 90, ReadWhole(scan) PROVE Correction(Classify(next)) = 0
    <3> DEFINE Alike == {l \in Line : l.start = l.end}
    <3>1. scan.lines \in Seq(Alike) /\ Len(scan.lines) <= MaxReadLines
      <4>1. DOMAIN scan.lines = 1..Len(scan.lines) /\ Len(scan.lines) \in Nat
            /\ \A i \in 1..Len(scan.lines) : scan.lines[i] \in Line
        BY <1>1, LenProperties, ElementOfSeq
      <4>2. \A i \in 1..Len(scan.lines) : scan.lines[i] \in Alike
        BY <2>6, <4>1 DEF ReadWhole
      <4> HIDE DEF Alike
      <4>3. scan.lines = [i \in 1..Len(scan.lines) |-> scan.lines[i]]
        BY <1>1, <4>1
      <4>4. scan.lines \in [1..Len(scan.lines) -> Alike]
        BY <4>2, <4>3
      <4> QED
        BY <2>6, <4>1, <4>4 DEF ReadWhole
    <3>2. Alike \subseteq Line /\ \A l \in Alike : l.start = l.end
      OBVIOUS
    <3> HIDE DEF Alike
    <3>3. read \in Seq(Alike)
      BY <1>1, <3>1, <3>2, PartsAre
    <3>4. \A i \in 1..Len(read) : read[i].start = read[i].end
      BY <3>2, <3>3, ElementOfSeq
    <3>5. ReadLines(next) = read
      <4>1. Len(Chosen(scan)) <= MaxReadLines
        <5>1. Len(Chosen(scan)) \in Nat /\ Len(scan.lines) \in Nat /\ MaxReadLines \in Int
          BY <1>1, <2>2, LenProperties, OrientationAssumption
        <5> QED
          BY <2>2, <3>1, <5>1
      <4>2. \A u \in BOOLEAN : Longest(Chosen(scan), u) = Picked(Chosen(scan), DOMAIN Chosen(scan))
        <5>1. \A l \in Line : l.length \in Nat
          BY DEF Line
        <5> QED
          BY <2>2, <4>1, <5>1, LongestAre
      <4>3. Upright(next) \in BOOLEAN /\ Upright(scan) \in BOOLEAN
        BY DEF Upright
      <4>4. Longest(Chosen(scan), Upright(next)) = Longest(Chosen(scan), Upright(scan))
        BY <4>2, <4>3
      <4> QED
        BY <2>1, <4>4 DEF ReadLines
    <3>6. ScoresOf(next) = Readings(read, ~Upright(scan)) /\ ScoresOf(scan) = Readings(read, Upright(scan))
      BY <2>1, <2>6, <3>5 DEF ScoresOf
    <3>7. Up(ScoresOf(next)) = down /\ Down(ScoresOf(next)) = up
      <4> HIDE DEF read, next
      <4>1. DOMAIN ScoresOf(next) = 1..Len(read)
        BY <2>2, <3>6, ReadingsAre
      <4>2. \A i \in 1..Len(read) : /\ ScoresOf(next)[i][1] = ScoresOf(scan)[i][2]
                                    /\ ScoresOf(next)[i][2] = ScoresOf(scan)[i][1]
        BY <2>2, <3>4, <3>6, HalfTurnSwaps
      <4> QED
        BY <2>2, <4>1, <4>2, SwappedVotes
    <3>8. ~(Down(ScoresOf(next)) > Up(ScoresOf(next)))
      BY <2>1, <2>3, <2>6, <3>7
    <3> QED
      BY <2>4, <3>8
  <2> QED
    BY <1>3, <2>4, <2>5, <2>6
<1> QED
  BY <1>2, <1>3

\* Lines that all run along the print and read better upright turn the page upright.
LEMMA PlainPrintIsTurnedUpright ==
  ASSUME NEW scan \in ScannedPage, Correction(Classify(scan)) # 0, PlainPrint(scan)
  PROVE  Corrected(scan).turn = 0
<1> DEFINE c == Correction(Classify(scan))
           Plain == {l \in Line : l.along /\ l.start # "misread" /\ l.end # "misread"}
           sideways == Sideways(scan)
           upright == Upright(scan)
           pairs == ScoresOf(scan)
           read == ReadLines(scan)
<1>1. /\ scan.turn \in 0..3 /\ scan.lines \in Seq(Line)
      /\ c \in {90, 180, 270} /\ Corrected(scan).turn = (scan.turn + c \div 90) % 4
      /\ c = Classify(scan).rotation
  BY CorrectedIs
<1>2. scan.lines \in Seq(Plain)
  <2>1. DOMAIN scan.lines = 1..Len(scan.lines) /\ Len(scan.lines) \in Nat
        /\ \A i \in 1..Len(scan.lines) : scan.lines[i] \in Line
    BY <1>1, LenProperties, ElementOfSeq
  <2>2. \A i \in 1..Len(scan.lines) : scan.lines[i] \in Plain
    BY <2>1 DEF PlainPrint
  <2> HIDE DEF Plain
  <2>3. scan.lines = [i \in 1..Len(scan.lines) |-> scan.lines[i]]
    BY <1>1, <2>1
  <2>4. scan.lines \in [1..Len(scan.lines) -> Plain]
    BY <2>2, <2>3
  <2> QED
    BY <2>1, <2>4
<1>3. Plain \subseteq Line /\ \A l \in Plain : l.along = TRUE /\ l.along # FALSE
  BY DEF Line
<1> HIDE DEF Plain
<1>4. /\ read \in Seq(Plain) /\ PairsFit(pairs, Len(read)) /\ sideways \in BOOLEAN /\ upright \in BOOLEAN
      /\ Along(scan) \in BOOLEAN /\ (Len(Chosen(scan)) = 0 => Len(read) = 0)
  <2>1. scan.turn \in 0..3 /\ Plain \subseteq Line
    BY <1>1, <1>3
  <2> QED
    BY <1>2, <2>1, PartsAre
<1>5. /\ c = RotationFor(sideways, Down(pairs) > Up(pairs))
      /\ ~(Len(read) < MinDecisive) /\ ~(Cardinality(Evidence(pairs)) < MinDecisive)
  BY <1>1, VerdictIs
<1>6. Along(scan)
  <2>1. SUFFICES ASSUME ~Along(scan) PROVE FALSE
    OBVIOUS
  <2>2. Detected(scan.lines) \in Seq(Plain)
    BY <1>2, LinesAreKept
  <2>3. Len(OnAxis(Detected(scan.lines), FALSE)) = 0
    BY <1>3, <2>2, LinesAreKept
  <2>4. Len(read) = 0
    BY <1>4, <2>1, <2>3 DEF Chosen
  <2> QED
    BY <1>5, <2>4, OrientationAssumption
<1>7. (sideways <=> scan.turn \in {1, 3}) /\ (upright <=> scan.turn \in {0, 3})
  <2>1. /\ sideways => scan.turn \in {1, 3} /\ (upright <=> scan.turn = 3)
        /\ ~sideways => scan.turn \in {0, 2} /\ (upright <=> scan.turn = 0)
    BY <1>1, <1>4, <1>6, UprightIs
  <2> HIDE DEF sideways, upright
  <2> QED
    BY <1>4, <2>1
<1>8. \A i \in 1..Len(read) : /\ upright => pairs[i][1] >= pairs[i][2]
                              /\ ~upright => pairs[i][2] >= pairs[i][1]
  <2> SUFFICES ASSUME NEW i \in 1..Len(read)
               PROVE  /\ upright => pairs[i][1] >= pairs[i][2]
                      /\ ~upright => pairs[i][2] >= pairs[i][1]
    OBVIOUS
  <2>1. pairs = Readings(read, upright)
    BY DEF ScoresOf
  <2> HIDE DEF read, upright, pairs
  <2>2. read \in Seq(Line) /\ read[i] \in Plain
    BY <1>3, <1>4, ElementOfSeq
  <2>3. /\ LeftEnd(read[i], upright) \in Reads
        /\ pairs[i][1] = Score(LeftEnd(read[i], upright), upright)
        /\ pairs[i][2] = Score(LeftEnd(read[i], upright), ~upright)
    BY <1>4, <2>1, <2>2, ReadingsAre
  <2>4. LeftEnd(read[i], upright) # "misread"
    BY <2>2 DEF Plain, LeftEnd
  <2>5. Score(LeftEnd(read[i], upright), TRUE) >= Score(LeftEnd(read[i], upright), FALSE)
    BY <1>4, <2>3, <2>4, ScoreIs
  <2>6. CASE upright = TRUE
    BY <2>3, <2>5, <2>6
  <2>7. CASE upright = FALSE
    BY <2>3, <2>5, <2>7
  <2> QED
    BY <1>4, <2>6, <2>7
<1>9. /\ Up(pairs) \in Nat /\ Down(pairs) \in Nat
      /\ (\A i \in Evidence(pairs) : pairs[i][1] >= pairs[i][2]) => Down(pairs) = 0
      /\ (\A i \in Evidence(pairs) : pairs[i][2] >= pairs[i][1]) => Up(pairs) = 0
      /\ (\E i \in Evidence(pairs) : pairs[i][2] > pairs[i][1]) => Down(pairs) > 0
      /\ IsFiniteSet(Evidence(pairs))
  BY <1>4, VotesAre
<1>10. Evidence(pairs) \subseteq 1..Len(read)
  BY <1>4 DEF Evidence, PairsFit
<1>11. CASE upright
  <2>1. ~(Down(pairs) > Up(pairs))
    <3> HIDE DEF pairs, read, upright
    <3> QED
      BY <1>8, <1>9, <1>10, <1>11
  <2>2. sideways /\ c = 90
    BY <1>1, <1>5, <2>1 DEF RotationFor
  <2>3. scan.turn = 3
    <3> HIDE DEF sideways, upright
    <3> QED
      BY <1>1, <1>7, <1>11, <2>2
  <2> HIDE DEF c
  <2>4. (3 + 90 \div 90) % 4 = 0
    OBVIOUS
  <2> QED
    BY <1>1, <2>2, <2>3, <2>4
<1>12. CASE ~upright
  <2>1. Down(pairs) > Up(pairs)
    <3> HIDE DEF pairs, read, upright
    <3>1. Cardinality(Evidence(pairs)) # 0
      BY <1>5, OrientationAssumption
    <3>2. PICK i \in Evidence(pairs) : TRUE
      BY <1>9, <3>1, FS_EmptySet
    <3>3. pairs[i][2] >= pairs[i][1]
          /\ Larger(pairs[i][1] - pairs[i][2], pairs[i][2] - pairs[i][1]) >= DecisiveMargin
      BY <1>8, <1>10, <1>12 DEF Evidence
    <3>4. pairs[i][1] \in Nat /\ pairs[i][2] \in Nat
      BY <1>4, <1>10 DEF PairsFit
    <3>5. pairs[i][2] > pairs[i][1]
      BY <3>3, <3>4 DEF Larger, DecisiveMargin
    <3>6. Up(pairs) = 0 /\ Down(pairs) > 0
      BY <1>8, <1>9, <1>10, <1>12, <3>5
    <3> QED
      BY <3>6
  <2>2. c = IF sideways THEN 270 ELSE 180
    BY <1>5, <2>1 DEF RotationFor
  <2>3. scan.turn = IF sideways THEN 1 ELSE 2
    <3> HIDE DEF sideways, upright
    <3> QED
      BY <1>1, <1>7, <1>12
  <2> HIDE DEF c, sideways
  <2>4. (1 + 270 \div 90) % 4 = 0 /\ (2 + 180 \div 90) % 4 = 0
    OBVIOUS
  <2>5. CASE sideways
    <3>1. scan.turn = 1 /\ c = 270
      BY <2>2, <2>3, <2>5
    <3> QED
      BY <1>1, <2>4, <3>1
  <2>6. CASE ~sideways
    <3>1. scan.turn = 2 /\ c = 180
      BY <2>2, <2>3, <2>6
    <3> QED
      BY <1>1, <2>4, <3>1
  <2> QED
    BY <2>5, <2>6
<1> QED
  BY <1>11, <1>12

\* And such a page is not turned again.
LEMMA PlainPrintStays ==
  ASSUME NEW scan \in ScannedPage, PlainPrint(scan)
  PROVE  Correction(Classify(Corrected(scan))) = 0
<1> DEFINE next == Corrected(scan)
           again == Correction(Classify(next))
<1>1. next \in ScannedPage /\ next.lines = scan.lines /\ (Correction(Classify(scan)) = 0 => next = scan)
  BY CorrectedIs
<1>2. CASE Correction(Classify(scan)) = 0
  BY <1>1, <1>2
<1>3. CASE Correction(Classify(scan)) # 0
  <2>1. next.turn = 0
    BY <1>3, PlainPrintIsTurnedUpright
  <2>2. SUFFICES ASSUME again # 0 PROVE FALSE
    OBVIOUS
  <2>3. PlainPrint(next)
    BY <1>1 DEF PlainPrint
  <2>4. Corrected(next).turn = 0
    BY <1>1, <2>2, <2>3, PlainPrintIsTurnedUpright
  <2>5. again \in {90, 180, 270} /\ Corrected(next).turn = (next.turn + again \div 90) % 4
    BY <1>1, <2>2, CorrectedIs
  <2> HIDE DEF again, next
  <2>6. (0 + 90 \div 90) % 4 = 1 /\ (0 + 180 \div 90) % 4 = 2 /\ (0 + 270 \div 90) % 4 = 3
    OBVIOUS
  <2> QED
    BY <2>1, <2>4, <2>5, <2>6
<1> QED
  BY <1>2, <1>3

\* What is recorded of a scan is the verdict on it.
VerdictsFit ==
  request.operation = "orientation" => \A p \in Page : done[p] # Unread => done[p] = Classify(print[p])

LEMMA VerdictsBegin == Init => VerdictsFit
BY DEF Init, VerdictsFit

LEMMA VerdictsStay == IInv /\ VerdictsFit /\ [Next]_vars => VerdictsFit'
<1> SUFFICES ASSUME IInv, VerdictsFit, [Next]_vars, request'.operation = "orientation"
             PROVE  \A p \in Page : done'[p] # Unread => done'[p] = Classify(print'[p])
  BY DEF VerdictsFit
<1>1. UNCHANGED asked
  BY DEF Next, Work, Caller, Take, ReadUnit, Claim, Convert, Finish, Open, Enqueue, Expire, GiveUp,
         Return, Reply, RouteTimesOut, Tick, vars, asked
<1>2. request.operation = "orientation" /\ print' = print
  BY <1>1 DEF asked
<1>3. CASE UNCHANGED done
  BY <1>2, <1>3 DEF VerdictsFit
<1>4. ASSUME NEW w \in Worker, ReadUnit(w), ~UNCHANGED done
      PROVE  done' = [done EXCEPT ![at[w].page] = Classify(print[at[w].page])]
  BY <1>2, <1>4 DEF ReadUnit, Fails, Record
<1>5. ASSUME NEW w \in Worker, Claim(w) \/ Convert(w)
      PROVE  FALSE
  BY <1>2, <1>5 DEF Claim, Convert, IInv, WorkersFit
<1>6. CASE ~UNCHANGED done
  <2>1. PICK w \in Worker : ReadUnit(w)
    BY <1>5, <1>6 DEF Next, Work, Caller, Take, Finish, Open, Enqueue, Expire, GiveUp,
         Return, Reply, RouteTimesOut, Tick, vars, job
  <2>2. done' = [done EXCEPT ![at[w].page] = Classify(print[at[w].page])]
    BY <1>4, <1>6, <2>1
  <2>3. done = [p \in Page |-> done[p]]
    BY DEF IInv, TypesFit
  <2> QED
    BY <1>2, <2>2, <2>3 DEF VerdictsFit
<1> QED
  BY <1>3, <1>6

\* Whatever the scans, the lines found on them and the limits: a page that is turned by the
\* correction it was answered with is never answered a quarter turn again, and is left as it
\* is when the reader is shown the same ends of its lines or reads all lines whole; a
\* page whose print all runs one way and reads better upright is upright once it is turned,
\* and stays so (app/services/page_orientation.py: classify, _crops, decide).
THEOREM OrientationSettles == Spec => []CorrectionSettles
<1>1. ASSUME IInv, VerdictsFit PROVE CorrectionSettles
  <2> SUFFICES ASSUME request.operation = "orientation", NEW p \in Page, done[p] # Unread
               PROVE  LET scan == print[p]  again == Correction(Classify(Corrected(scan))) IN
                      /\ again \in {0, 180}
                      /\ Correction(done[p]) \in {0, 90} \/ ReadWhole(scan) \/ PlainPrint(scan) => again = 0
                      /\ PlainPrint(scan) /\ Correction(done[p]) # 0 => Corrected(scan).turn = 0
    BY DEF CorrectionSettles
  <2>1. print[p] \in ScannedPage
    BY <1>1, DocumentAssumption DEF IInv, TypesFit
  <2>2. done[p] = Classify(print[p])
    BY <1>1 DEF VerdictsFit
  <2> QED
    BY <2>1, <2>2, CorrectedIsSettled, PlainPrintIsTurnedUpright, PlainPrintStays
<1> QED
  BY <1>1, Inductive, VerdictsBegin, VerdictsStay, PTL DEF Spec

-----------------------------------------------------------------------------
(* What is printed on a page and what is returned of it *)

\* A set of numbers that is not empty has a least one.
LEMMA LeastExists ==
  ASSUME NEW I \in SUBSET Nat, I # {}
  PROVE  \E m \in I : \A n \in I : m <= n
<1> DEFINE Below == {s \in Nat \X Nat : s[1] < s[2]}
<1>1. IsWellFoundedOn(Below, Nat)
  BY NatLessThanWellFounded DEF OpToRel
<1>2. \E m \in I : \A n \in I : <<n, m>> \notin Below
  <2> HIDE DEF Below
  <2> QED
    BY <1>1, WFMin
<1>3. PICK m \in I : \A n \in I : <<n, m>> \notin Below
  BY <1>2
<1>4. ASSUME NEW n \in I, n < m
      PROVE  <<n, m>> \in Below
  <2>1. n \in Nat /\ m \in Nat
    OBVIOUS
  <2>2. <<n, m>> \in Nat \X Nat /\ <<n, m>>[1] = n /\ <<n, m>>[2] = m
    BY <2>1
  <2> QED
    BY <1>4, <2>2
<1>5. \A n \in I : ~(n < m)
  <2> HIDE DEF Below
  <2> QED
    BY <1>3, <1>4
<1>6. \A n \in I : n \in Nat /\ m \in Nat
  OBVIOUS
<1> QED
  BY <1>5, <1>6

LEMMA EndsAre ==
  ASSUME NEW S \in SUBSET Nat, S # {}, NEW b \in Nat, \A x \in S : x <= b
  PROVE  /\ Least(S) \in S /\ \A x \in S : Least(S) <= x
         /\ Greatest(S) \in S /\ \A x \in S : x <= Greatest(S)
<1>1. \E m \in S : \A x \in S : m <= x
  BY LeastExists
<1>2. \E m \in S : \A x \in S : x <= m
  <2> DEFINE D == {b - x : x \in S}
  <2>1. \A x \in S : b - x \in Nat
    OBVIOUS
  <2>2. D \in SUBSET Nat /\ D # {}
    BY <2>1
  <2>3. PICK d \in D : \A e \in D : d <= e
    <3> HIDE DEF D
    <3> QED
      BY <2>2, LeastExists
  <2>4. PICK m \in S : d = b - m
    BY <2>3
  <2>5. \A x \in S : b - m <= b - x
    BY <2>3, <2>4
  <2>6. \A x \in S : x <= m
    BY <2>5
  <2> QED
    BY <2>6
<1>3. Least(S) \in S /\ \A x \in S : Least(S) <= x
  BY <1>1 DEF Least
<1>4. Greatest(S) \in S /\ \A x \in S : x <= Greatest(S)
  BY <1>2 DEF Greatest
<1> QED
  BY <1>3, <1>4

LEMMA EndsOfTwo ==
  ASSUME NEW a \in Int, NEW b \in Int
  PROVE  /\ Least({a, b}) \in {a, b} /\ Least({a, b}) <= a /\ Least({a, b}) <= b
         /\ Greatest({a, b}) \in {a, b} /\ a <= Greatest({a, b}) /\ b <= Greatest({a, b})
<1>1. \E m \in {a, b} : \A x \in {a, b} : m <= x
  <2>1. CASE a <= b
    BY <2>1
  <2>2. CASE b <= a
    BY <2>2
  <2> QED
    BY <2>1, <2>2
<1>2. \E m \in {a, b} : \A x \in {a, b} : x <= m
  <2>1. CASE a <= b
    BY <2>1
  <2>2. CASE b <= a
    BY <2>2
  <2> QED
    BY <2>1, <2>2
<1>3. Least({a, b}) \in {a, b} /\ \A x \in {a, b} : Least({a, b}) <= x
  BY <1>1 DEF Least
<1>4. Greatest({a, b}) \in {a, b} /\ \A x \in {a, b} : x <= Greatest({a, b})
  BY <1>2 DEF Greatest
<1> QED
  BY <1>3, <1>4

\* A page's lines, and its pixels.
LEMMA LinesAre ==
  ASSUME NEW page, PrintFits(page)
  PROVE  /\ page.size[1] \in Nat /\ page.size[2] \in Nat
         /\ DOMAIN page.lines = 1..Len(page.lines) /\ Len(page.lines) \in Nat
         /\ \A q \in Printed(page) \cup page.faint :
              q[1] \in 0..(page.size[1] - 1) /\ q[2] \in 0..(page.size[2] - 1) /\ q = <<q[1], q[2]>>
         /\ \A i \in DOMAIN page.lines :
              /\ page.lines[i].at \in Printed(page)
              /\ page.lines[i].words \in Seq({"ok", "low", "bad", "blank"})
<1> DEFINE L == [at : Pixels(page.size), words : Seq({"ok", "low", "bad", "blank"}),
                 box : {"ok", "bad", "unwritable"}]
<1>1. /\ page.size[1] \in Nat /\ page.size[2] \in Nat /\ page.lines \in Seq(L)
      /\ page.faint \subseteq Pixels(page.size)
  BY DEF PrintFits
<1>2. DOMAIN page.lines = 1..Len(page.lines) /\ Len(page.lines) \in Nat
      /\ \A i \in 1..Len(page.lines) : page.lines[i] \in L
  <2> HIDE DEF L
  <2> QED
    BY <1>1, LenProperties, ElementOfSeq
<1>3. \A l \in L : l.at \in Pixels(page.size) /\ l.words \in Seq({"ok", "low", "bad", "blank"})
  OBVIOUS
<1> HIDE DEF L
<1>4. \A q \in Pixels(page.size) :
        q[1] \in 0..(page.size[1] - 1) /\ q[2] \in 0..(page.size[2] - 1) /\ q = <<q[1], q[2]>>
  BY DEF Pixels
<1>5. Printed(page) \subseteq Pixels(page.size)
  BY <1>2, <1>3 DEF Printed
<1>6. \A i \in DOMAIN page.lines : page.lines[i].at \in Printed(page)
  BY DEF Printed
<1> QED
  BY <1>1, <1>2, <1>3, <1>4, <1>5, <1>6

\* The crop keeps every pixel of a page that is not white.
LEMMA CropHolds ==
  ASSUME NEW page, PrintFits(page)
  PROVE  /\ Crop(page).x0 \in Int /\ Crop(page).x1 \in Int /\ Crop(page).y0 \in Int /\ Crop(page).y1 \in Int
         /\ \A q \in Printed(page) \cup page.faint : InBox(q, Crop(page))
<1> DEFINE dark == Printed(page)
           w == page.size[1]
           h == page.size[2]
           tight == [x0 |-> Least(Xs(dark)), y0 |-> Least(Ys(dark)),
                     x1 |-> Greatest(Xs(dark)) + 1, y1 |-> Greatest(Ys(dark)) + 1]
           padded == [x0 |-> Greatest({0, tight.x0 - Pad}), y0 |-> Greatest({0, tight.y0 - Pad}),
                      x1 |-> Least({w, tight.x1 + Pad}), y1 |-> Least({h, tight.y1 + Pad})]
<1>1. /\ w \in Nat /\ h \in Nat
      /\ \A q \in dark \cup page.faint : q[1] \in 0..(w - 1) /\ q[2] \in 0..(h - 1)
  BY LinesAre
<1>2. \A q \in dark \cup page.faint : InBox(q, Whole(page))
  <2>1. /\ Whole(page).x0 = 0 /\ Whole(page).x1 = w /\ Whole(page).y0 = 0 /\ Whole(page).y1 = h
    BY DEF Whole
  <2> QED
    BY <1>1, <2>1 DEF InBox
<1>3. \/ Crop(page) = Whole(page)
      \/ dark # {} /\ Crop(page) = padded /\ \A q \in page.faint : InBox(q, padded)
  BY DEF Crop
<1>4. CASE Crop(page) = Whole(page)
  BY <1>1, <1>2, <1>4 DEF Whole
<1>5. CASE dark # {} /\ Crop(page) = padded /\ \A q \in page.faint : InBox(q, padded)
  <2>1. /\ Xs(dark) \in SUBSET Nat /\ Xs(dark) # {} /\ \A x \in Xs(dark) : x <= w - 1
        /\ Ys(dark) \in SUBSET Nat /\ Ys(dark) # {} /\ \A y \in Ys(dark) : y <= h - 1
        /\ w - 1 \in Nat /\ h - 1 \in Nat
        /\ \A q \in dark : q[1] \in Xs(dark) /\ q[2] \in Ys(dark)
    <3>0. \A q \in dark : q[1] \in 0..(w - 1) /\ q[2] \in 0..(h - 1)
      BY <1>1
    <3>1. \A x \in 0..(w - 1) : x \in Nat /\ x <= w - 1 /\ w - 1 \in Nat
      BY <1>1
    <3>2. \A y \in 0..(h - 1) : y \in Nat /\ y <= h - 1 /\ h - 1 \in Nat
      BY <1>1
    <3>3. PICK q \in dark : TRUE
      BY <1>5
    <3> HIDE DEF dark, w, h
    <3> QED
      BY <3>0, <3>1, <3>2, <3>3 DEF Xs, Ys
  <2>2. /\ Least(Xs(dark)) \in 0..(w - 1) /\ Greatest(Xs(dark)) \in 0..(w - 1)
        /\ \A x \in Xs(dark) : Least(Xs(dark)) <= x /\ x <= Greatest(Xs(dark))
    <3> DEFINE S == Xs(dark)
    <3> HIDE DEF S, w
    <3>1. S \in SUBSET Nat /\ S # {} /\ w - 1 \in Nat /\ \A x \in S : x <= w - 1
      BY <2>1 DEF S
    <3>2. /\ Least(S) \in S /\ Greatest(S) \in S
          /\ \A x \in S : Least(S) <= x /\ x <= Greatest(S)
      BY <3>1, EndsAre
    <3>3. \A x \in S : x \in 0..(w - 1)
      BY <3>1
    <3>4. Least(S) \in 0..(w - 1) /\ Greatest(S) \in 0..(w - 1)
      BY <3>2, <3>3
    <3> QED
      BY <3>2, <3>4 DEF S
  <2>3. /\ Least(Ys(dark)) \in 0..(h - 1) /\ Greatest(Ys(dark)) \in 0..(h - 1)
        /\ \A y \in Ys(dark) : Least(Ys(dark)) <= y /\ y <= Greatest(Ys(dark))
    <3> DEFINE S == Ys(dark)
    <3> HIDE DEF S, h
    <3>1. S \in SUBSET Nat /\ S # {} /\ h - 1 \in Nat /\ \A x \in S : x <= h - 1
      BY <2>1 DEF S
    <3>2. /\ Least(S) \in S /\ Greatest(S) \in S
          /\ \A x \in S : Least(S) <= x /\ x <= Greatest(S)
      BY <3>1, EndsAre
    <3>3. \A x \in S : x \in 0..(h - 1)
      BY <3>1
    <3>4. Least(S) \in 0..(h - 1) /\ Greatest(S) \in 0..(h - 1)
      BY <3>2, <3>3
    <3> QED
      BY <3>2, <3>4 DEF S
  <2>4. \A n \in Nat : \A a, b \in 0..(n - 1) :
          /\ Greatest({0, a - Pad}) \in Int /\ Greatest({0, a - Pad}) <= a
          /\ Least({n, b + 1 + Pad}) \in Int /\ b < Least({n, b + 1 + Pad})
    <3> TAKE n \in Nat
    <3> TAKE a, b \in 0..(n - 1)
    <3>1. a - Pad \in Int /\ b + 1 + Pad \in Int /\ 0 \in Int /\ n \in Int
      BY PadAssumption
    <3>2. Greatest({0, a - Pad}) \in {0, a - Pad} /\ Least({n, b + 1 + Pad}) \in {n, b + 1 + Pad}
      BY <3>1, EndsOfTwo
    <3> QED
      BY <3>1, <3>2, PadAssumption
  <2>5. /\ padded.x0 \in Int /\ padded.x0 <= Least(Xs(dark))
        /\ padded.x1 \in Int /\ Greatest(Xs(dark)) < padded.x1
    <3> HIDE DEF w, dark
    <3> QED
      BY <1>1, <2>2, <2>4
  <2>6. /\ padded.y0 \in Int /\ padded.y0 <= Least(Ys(dark))
        /\ padded.y1 \in Int /\ Greatest(Ys(dark)) < padded.y1
    <3> HIDE DEF h, dark
    <3> QED
      BY <1>1, <2>3, <2>4
  <2> HIDE DEF padded
  <2>7. ASSUME NEW q \in dark PROVE InBox(q, padded)
    <3>1. /\ q[1] \in Int /\ Least(Xs(dark)) <= q[1] /\ q[1] <= Greatest(Xs(dark))
          /\ q[2] \in Int /\ Least(Ys(dark)) <= q[2] /\ q[2] <= Greatest(Ys(dark))
      BY <1>1, <2>1, <2>2, <2>3
    <3>2. /\ Least(Xs(dark)) \in Int /\ Greatest(Xs(dark)) \in Int
          /\ Least(Ys(dark)) \in Int /\ Greatest(Ys(dark)) \in Int
      BY <1>1, <2>2, <2>3
    <3> HIDE DEF dark
    <3>3. /\ padded.x0 <= q[1] /\ q[1] <= padded.x1 - 1
          /\ padded.y0 <= q[2] /\ q[2] <= padded.y1 - 1
      BY <2>5, <2>6, <3>1, <3>2
    <3> QED
      BY <2>5, <2>6, <3>1, <3>3 DEF InBox
  <2> QED
    BY <1>5, <2>5, <2>6, <2>7
<1> QED
  BY <1>3, <1>4, <1>5

\* A line is mapped back from the crop, turned or not, to where it is printed.
LEMMA PlaceIs ==
  ASSUME NEW page, PrintFits(page), NEW i \in DOMAIN page.lines
  PROVE  MapBack(page, Found(page, page.lines[i].at)) = page.lines[i].at
<1> DEFINE p == page.lines[i].at
           b == Crop(page)
           q == Found(page, p)
<1>1. p[1] \in Int /\ p[2] \in Int /\ p = <<p[1], p[2]>>
  <2>1. p \in Printed(page)
    BY LinesAre
  <2> HIDE DEF p
  <2> QED
    BY <2>1, LinesAre
<1>2. b.x0 \in Int /\ b.x1 \in Int /\ b.y0 \in Int
  BY CropHolds
<1> HIDE DEF p
<1>3. q = IF Turned(page) THEN <<p[2] - b.y0, (b.x1 - b.x0) - 1 - (p[1] - b.x0)>>
          ELSE <<p[1] - b.x0, p[2] - b.y0>>
  BY DEF Found
<1>4. MapBack(page, q) = IF Turned(page) THEN <<(b.x1 - b.x0) - 1 - q[2] + b.x0, q[1] + b.y0>>
                         ELSE <<q[1] + b.x0, q[2] + b.y0>>
  BY DEF MapBack
<1> HIDE DEF b, q
<1>5. CASE Turned(page)
  <2>1. q[1] = p[2] - b.y0 /\ q[2] = (b.x1 - b.x0) - 1 - (p[1] - b.x0)
    BY <1>3, <1>5
  <2>2. (b.x1 - b.x0) - 1 - q[2] + b.x0 = p[1] /\ q[1] + b.y0 = p[2]
    BY <1>1, <1>2, <2>1
  <2> QED
    BY <1>1, <1>4, <1>5, <2>2 DEF p, q
<1>6. CASE ~Turned(page)
  <2>1. q[1] = p[1] - b.x0 /\ q[2] = p[2] - b.y0
    BY <1>3, <1>6
  <2>2. q[1] + b.x0 = p[1] /\ q[2] + b.y0 = p[2]
    BY <1>1, <1>2, <2>1
  <2> QED
    BY <1>1, <1>4, <1>6, <2>2 DEF p, q
<1> QED
  BY <1>5, <1>6

LEMMA WordsAre ==
  ASSUME NEW page, PrintFits(page)
  PROVE  /\ IsFiniteSet(Words(page))
         /\ \A w \in Words(page) : /\ w[1] \in DOMAIN page.lines
                                   /\ page.lines[w[1]].words[w[2]] \in {"ok", "low", "bad", "blank"}
<1> DEFINE I == DOMAIN page.lines
           Line1(i) == {i} \X (DOMAIN page.lines[i].words)
           parts == {Line1(i) : i \in I}
<1>1. ASSUME NEW i \in I
      PROVE  /\ DOMAIN page.lines[i].words = 1..Len(page.lines[i].words)
             /\ Len(page.lines[i].words) \in Nat
             /\ \A k \in DOMAIN page.lines[i].words :
                  page.lines[i].words[k] \in {"ok", "low", "bad", "blank"}
  <2>1. page.lines[i].words \in Seq({"ok", "low", "bad", "blank"})
    BY LinesAre
  <2> QED
    BY <2>1, LenProperties, ElementOfSeq
<1>2. ASSUME NEW i \in I PROVE IsFiniteSet(Line1(i))
  <2>1. IsFiniteSet(1..Len(page.lines[i].words))
    BY <1>1, FS_Interval
  <2>2. IsFiniteSet({i}) /\ IsFiniteSet(DOMAIN page.lines[i].words)
    BY <1>1, <2>1, FS_Singleton
  <2> QED
    BY <2>2, FS_Product
<1>3. IsFiniteSet(I)
  <2>1. I = 1..Len(page.lines) /\ Len(page.lines) \in Nat
    BY LinesAre
  <2>2. IsFiniteSet(1..Len(page.lines))
    BY <2>1, FS_Interval
  <2> QED
    BY <2>1, <2>2
<1>4. IsFiniteSet(parts)
  <2> DEFINE part == [i \in I |-> Line1(i)]
  <2>1. part \in Surjection(I, parts)
    <3> HIDE DEF Line1, I
    <3> QED
      BY DEF Surjection
  <2> HIDE DEF part, parts, I
  <2> QED
    BY <1>3, <2>1, FS_Surjection
<1>5. \A T \in parts : IsFiniteSet(T)
  <2> HIDE DEF Line1, I
  <2> QED
    BY <1>2
<1>6. Words(page) = UNION parts
  BY DEF Words
<1>7. IsFiniteSet(Words(page))
  <2> HIDE DEF parts
  <2> QED
    BY <1>4, <1>5, <1>6, FS_UNION
<1>8. ASSUME NEW w \in Words(page)
      PROVE  w[1] \in I /\ page.lines[w[1]].words[w[2]] \in {"ok", "low", "bad", "blank"}
  <2>1. PICK i \in I : w \in Line1(i)
    BY <1>6
  <2>2. w[1] = i /\ w[2] \in DOMAIN page.lines[i].words
    BY <2>1
  <2> QED
    BY <1>1, <2>2
<1> QED
  BY <1>7, <1>8

LEMMA ReadingIs ==
  ASSUME NEW page, PrintFits(page), NEW kinds
  PROVE  /\ DOMAIN Reading(page, kinds) = {v \in Words(page) : page.lines[v[1]].words[v[2]] \in kinds}
         /\ \A w \in DOMAIN Reading(page, kinds) : Reading(page, kinds)[w] = page.lines[w[1]].at
         /\ Reading(page, kinds) = <<>> => DOMAIN Reading(page, kinds) = {}
<1> DEFINE D == {v \in Words(page) : page.lines[v[1]].words[v[2]] \in kinds}
           spot(w) == MapBack(page, Found(page, page.lines[w[1]].at))
<1>1. Reading(page, kinds) = [w \in D |-> spot(w)]
  BY DEF Reading
<1>2. \A w \in D : spot(w) = page.lines[w[1]].at
  BY WordsAre, PlaceIs
<1>3. DOMAIN Reading(page, kinds) = D /\ \A w \in D : Reading(page, kinds)[w] = spot(w)
  <2> HIDE DEF D, spot
  <2> QED
    BY <1>1
<1>4. DOMAIN <<>> = {}
  OBVIOUS
<1> HIDE DEF spot
<1> QED
  BY <1>2, <1>3, <1>4

\* What is returned of a page that the engine reads.
LEMMA RecognizedIs ==
  ASSUME NEW page, PrintFits(page), page.engine = "reads", page.lines # <<>>
  PROVE  LET result == Recognize(page)
             searchable == ~page.layer.text /\ ~Turned(page)
             usable == {i \in DOMAIN page.lines : page.lines[i].box \in {"ok", "unwritable"}} IN
         /\ result.status \in {"complete", "partial"}
         /\ result.words = Reading(page, {"ok"})
         /\ result.discarded = Cardinality(DOMAIN Reading(page, {"bad", "blank", "low"}))
         /\ result.layer = IF searchable THEN [i \in usable |-> page.lines[i].box] ELSE <<>>
         /\ result.status = "complete" =>
              /\ result.words # <<>> /\ Reading(page, {"bad"}) = <<>> /\ Reading(page, {"blank", "low"}) = <<>>
              /\ searchable => usable = DOMAIN page.lines
<1> DEFINE words == Reading(page, {"ok"})
           usable == {i \in DOMAIN page.lines : page.lines[i].box \in {"ok", "unwritable"}}
           searchable == ~page.layer.text /\ ~Turned(page)
           warnings == {w \in {"word_geometry_missing", "invalid_word_geometry", "unusable_word",
                               "search_layer_incomplete"} :
             CASE w = "word_geometry_missing" -> words = <<>> \/ \E i \in DOMAIN page.lines : page.lines[i].words = <<>>
               [] w = "invalid_word_geometry" -> Reading(page, {"bad"}) # <<>>
               [] w = "unusable_word" -> Reading(page, {"blank", "low"}) # <<>>
               [] w = "search_layer_incomplete" -> searchable /\ usable # DOMAIN page.lines}
           layer == IF searchable THEN [i \in usable |-> page.lines[i].box] ELSE <<>>
           discarded == Cardinality(DOMAIN Reading(page, {"bad", "blank", "low"}))
           low == Reading(page, {"low"})
<1>1. Recognize(page) = [PageResult EXCEPT !.status = IF warnings = {} THEN "complete" ELSE "partial",
                           !.words = words, !.low = low, !.lines = usable, !.layer = layer,
                           !.discarded = discarded, !.warnings = warnings]
  BY DEF Recognize
<1>2. warnings = {} => /\ words # <<>> /\ Reading(page, {"bad"}) = <<>> /\ Reading(page, {"blank", "low"}) = <<>>
                       /\ searchable => usable = DOMAIN page.lines
  <2> SUFFICES ASSUME warnings = {}
               PROVE  /\ words # <<>> /\ Reading(page, {"bad"}) = <<>> /\ Reading(page, {"blank", "low"}) = <<>>
                      /\ searchable => usable = DOMAIN page.lines
    OBVIOUS
  <2> HIDE DEF words, usable, searchable
  <2>1. /\ "word_geometry_missing" \notin warnings /\ "invalid_word_geometry" \notin warnings
        /\ "unusable_word" \notin warnings /\ "search_layer_incomplete" \notin warnings
    OBVIOUS
  <2>2. words # <<>>
    BY <2>1
  <2>3. Reading(page, {"bad"}) = <<>>
    BY <2>1
  <2>4. Reading(page, {"blank", "low"}) = <<>>
    BY <2>1
  <2>5. searchable => usable = DOMAIN page.lines
    BY <2>1
  <2> QED
    BY <2>2, <2>3, <2>4, <2>5
<1> HIDE DEF warnings, layer, discarded, words
<1>3. /\ Recognize(page).status = IF warnings = {} THEN "complete" ELSE "partial"
      /\ Recognize(page).words = words /\ Recognize(page).layer = layer
      /\ Recognize(page).discarded = discarded
  <2> HIDE DEF usable, low
  <2> QED
    BY <1>1 DEF PageResult
<1>4. Recognize(page).status \in {"complete", "partial"}
      /\ (Recognize(page).status = "complete" => warnings = {})
  BY <1>3
<1> QED
  BY <1>2, <1>3, <1>4 DEF layer, discarded, words

\* Every word comes out one way, and is returned or counted.
LEMMA WordsAreCounted ==
  ASSUME NEW page, PrintFits(page)
  PROVE  Cardinality(DOMAIN Reading(page, {"ok"})) + Cardinality(DOMAIN Reading(page, {"bad", "blank", "low"}))
           = Cardinality(Words(page))
<1> DEFINE way(v) == page.lines[v[1]].words[v[2]]
           kept == {v \in Words(page) : way(v) \in {"ok"}}
           lost == {v \in Words(page) : way(v) \in {"bad", "blank", "low"}}
<1>1. DOMAIN Reading(page, {"ok"}) = kept /\ DOMAIN Reading(page, {"bad", "blank", "low"}) = lost
  BY ReadingIs
<1>2. IsFiniteSet(Words(page)) /\ \A v \in Words(page) : way(v) \in {"ok", "low", "bad", "blank"}
  BY WordsAre
<1>3. kept \cup lost = Words(page) /\ kept \cap lost = {}
  <2> HIDE DEF way
  <2> QED
    BY <1>2
<1>4. IsFiniteSet(kept) /\ IsFiniteSet(lost)
  <2>1. kept \subseteq Words(page) /\ lost \subseteq Words(page)
    OBVIOUS
  <2> HIDE DEF kept, lost
  <2> QED
    BY <1>2, <2>1, FS_Subset
<1> HIDE DEF kept, lost
<1>5. Cardinality(kept \cup lost) = Cardinality(kept) + Cardinality(lost) - Cardinality(kept \cap lost)
  BY <1>4, FS_Union
<1>6. Cardinality(kept) \in Nat /\ Cardinality(lost) \in Nat
  BY <1>4, FS_CardinalityType
<1>7. Cardinality(kept \cap lost) = 0
  BY <1>3, FS_EmptySet
<1>8. Cardinality(kept) + Cardinality(lost) = Cardinality(kept \cup lost)
  BY <1>5, <1>6, <1>7
<1> QED
  BY <1>1, <1>3, <1>8

\* A page is answered from its text layer, fails or is empty, or is read.
LEMMA ResultIs ==
  ASSUME NEW page, PrintFits(page), NEW force
  PROVE  LET result == ReadOcrPage(page, force) IN
         /\ {"status", "source", "words", "layer", "discarded", "warnings"} \subseteq DOMAIN result
         /\ \/ result.source = "native_pdf"
            \/ /\ result.status \in {"failed", "empty"}
               /\ result.layer = <<>>
            \/ page.engine = "reads" /\ page.lines # <<>> /\ result = Recognize(page)
<1> DEFINE result == ReadOcrPage(page, force)
           fields == {"status", "source", "words", "layer", "discarded", "warnings"}
           Bare(r) == r.status \in {"failed", "empty"} /\ r.layer = <<>>
<1>1. fields \subseteq DOMAIN PageResult
  BY DEF PageResult
<1>2. ASSUME NEW why PROVE DOMAIN Failed(why) = DOMAIN PageResult /\ Bare(Failed(why))
  BY DEF Failed, PageResult
<1>3. page.engine \in {"reads", "raises"}
  BY DEF PrintFits
<1>4. DOMAIN Recognize(page) = DOMAIN PageResult
      /\ (Bare(Recognize(page)) \/ (page.engine = "reads" /\ page.lines # <<>>))
  <2>1. CASE page.engine = "raises"
    <3>1. Recognize(page) = Failed("provider_error")
      BY <2>1 DEF Recognize
    <3> QED
      BY <1>2, <3>1
  <2>2. CASE page.engine = "reads" /\ page.lines = <<>>
    <3>1. Recognize(page) = [PageResult EXCEPT !.status = "empty", !.warnings = {"no_text_detected"}]
      BY <2>2 DEF Recognize
    <3> QED
      BY <3>1 DEF PageResult
  <2>3. CASE page.engine = "reads" /\ page.lines # <<>>
    BY <2>3 DEF Recognize
  <2> QED
    BY <1>3, <2>1, <2>2, <2>3
<1>5. CASE Accepted(page.layer) /\ ~force
  <2>1. result = [PageResult EXCEPT !.source = "native_pdf", !.words = <<"native">>]
    BY <1>5 DEF ReadOcrPage
  <2>2. result.source = "native_pdf" /\ DOMAIN result = DOMAIN PageResult
    BY <2>1 DEF PageResult
  <2> QED
    BY <1>1, <2>2
<1>6. CASE ~(Accepted(page.layer) /\ ~force)
  <2>1. result = Failed("page_processing_error") \/ result = Recognize(page)
    BY <1>6 DEF ReadOcrPage
  <2> HIDE DEF result
  <2> QED
    BY <1>1, <1>2, <1>4, <2>1 DEF result
<1> QED
  BY <1>5, <1>6

\* What the layer that is written makes of a result.
LEMMA LayerIsWritten ==
  ASSUME NEW r, {"status", "source", "words", "layer", "discarded", "warnings"} \subseteq DOMAIN r
  PROVE  LET s == WriteSearchLayer(r) IN
         /\ s.source = r.source /\ s.words = r.words /\ s.discarded = r.discarded
         /\ s.status = "complete" => s = r
         /\ r.layer = <<>> => s = r
         /\ s = r \/ s.status = "partial"
<1> DEFINE written == {i \in DOMAIN r.layer : r.layer[i] = "ok"}
           s == WriteSearchLayer(r)
<1>1. s = IF written = DOMAIN r.layer THEN r
          ELSE [r EXCEPT !.status = "partial", !.warnings = @ \cup {"search_layer_incomplete"},
                         !.layer = [i \in written |-> "ok"]]
  BY DEF WriteSearchLayer
<1>2. CASE written = DOMAIN r.layer
  BY <1>1, <1>2
<1>3. CASE written # DOMAIN r.layer
  <2>1. r.layer # <<>>
    <3>1. DOMAIN <<>> = {}
      OBVIOUS
    <3> QED
      BY <1>3, <3>1
  <2>2. s.source = r.source /\ s.words = r.words /\ s.discarded = r.discarded /\ s.status = "partial"
    <3> HIDE DEF written, s
    <3> QED
      BY <1>1, <1>3
  <2> QED
    BY <2>1, <2>2
<1> QED
  BY <1>2, <1>3

\* What the response says of a page that was not answered from its text layer.
LEMMA PageIsAccounted ==
  ASSUME NEW page, PrintFits(page), NEW force,
         WriteSearchLayer(ReadOcrPage(page, force)).source = "rapidocr"
  PROVE  LET result == WriteSearchLayer(ReadOcrPage(page, force)) IN
         /\ result.status = "complete" =>
              /\ result.words # <<>> /\ DOMAIN result.words = Words(page)
              /\ ~page.layer.text /\ ~Turned(page) => DOMAIN result.layer = DOMAIN page.lines
         /\ result.status \in {"complete", "partial"} =>
              /\ \A w \in DOMAIN result.words : result.words[w] = page.lines[w[1]].at
              /\ Cardinality(DOMAIN result.words) + result.discarded = Cardinality(Words(page))
<1> DEFINE r == ReadOcrPage(page, force)
           result == WriteSearchLayer(r)
           usable == {i \in DOMAIN page.lines : page.lines[i].box \in {"ok", "unwritable"}}
           searchable == ~page.layer.text /\ ~Turned(page)
<1>1. /\ {"status", "source", "words", "layer", "discarded", "warnings"} \subseteq DOMAIN r
      /\ \/ r.source = "native_pdf"
         \/ r.status \in {"failed", "empty"} /\ r.layer = <<>>
         \/ page.engine = "reads" /\ page.lines # <<>> /\ r = Recognize(page)
  BY ResultIs
<1>2. /\ result.source = r.source /\ result.words = r.words /\ result.discarded = r.discarded
      /\ result.status = "complete" => result = r
      /\ r.layer = <<>> => result = r
      /\ result = r \/ result.status = "partial"
  <2> HIDE DEF r
  <2> QED
    BY <1>1, LayerIsWritten
<1>3. CASE r.status \in {"failed", "empty"} /\ r.layer = <<>>
  <2>1. result.status \in {"failed", "empty"}
    BY <1>2, <1>3
  <2> HIDE DEF r, result
  <2> QED
    BY <2>1 DEF r, result
<1>4. CASE page.engine = "reads" /\ page.lines # <<>> /\ r = Recognize(page)
  <2>1. /\ r.status \in {"complete", "partial"}
        /\ r.words = Reading(page, {"ok"})
        /\ r.discarded = Cardinality(DOMAIN Reading(page, {"bad", "blank", "low"}))
        /\ r.layer = IF searchable THEN [i \in usable |-> page.lines[i].box] ELSE <<>>
        /\ r.status = "complete" =>
             /\ r.words # <<>> /\ Reading(page, {"bad"}) = <<>> /\ Reading(page, {"blank", "low"}) = <<>>
             /\ searchable => usable = DOMAIN page.lines
    <3> HIDE DEF r
    <3> QED
      BY <1>4, RecognizedIs
  <2> HIDE DEF r, result
  <2>2. \A w \in DOMAIN result.words : result.words[w] = page.lines[w[1]].at
    <3>1. \A w \in DOMAIN Reading(page, {"ok"}) : Reading(page, {"ok"})[w] = page.lines[w[1]].at
      BY ReadingIs
    <3>2. result.words = Reading(page, {"ok"})
      BY <1>2, <2>1
    <3> QED
      BY <3>1, <3>2, Zenon
  <2>3. Cardinality(DOMAIN result.words) + result.discarded = Cardinality(Words(page))
    BY <1>2, <2>1, WordsAreCounted
  <2>4. ASSUME result.status = "complete"
        PROVE  /\ result.words # <<>> /\ DOMAIN result.words = Words(page)
               /\ searchable => DOMAIN result.layer = DOMAIN page.lines
    <3>1. result = r /\ r.status = "complete"
      BY <1>2, <2>4
    <3>2. /\ DOMAIN Reading(page, {"ok"}) = {v \in Words(page) : page.lines[v[1]].words[v[2]] \in {"ok"}}
          /\ {v \in Words(page) : page.lines[v[1]].words[v[2]] \in {"bad"}} = {}
          /\ {v \in Words(page) : page.lines[v[1]].words[v[2]] \in {"blank", "low"}} = {}
      BY <2>1, <3>1, ReadingIs
    <3>3. \A v \in Words(page) : page.lines[v[1]].words[v[2]] = "ok"
      BY <3>2, WordsAre
    <3>4. DOMAIN Reading(page, {"ok"}) = Words(page)
      BY <3>2, <3>3
    <3>5. searchable => DOMAIN r.layer = usable
      <4> HIDE DEF usable, searchable
      <4> QED
        BY <2>1
    <3> QED
      BY <2>1, <3>1, <3>4, <3>5
  <2> QED
    BY <2>2, <2>3, <2>4 DEF r, result
<1>5. CASE r.source = "native_pdf"
  BY <1>2, <1>5
<1> QED
  BY <1>1, <1>3, <1>4, <1>5

\* What is recorded of a page is its reading, and an answer is made of the readings.
ReadingsFit ==
  request.operation = "ocr" =>
    /\ \A p \in Page : done[p] # Unread => done[p] = ReadOcrPage(print[p], request.force)
    /\ answer.kind = "pages" =>
         answer.pages = [i \in DOMAIN Targets |-> ReadOcrPage(print[Targets[i]], request.force)]

LEMMA ReadingsBegin == Init => ReadingsFit
BY DEF Init, ReadingsFit

LEMMA ReadingsStay == IInv /\ ReadingsFit /\ [Next]_vars => ReadingsFit'
<1> SUFFICES ASSUME IInv, ReadingsFit, [Next]_vars, request'.operation = "ocr"
             PROVE  /\ \A p \in Page : done'[p] # Unread => done'[p] = ReadOcrPage(print'[p], request'.force)
                    /\ answer'.kind = "pages" =>
                         answer'.pages = [i \in DOMAIN Targets' |-> ReadOcrPage(print'[Targets'[i]], request'.force)]
  BY DEF ReadingsFit
<1>1. UNCHANGED asked
  BY DEF Next, Work, Caller, Take, ReadUnit, Claim, Convert, Finish, Open, Enqueue, Expire, GiveUp,
         Return, Reply, RouteTimesOut, Tick, vars, asked
<1>2. request.operation = "ocr" /\ print' = print /\ request' = request /\ Targets' = Targets
  BY <1>1, AskedStays DEF asked
<1>3. \A p \in Page : done[p] # Unread => done[p] = ReadOcrPage(print[p], request.force)
  BY <1>2 DEF ReadingsFit
<1>4. \A p \in Page : done'[p] # Unread => done'[p] = ReadOcrPage(print[p], request.force)
  <2>1. CASE UNCHANGED done
    BY <1>3, <2>1
  <2>2. ASSUME NEW w \in Worker, ReadUnit(w), ~UNCHANGED done
        PROVE  done' = [done EXCEPT ![at[w].page] = ReadOcrPage(print[at[w].page], request.force)]
    BY <1>2, <2>2 DEF ReadUnit, Fails, Record
  <2>3. ASSUME NEW w \in Worker, Claim(w) \/ Convert(w)
        PROVE  FALSE
    BY <1>2, <2>3 DEF Claim, Convert, IInv, WorkersFit
  <2>4. CASE ~UNCHANGED done
    <3>1. PICK w \in Worker : ReadUnit(w)
      BY <2>3, <2>4 DEF Next, Work, Caller, Take, Finish, Open, Enqueue, Expire, GiveUp,
           Return, Reply, RouteTimesOut, Tick, vars, job
    <3>2. done' = [done EXCEPT ![at[w].page] = ReadOcrPage(print[at[w].page], request.force)]
      BY <2>2, <2>4, <3>1
    <3>3. done = [p \in Page |-> done[p]]
      BY DEF IInv, TypesFit
    <3> QED
      BY <1>3, <3>2, <3>3
  <2> QED
    BY <2>1, <2>4
<1>5. ASSUME answer'.kind = "pages"
      PROVE  answer'.pages = [i \in DOMAIN Targets |-> ReadOcrPage(print[Targets[i]], request.force)]
  <2>0. /\ DOMAIN Targets = 1..Len(Targets) /\ Targets \in Seq(Page)
        /\ error \in {"none", "unsupported_language", "configuration", "timeout"}
    <3>1. Targets \in Seq(Range(request.pages)) /\ DOMAIN Targets = 1..Len(Targets)
          /\ Range(request.pages) \subseteq Page
      BY TargetsAre DEF IInv
    <3> QED
      BY <3>1 DEF IInv, TypesFit
  <2>1. CASE UNCHANGED answer
    BY <1>2, <1>5, <2>1 DEF ReadingsFit
  <2>2. CASE Open \/ GiveUp
    BY <1>2, <1>5, <2>1, <2>2 DEF Open, GiveUp, Answers
  <2>3. CASE Enqueue
    <3>1. UNCHANGED answer \/ (Targets = <<>> /\ answer'.pages = <<>>)
      BY <1>2, <2>3 DEF Enqueue, Answers
    <3>2. ASSUME Targets = <<>>
          PROVE  [i \in DOMAIN Targets |-> ReadOcrPage(print[Targets[i]], request.force)] = <<>>
      BY <3>2
    <3> QED
      BY <2>1, <3>1, <3>2
  <2>4. CASE Return
    <3>1. error = "none"
      BY <1>5, <2>0, <2>4 DEF Return, Answers
    <3>2. answer'.pages = [i \in DOMAIN Targets |-> done[Targets[i]]]
      BY <2>4, <3>1 DEF Return, Answers
    <3>3. \A i \in DOMAIN Targets : done[Targets[i]] # Unread
      BY <2>4, <3>1, SettledIsRead DEF Return
    <3>4. \A i \in DOMAIN Targets : Targets[i] \in Page
      BY <2>0, ElementOfSeq
    <3>5. \A i \in DOMAIN Targets : done[Targets[i]] = ReadOcrPage(print[Targets[i]], request.force)
      BY <1>3, <3>3, <3>4
    <3> QED
      BY <3>2, <3>5
  <2>5. CASE Work \/ Finish \/ Expire \/ Reply \/ RouteTimesOut \/ Tick \/ UNCHANGED vars
    <3>1. UNCHANGED answer
      BY <2>5 DEF Work, Take, ReadUnit, Claim, Convert, Finish, Expire, Reply, RouteTimesOut, Tick, vars
    <3> QED
      BY <2>1, <3>1
  <2> QED
    BY <2>2, <2>3, <2>4, <2>5 DEF Next, Caller
<1> QED
  BY <1>2, <1>4, <1>5

\* Whatever the pages hold and the engine reads: a response that is complete returns every
\* word and writes every line of a page without text, each word that is returned stands
\* where it is printed, each that is not is counted, and the crop keeps all that is printed
\* (app/services/rapid_ocr.py: _recognize, write_search_layer, assemble;
\* app/services/ocr_preprocessing.py: prepare_scan, map_polygon).
THEOREM ResponseAccounts == Spec => []PrintIsAccounted
<1>1. ASSUME IInv, ReadingsFit PROVE PrintIsAccounted
  <2> DEFINE document == Assemble(answer.pages, TRUE)
  <2> SUFFICES ASSUME request.operation = "ocr", answer.kind = "pages", NEW n \in DOMAIN Targets,
                      document.pages[n].source = "rapidocr"
               PROVE  LET page == print[Targets[n]]  result == document.pages[n] IN
                      /\ "complete" \in {result.status, document.status} =>
                           /\ result.words # <<>> /\ DOMAIN result.words = Words(page)
                           /\ ~page.layer.text /\ ~Turned(page) => DOMAIN result.layer = DOMAIN page.lines
                      /\ document.status = "unavailable" => result.words = <<>>
                      /\ result.status \in {"complete", "partial"} =>
                           /\ \A w \in DOMAIN result.words : result.words[w] = page.lines[w[1]].at
                           /\ Cardinality(DOMAIN result.words) + result.discarded = Cardinality(Words(page))
                      /\ \A q \in Printed(page) \cup page.faint : InBox(q, Crop(page))
    BY DEF PrintIsAccounted
  <2> DEFINE page == print[Targets[n]]
             result == document.pages[n]
  <2>1. answer.pages = [i \in DOMAIN Targets |-> ReadOcrPage(print[Targets[i]], request.force)]
    BY <1>1 DEF ReadingsFit
  <2>2. PrintFits(page)
    <3>1. Targets[n] \in Page
      <4>1. Targets \in Seq(Range(request.pages)) /\ DOMAIN Targets = 1..Len(Targets)
            /\ Range(request.pages) \subseteq Page
        BY <1>1, TargetsAre DEF IInv
      <4>2. Targets[n] \in Range(request.pages)
        BY <4>1, ElementOfSeq
      <4> QED
        BY <4>1, <4>2
    <3>2. print \in Documents["ocr"]
      BY <1>1 DEF IInv, TypesFit
    <3> QED
      BY <3>1, <3>2, DocumentAssumption
  <2>3. DOMAIN answer.pages = DOMAIN Targets
        /\ answer.pages[n] = ReadOcrPage(page, request.force)
    BY <2>1
  <2>4. document.pages = [i \in DOMAIN answer.pages |-> WriteSearchLayer(answer.pages[i])]
        /\ document.status = IF \A i \in DOMAIN document.pages : document.pages[i].status = "complete" THEN "complete"
                             ELSE IF \E i \in DOMAIN document.pages : document.pages[i].words # <<>>
                                  THEN "partial" ELSE "unavailable"
    BY DEF Assemble
  <2> HIDE DEF document
  <2>5. n \in DOMAIN document.pages /\ result = WriteSearchLayer(ReadOcrPage(page, request.force))
    <3> HIDE DEF page
    <3> QED
      BY <2>3, <2>4
  <2>6. document.status = "complete" => result.status = "complete"
    BY <2>4, <2>5
  <2>7. document.status = "unavailable" => result.words = <<>>
    BY <2>4, <2>5
  <2>8. \A q \in Printed(page) \cup page.faint : InBox(q, Crop(page))
    BY <2>2, CropHolds
  <2> HIDE DEF page
  <2>9. /\ result.status = "complete" =>
             /\ result.words # <<>> /\ DOMAIN result.words = Words(page)
             /\ ~page.layer.text /\ ~Turned(page) => DOMAIN result.layer = DOMAIN page.lines
        /\ result.status \in {"complete", "partial"} =>
             /\ \A w \in DOMAIN result.words : result.words[w] = page.lines[w[1]].at
             /\ Cardinality(DOMAIN result.words) + result.discarded = Cardinality(Words(page))
    BY <2>2, <2>5, PageIsAccounted
  <2> QED
    BY <2>6, <2>7, <2>8, <2>9 DEF page
<1> QED
  BY <1>1, Inductive, ReadingsBegin, ReadingsStay, PTL DEF Spec

=============================================================================
