----------------------------- MODULE PageRequests -----------------------------
(***************************************************************************)
(* A synchronous request over pages: tables (routes/text.py, the table     *)
(* pipeline), orientation detection and OCR in memory (run_pages, run_rapid*)
(* and _run_sync of app/services/ocr_queue.py).  A route hands the request *)
(* to a thread, the thread queues one unit per page and waits, workers     *)
(* read pages, and a deadline may pass anywhere in between.                *)
(*                                                                         *)
(* Which worker takes which job, slots and turns are OcrScheduler's: here  *)
(* an idle worker may take the next page.  What is printed on the pages is *)
(* fixed at the start and read by PageOrientation, OcrPage and ReadPage.   *)
(***************************************************************************)
EXTENDS Integers, Sequences, FiniteSets, SequencesExt, PageOrientation, OcrPage

CONSTANTS
  Worker, Page,
  Requests,     \* [operation, pages, strategy, english, force]: force_ocr, or not scanned_only
  Documents,    \* for each operation, the documents: what each page holds
  Docling,      \* whether TABLE_FALLBACK is "docling"
  MaxFallback   \* TABLE_FALLBACK_MAX_PAGES

ASSUME RequestAssumption ==
  /\ \A r \in Requests : r.pages \in Seq(Page) /\ r.operation \in {"tables", "orientation", "ocr"}
  /\ Docling \in BOOLEAN /\ MaxFallback \in Nat

ScannedPage ==
  [turn : 0..3, text : BOOLEAN,
   lines : Seq([along : BOOLEAN, length : Nat, small : BOOLEAN, tiny : BOOLEAN,
                start : {"clear", "misread", "poor"}, end : {"clear", "misread", "poor"}])]

Pixels(size) == (0..(size[1] - 1)) \X (0..(size[2] - 1))
PrintFits(page) ==
  /\ page.size \in Nat \X Nat /\ page.faint \subseteq Pixels(page.size)
  /\ page.lines \in Seq([at : Pixels(page.size), words : Seq({"ok", "low", "bad", "blank"}),
                         box : {"ok", "bad", "unwritable"}])
  /\ page.engine \in {"reads", "raises"}

\* A page is ruled when it has ruled regions; TableFormer and the OCR engine do one of
\* the things the readers below tell apart.
ASSUME DocumentAssumption ==
  /\ \A document \in Documents["tables"], p \in Page :
       /\ document[p].ink \in {"blank", "plain", "ruled"}
       /\ document[p].ink = "ruled" <=> document[p].regions # {}
       /\ document[p].docling \in {"complete", "invalid", "none", "raises"}
  /\ \A document \in Documents["orientation"], p \in Page : document[p] \in ScannedPage
  /\ \A document \in Documents["ocr"], p \in Page : PrintFits(document[p])

Unread == [recorded |-> FALSE]
Idle == [stage |-> "idle"]

VARIABLES
  request,  \* what the client asks
  print,    \* what each page of its document holds
  engine,   \* whether the models load
  clock,    \* 0; 1 when the thread's deadline has passed; 2 when the route's has
  thread,   \* where the request's thread is
  route,    \* what the client has been told: "open" until it has been answered
  units,    \* the pages no worker has taken
  at,       \* each worker: Idle, or [page, stage, found]
  done,     \* each page's recorded result, or Unread
  error,    \* the job's error
  settled,  \* the job's event
  claims,   \* _fallback_used
  converted,  \* history: the pages the fallback has been given
  answer    \* what the thread has returned or raised

vars == <<request, print, engine, clock, thread, route, units, at, done, error, settled, claims,
          converted, answer>>
asked == <<request, print, engine>>
job == <<units, at, done, error, settled, claims, converted>>

TimedOut == [tables |-> {}, source |-> "table_queue", status |-> "failed", reason |-> "timeout"]
-----------------------------------------------------------------------------
(* A table page.  It is [accepted, native, ink, regions, docling]: whether   *)
(* its text layer is trusted, what PyMuPDF finds, what is printed, each ruled *)
(* region as the image reader meets it and how the fallback reads the page.  *)

TableResult(tables, source, status, reason) ==
  [tables |-> tables, source |-> source, status |-> status, reason |-> reason]

\* The native reader decides alone, or leaves the page to the image reader.
ReadNative(page, strategy) ==
  LET blank == page.ink = "blank"
      decides == strategy = "pymupdf" \/ (strategy = "auto" /\ page.accepted /\ page.native = "tables") IN
  IF ~decides THEN Unread ELSE
  CASE page.native = "tables" -> TableResult({"native"}, "native_pdf", "complete", "none")
    [] page.native = "raises" -> TableResult({}, "native_pdf", "failed", "native_table_recognition_failed")
    [] OTHER -> TableResult({}, "native_pdf", IF blank THEN "empty" ELSE "unsupported",
                            IF blank THEN "blank_page" ELSE "native_table_not_resolved")

\* A region is resolved when text lies in it, its structure is a grid, every cell has a
\* valid box, and matching the text to the cells keeps them all.
RegionOutcome(region) ==
  IF ~region.text THEN "unresolved"
  ELSE IF region.structure = "raises" THEN "failed"
  ELSE IF region.structure = "grid" /\ region.boxes /\ region.cellsKept THEN "resolved" ELSE "unresolved"

\* Breaks ReportIsHonest: a page with a resolved region is complete.
BadReadImage(page) ==
  LET tables == IF \E r \in page.regions : RegionOutcome(r) = "resolved" THEN {"image"} ELSE {} IN
  CASE page.ink = "blank" -> TableResult({}, "rapidtable", "empty", "blank_page")
    [] tables # {} -> TableResult(tables, "rapidtable", "complete", "none")
    [] OTHER -> TableResult({}, "rapidtable", "unsupported", "no_ruled_table_region")
\* Only an all-white page is known to hold no table.
ReadImage(page) ==
  LET outcomes == {RegionOutcome(r) : r \in page.regions}
      tables == IF "resolved" \in outcomes THEN {"image"} ELSE {} IN
  CASE page.ink = "blank" -> TableResult({}, "rapidtable", "empty", "blank_page")
    [] page.ink = "plain" -> TableResult({}, "rapidtable", "unsupported", "no_ruled_table_region")
    [] page.ink = "ruled" /\ "failed" \in outcomes -> TableResult(tables, "rapidtable", "failed", "table_region_failed")
    [] page.ink = "ruled" /\ "failed" \notin outcomes /\ "unresolved" \in outcomes ->
         TableResult(tables, "rapidtable", "unsupported", "table_region_unresolved")
    [] OTHER -> TableResult(tables, "rapidtable", "complete", "none")

\* TableFormer: a page of which it maps every table, some, or none.
ReadDocling(page) ==
  CASE page.docling = "complete" -> TableResult({"docling"}, "docling_tableformer", "complete", "none")
    [] page.docling = "invalid" -> TableResult({"docling"}, "docling_tableformer", "unsupported", "fallback_invalid_table_structure")
    [] page.docling = "none" -> TableResult({}, "docling_tableformer", "unsupported", "fallback_no_table_structure")
    [] page.docling = "raises" -> TableResult({}, "docling_tableformer", "failed", "fallback_failed")

NeedsFallback(result) ==
  Docling /\ request.strategy = "auto" /\ result.status \in {"unsupported", "failed"}

\* What was read is given up only for a complete reading, or when it is nothing.
Merged(result, alternative) ==
  IF alternative.status = "complete" \/ result.tables = {} THEN alternative
  ELSE [result EXCEPT !.status = "unsupported", !.reason = alternative.reason]
-----------------------------------------------------------------------------
(* Workers. *)

Record(w, page, result) ==
  /\ done' = [done EXCEPT ![page] = result]
  /\ at' = [at EXCEPT ![w] = Idle]
  /\ UNCHANGED <<units, error>>

\* The first error is the job's and its other pages are not taken.
Fails(w, why) ==
  /\ at' = [at EXCEPT ![w] = Idle]
  /\ error' = IF error = "none" THEN why ELSE error
  /\ units' = <<>>
  /\ UNCHANGED done

\* An image needs the models, and a language they know.
NeedsModels(content) ==
  CASE request.operation = "orientation" -> TRUE
    [] request.operation = "ocr" -> /\ ~Accepted(content.layer) \/ request.force
                                    /\ content.size[1] * content.size[2] <= MaxPixels
    [] request.operation = "tables" -> /\ ReadNative(content, request.strategy) = Unread
                                       /\ content.ink = "ruled"
UnknownLanguage(content) ==
  /\ request.operation = "tables" /\ ~request.english
  /\ ReadNative(content, request.strategy) = Unread

Take(w) ==
  /\ at[w] = Idle /\ units # <<>>
  /\ at' = [at EXCEPT ![w] = [page |-> Head(units), stage |-> "reading", found |-> Unread]]
  /\ units' = Tail(units)
  /\ UNCHANGED <<asked, clock, thread, route, done, error, settled, claims, converted, answer>>

ReadUnit(w) ==
  LET page == at[w].page  content == print[page]
      first == IF request.operation # "tables" THEN Unread
               ELSE IF ReadNative(content, request.strategy) # Unread THEN ReadNative(content, request.strategy)
               ELSE ReadImage(content) IN
  /\ at[w] # Idle /\ at[w].stage = "reading"
  /\ CASE UnknownLanguage(content) -> Fails(w, "unsupported_language")
       [] ~UnknownLanguage(content) /\ NeedsModels(content) /\ engine = "broken" -> Fails(w, "configuration")
       [] OTHER ->
            CASE request.operation = "orientation" -> Record(w, page, Classify(content))
              [] request.operation = "ocr" -> Record(w, page, ReadOcrPage(content, request.force))
              [] request.operation = "tables" /\ ~NeedsFallback(first) -> Record(w, page, first)
              [] request.operation = "tables" /\ NeedsFallback(first) ->
                   /\ at' = [at EXCEPT ![w] = [@ EXCEPT !.stage = "claiming", !.found = first]]
                   /\ UNCHANGED <<units, done, error>>
  /\ UNCHANGED <<asked, clock, thread, route, settled, claims, converted, answer>>

\* Breaks Inv: one page too many.
BadMayClaim == claims <= MaxFallback
MayClaim == claims < MaxFallback

Claim(w) ==
  /\ at[w] # Idle /\ at[w].stage = "claiming"
  /\ IF MayClaim
     THEN /\ claims' = claims + 1
          /\ at' = [at EXCEPT ![w] = [@ EXCEPT !.stage = "converting"]]
          /\ converted' = converted \cup {at[w].page}
          /\ UNCHANGED <<units, done, error>>
     ELSE /\ Record(w, at[w].page, [at[w].found EXCEPT !.status = "unsupported", !.reason = "fallback_page_limit"])
          /\ UNCHANGED <<claims, converted>>
  /\ UNCHANGED <<asked, clock, thread, route, settled, answer>>

\* One converter per process: the conversions of two workers do not overlap.
Convert(w) ==
  /\ at[w] # Idle /\ at[w].stage = "converting"
  /\ Record(w, at[w].page, Merged(at[w].found, ReadDocling(print[at[w].page])))
  /\ UNCHANGED <<asked, clock, thread, route, settled, claims, converted, answer>>

\* The last page back, or none left after an error: some worker finishes the job.
Finish ==
  /\ thread \in {"waiting", "expired"} /\ ~settled
  /\ units = <<>> /\ \A w \in Worker : at[w] = Idle
  /\ settled' = TRUE
  /\ UNCHANGED <<asked, clock, thread, route, units, at, done, error, claims, converted, answer>>
-----------------------------------------------------------------------------
(* The thread and the route. *)

\* A table request reads a page that is named twice once.
Distinct(s) == Picked(s, {i \in DOMAIN s : \A k \in DOMAIN s : k < i => s[k] # s[i]})
\* An orientation request leaves out the pages with text, unless it is told not to.
Targets == CASE request.operation = "tables" -> Distinct(request.pages)
             [] request.operation = "orientation" ->
                  Picked(request.pages, {i \in DOMAIN request.pages :
                                           request.force \/ ~print[request.pages[i]].text})
             [] request.operation = "ocr" -> request.pages

Answers(kind, pages) == answer' = [kind |-> kind, pages |-> pages] /\ thread' = "over"

\* Breaks DeadlineKeepsPages: the pages that were read come first.
BadSnapshot == SelectSeq([i \in DOMAIN Targets |-> done[Targets[i]]], LAMBDA r : r # Unread)
   \o [i \in 1..Cardinality({k \in DOMAIN Targets : done[Targets[k]] = Unread}) |-> TimedOut]
Snapshot == [i \in DOMAIN Targets |-> IF done[Targets[i]] = Unread THEN TimedOut ELSE done[Targets[i]]]

\* The thread opens the document, unless its time is over.
Open ==
  /\ thread = "opening"
  /\ IF request.operation = "tables" /\ clock > 0
     THEN Answers("timeout", <<>>)
     ELSE thread' = "queueing" /\ UNCHANGED answer
  /\ UNCHANGED <<asked, clock, route, job>>

Enqueue ==
  /\ thread = "queueing"
  /\ CASE Targets = <<>> -> Answers("pages", <<>>) /\ UNCHANGED units
       [] Targets # <<>> /\ request.operation = "tables" /\ clock > 0 ->
            Answers("pages", Snapshot) /\ UNCHANGED units
       [] OTHER -> units' = Targets /\ thread' = "waiting" /\ UNCHANGED answer
  /\ UNCHANGED <<asked, clock, route, at, done, error, settled, claims, converted>>

\* Breaks EveryCallerAnswered: only a table request waits with a deadline.
BadExpire ==
  /\ thread = "waiting" /\ ~settled /\ clock > 0 /\ request.operation = "tables"
  /\ thread' = "expired"
  /\ UNCHANGED <<asked, clock, route, job, answer>>
\* The wait ends with the event, or at the deadline, some time before the thread has
\* the lock.
Expire ==
  /\ thread = "waiting" /\ ~settled /\ clock > 0
  /\ thread' = "expired"
  /\ UNCHANGED <<asked, clock, route, job, answer>>

GiveUp ==
  /\ thread = "expired"
  /\ units' = <<>> /\ error' = "timeout"
  /\ IF request.operation = "tables" THEN Answers("pages", Snapshot) ELSE Answers("timeout", <<>>)
  /\ UNCHANGED <<asked, clock, route, at, done, settled, claims, converted>>

Return ==
  /\ thread = "waiting" /\ settled
  /\ IF error # "none" THEN Answers(error, <<>>)
     ELSE Answers("pages", [i \in DOMAIN Targets |-> done[Targets[i]]])
  /\ UNCHANGED <<asked, clock, route, job>>

Reply ==
  /\ thread = "over" /\ route = "open"
  /\ route' = answer.kind
  /\ UNCHANGED <<asked, clock, thread, job, answer>>

\* asyncio.wait_for gives up on the thread of a table request, which goes on.
RouteTimesOut ==
  /\ route = "open" /\ request.operation = "tables" /\ clock = 2
  /\ route' = "timeout"
  /\ UNCHANGED <<asked, clock, thread, job, answer>>

Tick ==
  /\ clock < 2 /\ clock' = clock + 1
  /\ UNCHANGED <<asked, thread, route, job, answer>>

Init ==
  /\ request \in Requests
  /\ print \in Documents[request.operation]
  /\ engine \in {"loads", "broken"}
  /\ clock = 0 /\ thread = "opening" /\ route = "open"
  /\ units = <<>> /\ at = [w \in Worker |-> Idle] /\ done = [p \in Page |-> Unread]
  /\ error = "none" /\ settled = FALSE /\ claims = 0 /\ converted = {}
  /\ answer = [kind |-> "none", pages |-> <<>>]

Work == \E w \in Worker : Take(w) \/ ReadUnit(w) \/ Claim(w) \/ Convert(w)
Caller == Open \/ Enqueue \/ Expire \/ GiveUp \/ Return \/ Reply \/ RouteTimesOut

Next == Work \/ Finish \/ Caller \/ Tick

\* Time passes and the caller's own steps are taken; nothing is assumed of the workers:
\* an inference may hang.
Spec == Init /\ [][Next]_vars /\ WF_vars(Tick) /\ WF_vars(Caller)
-----------------------------------------------------------------------------
(* Properties. *)

TableStatus == {"complete", "empty", "unsupported", "failed"}

\* Workers hold pages of the request, no unit is queued before the thread queues it,
\* and what is recorded for a table page has one of the four outcomes.
TypeOK ==
  /\ \A w \in Worker : at[w] # Idle => at[w].page \in Range(request.pages)
  /\ Range(units) \subseteq Range(request.pages)
  /\ thread \in {"opening", "queueing"} => units = <<>> /\ \A p \in Page : done[p] = Unread
  /\ request.operation = "tables" => \A p \in Page : done[p] # Unread => done[p].status \in TableStatus
  /\ claims \in 0..MaxFallback

\* "Preserve completed table pages at the deadline ... late results cannot change the
\* response" (ocr_queue.py:698): an answer has one entry per page asked, in that
\* order; an entry is the page's reading if it was recorded before the answer and says
\* that time ran out otherwise; only a table request answers with pages missing.
DeadlineKeepsPages ==
  [][/\ answer' # answer /\ answer'.kind = "pages" =>
          /\ Len(answer'.pages) = Len(Targets)
          /\ \A i \in DOMAIN Targets :
               answer'.pages[i] = IF done[Targets[i]] = Unread THEN TimedOut ELSE done[Targets[i]]
          /\ request.operation # "tables" => \A i \in DOMAIN Targets : done[Targets[i]] # Unread
     /\ answer.kind # "none" => answer' = answer]_vars

\* Whatever pages are read at the same time, the fallback gets at most
\* TABLE_FALLBACK_MAX_PAGES of a request, only of an automatic one, and a page is
\* refused it only when so many have had it.
FallbackIsBounded ==
  /\ Cardinality(converted) <= MaxFallback
  /\ converted # {} => Docling /\ request.strategy = "auto"
  /\ request.operation = "tables" =>
       \A p \in Page : done[p] # Unread /\ done[p].reason = "fallback_page_limit"
                         => Cardinality(converted) = MaxFallback

\* Units, workers and results belong to the request, and its fallback is bounded
\* (ocr_queue.py:683-724, 942-965).
Inv == TypeOK /\ FallbackIsBounded

\* What some reader has resolved of a page of an automatic request.
Resolved(page) ==
  (IF page.accepted /\ page.native = "tables" THEN {"native"} ELSE {})
  \cup (IF \E r \in page.regions : RegionOutcome(r) = "resolved" THEN {"image"} ELSE {})

\* "empty is never an error substitute" (pdf_service.py:1549): a page is empty only if
\* it is blank; a page whose tables some reader resolved is answered with tables; and a
\* page is complete only if the reader that is named resolved all that it met.
ReportIsHonest == request.operation = "tables" => \A p \in Page : done[p] # Unread =>
  LET page == print[p]  result == done[p] IN
  /\ result.status = "empty" => page.ink = "blank"
  /\ request.strategy = "auto" /\ Resolved(page) # {} => result.tables # {}
  /\ result.status = "complete" =>
       /\ result.tables # {}
       /\ result.source = "rapidtable" => \A r \in page.regions : RegionOutcome(r) = "resolved"
       /\ result.source = "docling_tableformer" => page.docling = "complete" /\ p \in converted

\* All of the print runs one way and no end of a line reads better upside down.
PlainPrint(scan) == \A i \in DOMAIN scan.lines :
  scan.lines[i].along /\ scan.lines[i].start # "misread" /\ scan.lines[i].end # "misread"
\* All lines are read, each from end to end or alike at both.
ReadWhole(scan) ==
  /\ Len(scan.lines) <= MaxReadLines
  /\ \A i \in DOMAIN scan.lines : scan.lines[i].start = scan.lines[i].end

\* What a page is answered when it is asked about again, turned by the correction it was
\* answered with: never a quarter turn; nothing if the correction was the quarter turn
\* that shows the reader the same ends of the same lines; and nothing after any
\* correction if all lines are read and none is longer than what is read of it.  (A long
\* line is read at its other end after a half turn, and may then speak against it.)
\* Plain print that is turned is upright, and stays so.
CorrectionSettles == request.operation = "orientation" => \A p \in Page : done[p] # Unread =>
  LET scan == print[p]  again == Correction(Classify(Corrected(scan))) IN
  /\ again \in {0, 180}
  /\ Correction(done[p]) \in {0, 90} \/ ReadWhole(scan) \/ PlainPrint(scan) => again = 0
  /\ PlainPrint(scan) /\ Correction(done[p]) # 0 => Corrected(scan).turn = 0

\* The response document of an OCR request says what is missing: the coverage is
\* complete only if every page was read, every word of it returned and every line of a
\* page without text written under it; each word that is returned stands where it is
\* printed, and each that is not is counted.
PrintIsAccounted == request.operation = "ocr" /\ answer.kind = "pages" =>
  LET document == Assemble(answer.pages, TRUE) IN
  \A n \in DOMAIN Targets :
    LET page == print[Targets[n]]  result == document.pages[n] IN
    result.source = "rapidocr" =>
      /\ "complete" \in {result.status, document.status} =>
           /\ result.words # <<>> /\ DOMAIN result.words = Words(page)
           /\ ~page.layer.text /\ ~Turned(page) => DOMAIN result.layer = DOMAIN page.lines
      /\ document.status = "unavailable" => result.words = <<>>
      /\ result.status \in {"complete", "partial"} =>
           /\ \A w \in DOMAIN result.words : result.words[w] = page.lines[w[1]].at
           /\ Cardinality(DOMAIN result.words) + result.discarded = Cardinality(Words(page))
      /\ \A q \in Printed(page) \cup page.faint : InBox(q, Crop(page))

\* "a hung inference must not hang the caller" (ocr_queue.py:662): the client is
\* answered even if no worker takes another step.
EveryCallerAnswered == <>(route # "open")
=============================================================================
