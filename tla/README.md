# Verification of pdf-engine-toolbox

TLA+ models of the PDF engine, their TLC runs and their TLAPS proofs. The engine is a FastAPI
service that reads, transforms and redacts PDFs. It has three kinds of hard code. The OCR job
queue (`app/services/ocr_queue.py`) is concurrent and durable: threads, a SQLite ledger, spill
files, restarts and two classes of work on one pool. Around it are requests with deadlines,
background tasks, a file cache and a nonce ledger. And there are sequential decisions that must
be exact although what they are given is not: identifiers in a scan, the cells of a table, which
way up a page is, page numbers that shift while pages are deleted.

## Inventory

| Component | State | Operations | Hard behaviour | What makes it correct |
| --- | --- | --- | --- | --- |
| OCR queue, durable life cycle (`ocr_queue.py`) | ledger `jobs.sqlite3` (jobs, checkpointed pages), `inputs/`, `results/`, `_jobs`, `_pending`, `_active`, `_reserved`, `_Job` fields | `submit_ocr`, `_work`, `_run_and_record`, `_finish`, `_fail_job`, `start`, `shutdown`, `status` | threads; each write may raise; the process may die between any two writes | no accepted job is lost, settled twice or failed without a reason; files, rows and memory agree; the limit holds |
| OCR queue, scheduler (`_next_unit_locked`, `_run_sync`) | the two lanes, cursors, streak, condition variable | take a page, yield a slot, admit, finish, sleep, time out | two classes of work, page-boundary yields, timeouts racing results, lost wake-ups | every job at one place, order kept, bounded bypass, everybody answered |
| OCR queue, retention (`_Store.sweep`, `prune`, `cached`) | file ages, `completed_at` | periodic sweep, TTL, result deduplication | runs beside writers and readers | what is served is whole and unexpired, nothing live is removed |
| Task polling (`task_service.py`, `routes/tasks.py`) | `_tasks` in memory, else the ledger | create, complete, fail, prune, get | restart forgets the in-memory ones | an outcome is final while the task is known |
| Identifier redaction (`routes/redact.py`, `identifier_redaction.py`) | one background task per scan; file cache | read, match, black out, read again | OCR is partial, differs from reading to reading, and joins what stands side by side | fails closed: no identifier that was read is returned; what is no identifier stays |
| Synchronous page requests (`routes/text.py`, `run_pages`, `run_rapid` and `_run_sync` of `ocr_queue.py`) | the request's thread, the job, the route | queue, wait, take a snapshot, answer | two nested deadlines, late results, a hung inference | one entry per page asked, what was read is kept, everybody is answered |
| Table pipeline (`table_*.py`) | fallback budget per request, one converter per process | read page natively, by model, by fallback; the grid of spanning cells | failed and partial regions, concurrent claims of the budget, spans that overlap | the report says what was not resolved; budget never exceeded; no slot in two cells |
| File cache (`cache_service.py`) | `.dat`/`.meta` pairs | get, put, prune | concurrent, non-atomic file pairs, crash in between | a hit is the whole result of that request |
| RapidOCR reader (`rapid_ocr.py`, `ocr_preprocessing.py`) | one engine per thread, `FITZ_LOCK` | trust the text layer or not, crop and turn, read, map back, assemble | words without geometry, low confidence, print at the margin | coverage says what was not read; a box is where its print is |
| Orientation (`page_orientation.py`) | none | detect | lines that read badly either way, long lines of which one end is read | undecided rather than wrong; a corrected page is not a quarter turn off again, and not turned at all where its lines are read whole |
| PDF operations (`pdf_service.py`, `routes/*.py`) | none; the client holds the document | split, merge, reorder, delete, build, mark, redact, outline, locks, forms | page numbers shift; two numberings; outlines that follow pages | the pages, bookmarks and fields the client meant |
| PDF/A, repair, compression, extraction (`pdfa_service.py`, ...) | none | one call into PyMuPDF each | library behaviour | |
| Source download (`download_service.py`) | one stream | resolve, connect, stream | declared sizes, redirects, cut-off streams | the whole source from a checked address, or nothing |
| Request authentication (`hmac_auth.py`) | nonce ledger in SQLite | check time, signature, nonce | copies of one request, restarts, expiry, a full ledger | a sensitive request gets through once while it is fresh |
| Build identity, provenance, scripts | none | checks of one file or release | | |

Interaction: `POST /text/ocr` (routes/text.py) looks for a finished result of the same request
in the ledger, else calls `submit_ocr` and answers a task id; `GET /tasks/{id}` asks
`task_service`, then `OcrQueue.status`. Redaction, orientation and tables call `_run_sync` from
request or background threads and wait on the job's event. All of them share the `OCR_WORKERS`
threads, the condition variable `_cond` and the lists it protects. The ledger has a lock of its
own; files have none.

## Modules

| Module | Models |
| --- | --- |
| `OcrTask` | The abstract contract: what successive polls of a task may answer, across restarts. |
| `OcrQueue` | The durable life cycle of a persistent job: submission, pages, outcome, failure, crash, recovery. Implements `OcrTask`. |
| `OcrScheduler` | `_next_unit_locked` line by line, the condition variable, synchronous callers, timeouts, shutdown. |
| `OcrStore` | Retention: ages of rows and files, `prune`, `sweep`, polls and reuse of results, beside a submission and a completion. |
| `FileCache` | `get_cached`, `put_cached` and the pruning, one action per file operation. It has no next-state relation of its own. |
| `BackgroundTasks` | The routes that use the cache and answer with a task, the in-memory tasks and the poll, over `FileCache`. |
| `PageOrientation`, `OcrPage` | Pure: the orientation of a scan; one page through the OCR reader, and the document made of the pages. |
| `PageRequests` | A table, orientation or OCR request: route, thread, units, workers, deadlines, the table readers and the fallback, over `PageOrientation` and `OcrPage`. |
| `TableGrid` | `TableParser` tag by tag, and the readers of a table compared. |
| `Redaction` | `redact_identifiers`: scan, OCR, decision, blacking out, second reading. |
| `PdfDocument` | The operations on a document and a client's chain of requests. |
| `RequestIntake` | `verify_hmac` with its nonce ledger, then `download_pdf`. |
| `MC...` | The constants of the runs. |
| `OcrQueueProofs`, `OcrSchedulerProofs`, `OcrStoreProofs`, `BackgroundTasksProofs`, `PageRequestsProofs`, `TableGridProofs`, `PdfDocumentProofs`, `RequestIntakeProofs` | Theorems about the module they are named after, after the lemmas about sequences and loops they rest on. |

### OcrQueue

A variable is a column of the ledger (`row`, `seqno`, `units`), a directory (`inputs`,
`results`), a field of `OcrQueue` (`jobs`, `waiting` for `_pending`, `active`, `reserved`) or of
`_Job` (`todo` for `units`, `done`, `started`, `erred`, `terminal`, `data`), or the place where a
thread is: `sub` for each `submit_ocr` call, `wk` for each worker. One action is one critical
section of `_cond`, one statement or transaction of the ledger, or one file operation, so that
another thread, an exception, `shutdown()` or a crash can come between any two.

* Submission: `Reserve`/`Refuse` (limit check), `SpillInput`, `InsertRow` (removes the input if
  the insert raises), `InsertFailed` (the request is invalid), `Enqueue`, `Release` (the
  `finally` clause, a separate critical section).
* A worker: `PickUnit`, `MarkProcessing`, `ReadPage`, `SaveUnit`, `RecordPage` or `RecordError`;
  `PickFinish`, `Assemble`, `WriteResult`, `Commit`, `UnlinkInput`, `PopJob`, with `UndoResult`
  when something after the result file raised; `FailLocked`, `FailRow`, `FailUnlink`.
* The process: `Start` (with its sweep), `RecoverRow`, `RecoverFailed`, `RecoverAborted`
  (recovery itself raises), `StartDone`, `Shutdown`, `Exit`, `Crash`.

Abstractions. A page is its position in the request's list, so a list has no duplicates. Page
text, encryption and response building are left out: reading a page returns or raises, assembling
returns or raises. A crash is the death of the process, not of the machine: what SQLite committed
and what was renamed into place survives (`synchronous = NORMAL` is not modelled). A temporary
file that a failed or interrupted write leaves is invisible: the rename puts the whole file in place.
In the sweep of `start()`, a file no row refers to may or may not be older than ten minutes, so any
subset of these files goes. Only persistent jobs are here, so no slot is yielded, and which active
job's page comes next is left open: it is `OcrScheduler` that decides. `InsertRow` and `Enqueue`
are separate, so two submissions may reach the queue in the other order than the ledger. The
replacement of dead threads (`supervise`) never happens: `_work` catches everything.

### OcrScheduler

`pending` and `active` are sequences, the cursors are the code's indices (0-based, hence the
`+ 1` in `Chosen`), pages are counted. `Filled` is the state of the slots after the yield and the
admission loop, `Chosen` the round robin over it; `TakeFinished`, `TakeEmpty`, `TakePage` and
`Sleep` are the four outcomes of a scheduling pass. `NotifyAll` wakes every sleeper. A caller of
`_run_sync` enqueues (`Call`), and returns, or its wait expires (`Expire`), after which it needs the
lock to abandon the job (`TimeOut`): the job may be settled in between. `OpenInput` is apart from
`ReturnPage` because the decrypted input is stored without the lock. In `Shutdown` the critical
section and the answers that follow it are one step. Not here: `_run_sync` called from a worker
thread (it then runs inline), the table snapshot, the ETA estimates.

### OcrStore

`row` and `ended` are the status and `completed_at` of each job, `file` the age of each path of the
two folders and of its temporary. `writer` is where the submission or the worker of a job is, one
step per write, rename, statement and unlink; `sweep` is where the sweep is, with its own copies: the
rows it selected, the references it read before it listed, what its clock (`now`) makes old, the
listing. The sweep of `start()` is the same actions before the workers run. `reader` is a poll
(`status`) or a lookup for reuse (`cached_result`), which read the row and then the file; only the
unknown answers are kept. All jobs have the same bytes and parameters. Ages stop one tick after the
limit they are compared with, so time is unbounded. Pages, memory and the queue itself are in
`OcrQueue`, as is the sweep of page checkpoints; an unlink does not raise here.

One assumption is explicit in `Tick`: a file is written, renamed and entered in the ledger within ten
minutes. The sweeper's grace period relies on it. Without it (a disk that stalls for ten minutes between
a rename and its row) the sweep would take the file.

### FileCache and BackgroundTasks

`dat` and `meta` are the two files of each key; a file is absent, cut off or whole, and metadata
fresh or expired. `byAge` is the order of the modification times. `call` is where each actor, the
event loop or the thread of a redaction, is in a call of the cache. A file opened by one actor and
unlinked by another is still written, and found by nobody (`linked`). Every entry has the same size,
so `Limit` counts entries. Pruning keeps the code's snapshot: the list of names, then the sizes, then
the removals, data file first, with errors ignored as in `_remove_entry`.

`tasks` is `_tasks`, one task per client: a client that sends its document again no longer follows
the older one. `job` is where a request and its background task are. An async handler and an office
conversion (an `async def`) hold the event loop from one await to the next (`holder`); a redaction
is a plain function and runs in a thread, so its assignments (`SetStatus`, `SetResult`) interleave
with a poll's reads (`ReadStatus`, `ReadRest`). `completed_at` is merged with the result: only the
pruning of tasks reads it. Answers that touch no state (invalid base64, `text_layer_only`) are
left out, and what a redaction or conversion computes is one step that succeeds or fails.

### PageRequests, PageOrientation and OcrPage

`thread` is where the request's thread is (`opening`, `queueing`, `waiting`, `expired`, `over`),
`route` what the client was told, `units`, `done`, `error` and `settled` the fields of the job,
`claims` is `_fallback_used`. `clock` is 1 from the queue's deadline on and 2 from the route's,
which is a second later. `Expire` (the wait gives up) and `GiveUp` (the thread has the lock) are two
steps, so pages, an error or the settling of the job can come between. Slots and turns are
`OcrScheduler`'s: here any idle worker takes the next page. A worker's reading is one step, except
that a table page may go on to `Claim` (the budget, under the lock) and `Convert`.

What the pages hold is chosen at the start, and a reading is an operator over it: `ReadNative`,
`ReadImage`, `ReadDocling` and `Merged` for tables, `Classify` for orientation, `ReadOcrPage`,
`WriteSearchLayer` and `Assemble` for OCR. Numbers that come out of models are classes: a region is
resolved, unresolved or raises, a line reads well upright, upside down or not at all, a word is good,
below the threshold, blank or without geometry. Crop and turn are exact over a small raster.

Of a line the orientation reader is given the first `MAX_READ_ASPECT` heights from the left of the page
shown (`_crops`): its start, or its end when the page is upside down (`LeftEnd`). A line has a start and an
end for that, which are the same when it is short enough to be read whole. A crop too tiny to be read is
dropped after the longest lines were chosen (`Crops`). The text detector is assumed to find the same lines
whichever way up the page is, and to list them from the top of the page shown.

### TableGrid

The variables are the fields of `TableParser`; a tag is an action and an error is `raised`. `Height`,
`Width` and `Accepted` are `result()`. `MapsTable` and `NativeCells` are what `map_document` and
`native_cells` make of the same table, given as explicit cells and as ruled lines.

### Redaction

A page is lines of items, and a number is the lengths of its digit groups: which digits they are never
matters, how many and how they are grouped decides everything. `Runs`, `Suspect`, `OcrHits`, `TextHits`,
`SearchLines` and `UnreadPrint` are the functions of `identifier_redaction.py` over them. `NumberReadings` is
the engine, not code of the repository: it may drop or add up to three digits, lose separators, read digits as
letters, lose half of a number, or leave print unread, anew at each reading. A short word of one to three
letters that look like digits ("So", "Is", a rule "|") is read as its letters, as digits or as something else
(`ShortReadings`); its letters become digits beside a number, or four in a row (`Numeric`, from
`normalize_confusions`), and then join the number's run. Longer words are read as words, and labels ("SSN",
"EIN") and "ID" are not made of such letters alone. Rotated print, fragments of words and unread marks that
run across items are left out.

### PdfDocument

A document is pages, outline, form and lock; an operation is an operator from a document and the arguments to
a document or `Refused`. An action is one request of a client that keeps the PDF it is answered, so page
numbers and outlines go through several operations. A page records which source page it is, its turn and what
is marked on it. What PyMuPDF does with an outline when a page goes (`Followed`), and how it numbers it, is
modelled from how the service uses it. What is stored are PDFs (`StoredAssumption`): the outline of each is
`Nested` and names pages it has, and widgets of one name are one field (`OneField`). `AddBookmarks` checks
nothing itself; what `set_toc` accepts is modelled: an outline that is nested and whose rows, but for the
last, name pages of the document, the last being taken to the last page if it lies past the end (`Leading`).
`BuildPdf` burns annotations only with its flatten flag, and `FillForm` with its flag leaves no form. That
burned values become content of their page is not modelled. `Descending` is the order in which `delete_pages`
removes, written without recursion.

### RequestIntake

`stage` is where each delivery of a request is in `verify_hmac` and `download_pdf`. The timestamp is
checked before the body is awaited, and the nonce is claimed with the time read then (`seen`), so other
deliveries, time and a restart come between. The ledger outlives restarts. A source is its addresses,
the reply, the declared size and what is streamed. `clock` counts in units of the sensitive drift.

## Runs

| Run | Bounds | Shows |
| --- | --- | --- |
| `queue_safety` | three requests (two pages, one page, one that cannot be planned), a limit of two, two workers, one slot, two I/O errors of any kind, one shutdown or crash | limit, inputs, checkpoints, work, rows, order, finality (below) |
| `queue_client` | two requests, one slot, two I/O errors (spill, page, outcome or failure not written), one shutdown or crash | `OcrQueue` implements `OcrTask` (`ClientContract`); every accepted job settles and every place is given back (`EveryRequestSettles`) |
| `scheduler_safety` | two documents of two pages, two synchronous requests, two workers, two slots, page errors, timeouts | no job, page or wake-up is lost, both lanes get their shares (below) |
| `scheduler_liveness` | one slot, a two-page document, a document recovered with every page checkpointed, a two-page synchronous request, one worker, shutdown | jobs settle and callers are answered (`EverybodyIsServed`), order is kept (`OcrKeepsItsOrder`) |
| `ocr_store` | one job through its whole life and one that was complete, limits of one tick, one ledger error, one crash | nothing in use is swept (`Inv`), everything else goes (`NothingStays`) |
| `background_tasks` | two clients with one scan, one with a digital letter that is cached, three requests in all, room for one entry, one failed write, one crash | a document from the cache is whole (`Inv`), no task and no handler is left behind (`NoTaskAbandoned`) |
| `page_requests` | two pages of every kind, fourteen requests, two workers, a fallback budget of one page, deadlines at any moment, models that load or do not | budget (`Inv`), honest table reports (`ReportIsHonest`), orientation (`CorrectionSettles`), OCR coverage and boxes (`PrintIsAccounted`), the snapshot (`DeadlineKeepsPages`), liveness (`EveryCallerAnswered`) |
| `table_grid` | every sequence of tags with at most three rows, four cells, spans 0 to 3 against a limit of two and eight slots | the map is exact (`Inv`), the layout is HTML's (`LaidOutAsHtml`), the readers agree (`ReadersAgree`) |
| `redaction` | twenty-four documents of one or two pages, with short words that may become digits, every reading up to three digits off in each pass | no identifier is left (`Inv`), either reading is enough (`SecondReadingCounts`), nothing else goes (`OrdinaryNumbersStay`) |
| `documents` | chains of two requests on a letter, a turned scan, a form; every page list of up to two entries, orders of three; bookmarks past the end; annotations and fields flattened or not | `TypeOK`, `RequestIsExact`, `BuildIsExact`, `WriteBackKeepsOutline`, `FilledIsListed` |
| `intake` | one request delivered twice and signed ahead of the clock, a later one, an unsigned one; room for two nonces; five sources; one restart | a nonce is accepted once (`Inv`), a source is whole or nothing (`WholeOrNothing`) |
| `redaction_beside` | the documents of `redaction` | the divergence below |

Why these bounds are enough for what they claim: two workers on one two-page job give every interleaving of
"last page", "error" and "finish"; a second job adds admission and order; the third, invalid, one adds a row
that never was in the queue and a limit that is reached. Two errors cover an error in the handling of an error
(commit and unlink, save and `store.fail`, checkpoints and `store.fail` during recovery). One restart gives
recovery from every intermediate state; what recovery leaves is an initial state of the second life, which is
explored too. `FaultKinds` names the operations that may raise; `spill`, `mark` and `read` are left out of
`queue_safety` because `insert` and `save` lead to the same handlers. `MaxFaults` counts distinct (job,
operation) pairs, so one pair may raise every time. `scheduler_liveness` has one worker because that is the
hard case: what its pass leaves behind no other worker will notice (that no wake-up is lost between two is
`SleepOnlyWhenNothingToTake`). Workers are interchangeable, hence the symmetry in the runs without liveness.
Deadlock is not checked: a queue with nothing to do rests, and a stopped one ends.

What `queue_safety` checks, beyond types: the limit (`UnfinishedBounded`); a row that a restart
would resume has its input (`InputPresentWhileUnfinished`); no page text after the outcome
(`CheckpointsOnlyWhileUnfinished`); resumption neither repeats nor skips a page, a page is at one
place, and a client's document is not decrypted longer than used (`WorkAccounted`, of
`DoneIsCheckpointed`, `PageAtOnePlace` and `DecryptedOnlyInUse`); no row is stranded, no
interleaving, crash or recovery fails a job, a completed row has its result (`EveryRowAccounted`, of
`NoRowStranded`, `NoSpuriousFailure` and `CompletedHasResult`); order (`KeepsOrder`); outcomes are
final (`OutcomeIsFinal`). `scheduler_safety` checks that admissions, yields and timeouts neither
lose nor duplicate a job or page (`Inv`, of `OnePlacePerJob`, `PagesAccounted` and
`FinishedIsComplete`), that no wake-up is lost (`SleepOnlyWhenNothingToTake`), that abandoned work
is not started (`TimedOutIsAbandoned`), that the lanes get their shares (`LanesShare`), and that a
job that yields its slot has no page in flight and no input decrypted (`WaitingHoldsNothing`). That
it goes back to its place in line (`OcrKeepsItsOrder`) is checked where there is one slot, in
`scheduler_liveness`.

`ocr_store` follows one job, because a sweep looks at each path by itself; the other job gives the
sweep more than one thing to do and the lookup a choice. With limits of one tick every file and row can be
younger than, as old as and older than its limit, at each of its steps and each of the sweep's.

`background_tasks` has room for one entry and two keys, so that every store prunes, evicts the other
key, or finds a thread doing so; two threads store the same key at the same time. One failed write or
crash is enough for each of the intermediate states of the pair of files, and the requests that follow
read them. What protects a document is that JSON which is cut off does not parse.

`page_requests` has two pages because what can go wrong between pages is pairwise (the budget, the first
error, an answer with one page missing); one of them is of every kind, the other one of the few that
need the fallback, do not, or fail in it. Scans have up to three lines with limits of two and three, so
each threshold of `page_orientation.py` is met, missed and exceeded. The lines are of seven kinds: clear, misread,
poor, stray, small, tiny, and long with two ends that read differently, which makes the verdict depend
on the end that is read.

`table_grid` reaches every overlap of a cell with spans of at most two from the row above, the cell
limit, spans refused on either side, and unclosed rows and cells. `redaction` reaches each shape of
identifier alone, wrapped, in boxes, beside other numbers and beside short words, in text layers, scans and mixed
pages; two pages are enough because pages are searched by themselves and only the decision is common. Account numbers in
its text layers have no identifier's label before them: one that has is blacked out by the code, so
`OrdinaryNumbersStay` says nothing of a label that is there for another number.
`documents` chains two requests: what an operation leaves wrong shows in the next one's numbers.
Its states are compared by the document and the count (`VIEW Held`): no action reads `answer`, and the properties
that do are about steps, which are all checked.
`intake` has a request in the future, because that is the case in which a claim must outlive the time at
which it was made, and one that clears the ledger between its copies. The ledger has room for two rows
(`MaxEntries = 2`), so the second copy of a request meets its own nonce alone ("replayed") as well as a ledger
the other request has filled ("full"); with room for one, the nonce check would never be reached. A mutant of
`Inv` leaves the nonce check out.

Things the runs make precise. A failure the ledger cannot record is reported to clients as failed, but only
from memory: after a restart the task is pending again (`OcrTask!Restart` allows it, `OutcomeIsFinal` is about
recorded outcomes). A completed job turns failed when the unlink of its input raises after the commit;
`CompletedHasResult` and `OutcomeIsFinal` except exactly that. `AcceptedOnce` is about the window in which the
request is fresh: `_claim_sensitive_nonce` is given the time at which the timestamp was checked, before `await
request.body()`, so a copy whose body takes longer than the window is compared with a ledger that another
claim may have cleared. `NoneLeft` is about identifiers that stand alone and were read in their shape to
within two digits: a number read as a phone number (3-3-4) or a ZIP+4 is taken for one (`_NOT_IDENTIFIER`),
and the second reading looks for whole identifiers only, not for suspect runs. To stand alone is to have
neither a number nor a short word beside it, as either may join its digits. `CorrectionSettles` promises that
a corrected page is not turned at all only where a half turn shows the reader the same print: see the long
lines below. `BuildIsExact` promises that a bookmark leads to the page that was named if there is one.

### Divergences

One is a run, `redaction_beside`: on a scanned line "1 123-45-6789" or "123-45-6789 2024" is one digit run of
ten or thirteen digits. It is no identifier, because that takes nine, and not suspect, because its groups have
no identifier's shape; the second reading passes for the same reason, and the document is returned with the
identifier in it. So it is for "So 123-45-6789" and for an EIN with a ruled line "|" beside it, where letters
become the digits that make the run too long. This is what `identifier_redaction.py:19` excludes ("If an
identifier is still readable anywhere, the redaction fails"). `NoneLeft` says that this takes digits, or
letters that become digits, beside the identifier.

Others were met while modelling; the models follow the code, and no run is kept for them.

* A late record: a worker that tested `_stopped` just before `shutdown()` set it still
  records its page or outcome, although the docstring of `shutdown()` says nothing is recorded
  after it. The recorded state is consistent: every invariant holds after shutdown.
* An early refusal: a submission is in `_jobs` and in `_reserved` between two critical sections;
  another one arriving then gets 429 with fewer unfinished jobs than the documented limit.
* Two turns in a row: removing a finished document shifts the list under the cursor, and a document
  can start two pages while a ready neighbour starts none. `EverybodyIsServed` shows that this
  starves nobody.
* A bare answer: `complete_task` and `fail_task` set the status first. A poll between the two
  assignments answers with a final status and neither result nor error, which the contract of
  `GET /tasks/{id}` promises. Setting the status last repairs it.
* A swept result: the process dies between the rename of a result and its transaction. Ten minutes
  later the periodic sweep finds that file old and unreferenced; between its last look and its unlink
  the resumed job puts a new result at the same path. The unlink takes the new one, and a job
  completed a moment ago is answered as unknown. The window is the last two steps of the sweep.
  `ResultStaysReadable` (in `OcrStore!Inv`) says that this needs an interrupted completion. Unlinking under the ledger's
  lock, after the re-check, repairs it if `complete` renames under it too.
* A cut-off PDF: `put_cached` overwrites a live data file in place. If the write fails, the old
  metadata vouches for what is left and a PDF from an office conversion is served cut off
  until the entry expires. The same holds for every cached result that is bytes. A temporary
  file and a rename, or a comparison with the recorded `size`, repairs it.
* `delete_pages([0, 0])` validates and removes page 0 and then what is page 0 by then, a page nobody
  named (`pdf_service.py:347-359`); `RequestIsExact` is about lists without repetition.
* `RedactionSpec.text_pattern` is described as a "Regex pattern" (`requests.py:72-74`);
  `redact_content` searches for it literally (`pdf_service.py:731`).
* `get_info` lists a bookmark whose page was deleted at page 0 (`pdf_service.py:168-172`), and writing
  it back makes it one; `WriteBackKeepsOutline` is about the bookmarks that have a page.
* The last bookmark of a list, or its only one, may name a page past the end: `add_bookmarks`
  (`pdf_service.py:926-944`) checks no range and PyMuPDF only the rows before the last, so it is accepted and leads to the last
  page. In any other row the same page is an error.
* A page turned by half may be asked to turn back: of a long line only the left `MAX_READ_ASPECT` heights are read
  (`page_orientation.py:103`), and after the turn that is its other end, which may read better upside down.
  It takes lines that read differently at their two ends.
* Refilling a check box with the on-state the field list shows may uncheck it: `_is_checked` knows words for
  yes, not states.
* `redact_content` and `flatten_annotations` pass over pages the document does not have; the operations
  with page lists refuse them. Rotations replace in `split_pdf` and add in `merge_pdfs`, where a source
  without ranges has its `rotations` ignored.
* `deskew` says it removes the page's content and draws the image over it.
* An OCR request that names a page twice reads it twice; a table request reads it once.
* An error recorded between the deadline and the lock of a table request is replaced by
  the timeout and answered 200 with the pages there are (`ocr_queue.py:697-709`).

## Fairness

`OcrQueue!Fairness`: each submission and each worker thread is scheduled (weak fairness of its
whole next step, so an I/O error may be the step taken); a process that is down is started and
its recovery goes on (the container is restarted). Nothing is assumed about shutdown, crashes or
errors. `OcrScheduler!Fairness`: each worker runs, and a caller whose job is settled or whose wait
expired goes on; that a wait expires is not assumed. Both assume that a page read ends: the code has
no timeout for a persistent page, and a hung inference keeps its worker for ever.

`PageRequests`: time passes and the caller's own steps are taken; nothing is assumed of workers, whose
inference may hang. `EveryCallerAnswered` therefore rests on the deadlines alone, which is what they are for.

`OcrStore!Fairness`: writers and the sweeper run, time passes, a process that is down is started. Crashes
and errors are bounded, and nothing is assumed of readers.

## Proofs

Each theorem holds for every value of the constants that meets the named assumptions of its module:
any number of jobs, pages, workers, keys or requests, any limits, errors and restarts. TLC evaluates the
assumptions in every run, and checked each strengthening below as an invariant before it was proved. The
step of an invariant has one case per action, and every invariant that follows is inductive only
together with the ones named beside it.

### The queue (`OcrQueueProofs`)

`TypeCorrect` is about types. `Inductive` (`Spec => []IInv`) ties the ledger, the input files and
the limit together, and gives `InputNeverMissing`, `NoLateCheckpoint` and `LimitHolds`. That an
unfinished row has its input needs that a submission inserts only after it spilled, before which no
row exists (`SubmissionOrder`), and that the worker about to unlink an input has recorded an outcome
(`SettledRows`), which in turn needs that what the queue and the workers hold has a row
(`KnownRows`). The limit counts rows, jobs and reservations, but the code counts the last two:
`CoveredRows` says that while the process runs every unfinished row is in one of them, and that the
rows still to be recovered are the difference while it starts. Only `Reserve` enlarges the counted
set (`LoadGrowsAtReserve`).

`ServiceInvariant` (`Spec => []Service`) adds what the threads hold, in layers that use the ones
before: `Held` (a job is at one place of the queue, a worker that settles a job has it to itself, a
process that is starting has recovered jobs only), `Paged` (a page that was read is checkpointed
before it counts as done), `InUse` (a worker that is done with a document has dropped it),
`Settled` (what a worker is about to write fits the row and the result file), `Explained` (every
failure was caused, and until one is, every page is in line, with a worker or done), `Numbered`
(tickets and row numbers grow). From it follow `WorkIsAccounted`, `RowsAreAccounted`,
`OrderIsKept` and the action property `OutcomeStays`.

`ContractIsKept` is the refinement: `ASSUME "unlink" \notin FaultKinds PROVE Spec => ClientContract`.
Init maps to the contract's Init, and each step of a submission, a worker or the process maps to
a step of `OcrTask` or leaves what clients see alone; two more facts are needed (`Unrecorded`: a failure
is kept in memory only while the ledger does not have it; `PendingUntilQueued`). The hypothesis is the
exception described under Runs: a completed job turns failed when the unlink of its input raises after
the commit, which the contract does not allow, and the code does. Every other error may be raised.

### The scheduler (`OcrSchedulerProofs`)

`Bookkept` is `Inv` and that a job nobody submitted is nowhere; it gives `BookkeepingHolds` and
`WaitingIsCheap`. The difficulty is the scheduling pass: the yield and the admission loop are a recursive
function over the slots. Lemmas say of an operation on the slots that each job stays at one place and that the
order is kept (`RemoveAtPlaces`, `AppendPlaces`, `RemoveSorted`), and an argument by the first turn that
breaks a fixed set of states (`LoopRuns`, `LoopKeeps`) carries them to `Filled`. `OcrOrderIsKept` needs that
tickets grow (`Tickets`); `LanesAreShared` that a page which passes a ready OCR job lengthens the streak
(`StreakFits`); `AbandonedForGood` follows the caller between its deadline and the lock. `NoWakeUpIsLost`
needs the stronger `SleepFits`, without the exception of a worker about to look: whatever makes work wakes
everybody in the same step, and a pass that finds nothing leaves slots in which another one finds nothing.

### Retention (`OcrStoreProofs`)

`TypeCorrect`, and `NothingInUseIsTaken` (`Spec => []Inv`). The sweep acts on copies that are out of date, so
`SweepFits` says what each copy still implies when it is used: a path that was listed, old and
unreferenced at the re-check is not one that a live row needs, because files of rows in hand are `Young` and
`InputFits` and `ResultFits` tie each writer's step to the files it has made. `ReaderFits` does the same for a poll or
a lookup between the row and the file. `UnknownMeansExpired` then holds of the answers.

### The cache and the tasks (`BackgroundTasksProofs`)

`Inductive` is the conjunction of `TypeOK`, `LoopHeld` (the event loop runs one request's code, and its holder runs),
`Followed` (a request whose background task runs has a task that has not ended, and the other way round),
`CallsFit` (an eviction works on what is left of its list), `LookupFits` (what is found of a redacted
document for a request is that request's entry and not cut off) and `DocumentIsWhole`. From it `DocumentsAreWhole`
(`Inv`) and `TasksAreFollowed` (`NoTaskAbandoned`). The order of modification times is shown to remain an order through
stores, purges and evictions.

### Page requests (`PageRequestsProofs`)

`Inductive` says: nothing is read before the pages are queued (`NothingEarly`); until a page fails each is in line, with a
worker or has its result, and a settled job has nothing in flight (`NothingLost`); a page of a table request is in
one place and is with the fallback exactly while it converts (`OnePlace`), so each claim is a page more
(`ClaimsFit`); what a worker carries to the fallback is a result that resolved no more and lost no table
(`WorkersFit`); and each result is one its reader can give (`ResultsFit`, with a lemma per reader). That
a page named twice is queued once rests on `Picked`: the places picked have each rank once (`RanksReach`). From it
`RequestsAreBounded` (`Inv`), `TableReportIsHonest` (`ReportIsHonest`) and the action property `AnswerKeepsPages`
(`DeadlineKeepsPages`).

`OrientationSettles` (`Spec => []CorrectionSettles`) is about any number of lines of any length, read whole or not.
What is recorded of a scan is the verdict on it (`VerdictsFit`). Turning a page keeps its lines, and after the turn the
same ones run across (`LinesAreKept`, `CorrectedIs`, `TurnedShows`): the corrected page is never a quarter
turn off again. After a quarter turn the reader is shown the same ends of them, the same way up (`UprightIs`),
and the verdict is the one that asks for no turn. After a half turn, or three quarters, it is shown their other
ends; the two scores are swapped if each line is alike at both and all lines are read (`HalfTurnSwaps`,
`SwappedVotes`, under `ReadWhole`), and then nothing is asked either (`CorrectedIsSettled`). Where all lines run along the
page and neither end of any is misread, every verdict is the true one, so such a page is upright once it is turned and
stays so, also when its lines are long (`PlainPrintIsTurnedUpright`, `PlainPrintStays`). `OrientationAssumption` is
what this needs of the thresholds: above all that a decision takes at least one line.

`ResponseAccounts` (`Spec => []PrintIsAccounted`) is about any pages, words and margins. Each entry of an answer is the
reading of its page (`ReadingsFit`), and a reading is followed to the document: the crop keeps every pixel that
is not white, as it is the whole page or holds the ends of the print on both axes (`CropHolds`, with `EndsAre` for the
least and the greatest); `map_polygon` undoes the crop and the turn (`PlaceIs`); the ways a word can come out divide
the words, so those returned and those counted add up (`WordsAreCounted`); a page without warnings has every
word and line (`RecognizedIs`), and writing the search layer only takes completeness away (`LayerIsWritten`).

`DocumentAssumption` lists what the table and OCR readers tell apart and that print lies on its page; `PadAssumption`
that the margin is a number. `Requests` and `Documents` are otherwise arbitrary.

### Documents (`PdfDocumentProofs`)

For any stored documents, page lists, rotations and length of the chain, from `StoredAssumption` and
`RequestAssumption`. `Inductive` (`Spec => []IInv`) is `TypeOK`, which is `DocumentsAreSound`, with
`Nested` and `OneField`: PyMuPDF accepts an outline only if it is nested, so that the outline read is accepted
back rests on every operation keeping the levels, and a field's widgets must agree for the list to show what
was filled in. There is one lemma per operation: from a sound document it answers a sound one or refuses.

`RequestsAreExact` is about a loop whose page numbers shift. `DeleteRuns` gives the documents after each turn
(the recursive function exists and is sound at each turn), `GoneIs` what has been taken out after n turns: the
n greatest of the list, all of them greater than the next. So the next page still stands where the client
counted it (`PickRemove`: while the first x places are all there, taking out the x-th leaves the other
places), and by the first turn that breaks this (`UpTo`) what is left is what was not named (`DeleteKeeps`). A
reordering is a surjection of the places on themselves, hence a bijection, so the bags are equal
(`ReorderKeeps`). `BuildsAreExact` puts the two numberings side by side: `MergeKeeps` says which source page
each page of the merge is, `FlattenIs` which page an annotation burns if it is flattened, `BookmarksAre` that
an accepted outline is the one sent but for a last entry past the end, which leads to the last page.
`OutlineIsWrittenBack` and `FilledFieldsAreListed` are action properties from the same invariant; the second
has two cases by `FormIs`: the fields that were filled, or after flattening no field at all.

### Requests and grids

`RequestIntakeProofs`, for any deliveries, clocks, limits, sources and restarts: `NoncesHold`
(`Spec => []Inv`) and `DownloadsHold` (`Spec => []WholeOrNothing`). `AcceptedOnce` is not inductive: that a
second copy finds the first one's row needs that no claim in between has cleared it. `Remembered` says
so: the row of a request that is still fresh is in the ledger, because a claim clears what expired
before the time it was given, which is in the past (`Past`), and the row of a fresh request expires later.
`Passed` is the history a download needs: what a copy was checked for on its way to its stage.

`TableGridProofs`, for any spans, texts and limits: `GridIsExact` (`Spec => []Inv`) and `LayoutIsHtml`
(`Spec => []LaidOutAsHtml`). The map is kept finite (`Bounded`), so a free column exists: the columns
looked at are one more than the occupied slots (`FirstFreeIsFree`, by the pigeonhole principle). That a
cell is at the first free slot of its row is a fact about the cells before it, so `Packed` says it of
each cell when it was opened, and `Cursor` that everything left of the parser in the open row is taken,
also what the cells before it in the row took. That accepted cells lie inside the grid (`GridHoldsCells`)
follows from `Height` and `Width` being the greatest slots (`MaxIsGreatest`). `ReadersAgreeOnTables`
(`Spec => []ReadersAgree`) rests on the same invariant: because cells do not overlap, each has an anchor of
its own and the text there is its own (`AnchorShowsText`), and where every line of the grid is drawn the
lines inside a cell are as many as it spans (`LinesCount`).

### Only model-checked

All liveness (`EveryRequestSettles`, `EverybodyIsServed`, `NothingStays`, `EveryCallerAnswered`): the proof
system has no rule for fairness here. The invariants of `Redaction` rest on a matcher over digit groups that wrap,
slip and join: what its folds and sorts give for every reading is an induction over data, which the installed
provers cannot carry out, and a document assumption that made it short would assume the answer. They are checked
with three slipped digits per identifier. The divergence is a run.

## Not modelled

Numeric inference, layout and geometry inside RapidOCR, RapidTable, Docling and OpenCV stand behind
classes of outcomes. The re-planning of rows of a removed OCR backend and `supervise`, which `_work`
never lets happen, are left out, as are ETA estimates and `_run_sync` called from a worker thread (it then
runs inline). Text and image extraction, thumbnails, metadata, compression, PDF/A and repair are one call
into a library each, `input_provenance.py` digests bytes, and the release and evaluation scripts are not part
of the service: none has a state or a choice of its own. The untimed `FITZ_LOCK` under which a reader plans its pages is
taken to be free, a reply without a declared length that is closed early is not among the sources of `intake` (it would
count as whole), and that a restart forgets the tasks in memory is a step of `BackgroundTasks` (`Crash`), not a failure
of `NoTaskAbandoned`. The routes' checks of single fields (sizes, enumerations,
base64) are left out where no property depends on them.

## Plan

Every safety property a run checks is proved except those of `Redaction`. What is left:

1. `Redaction`: the type invariant and `OrdinaryNumbersStay`, as far as they do not rest on the matcher; then
   `SecondReadingCounts`, for which `Total`, `GroupsOf` and the reading order of the places of an identifier
   want lemmas of their own.
2. `OcrScheduler`: the synchronous callers served in a worker thread, and the table snapshot of `_run_sync`
   (`PageRequests` has it) beside the slots.
