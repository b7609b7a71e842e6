------------------------------ MODULE OcrQueue ------------------------------
(***************************************************************************)
(* The durable life cycle of a persistent OCR job (app/services/           *)
(* ocr_queue.py): submitters spill an input, insert a ledger row and       *)
(* enqueue; worker threads read pages, checkpoint each one and finish the  *)
(* job; any of their I/O steps may raise; the queue may be shut down, the  *)
(* process may die between any two steps, and a restart recovers the       *)
(* unfinished rows.                                                        *)
(*                                                                         *)
(* One action is one critical section of _cond, one ledger statement or    *)
(* one file operation: the points where another thread or a crash can get  *)
(* in between.  Only persistent jobs are here; the synchronous lane, the   *)
(* choice of the page and the sleeping workers are in OcrScheduler.  With  *)
(* no synchronous job the admission loop is first in, first out.           *)
(*                                                                         *)
(* A definition whose name starts with Bad is a plausible mistake in the   *)
(* one that follows it: no action uses it, and the property named in its   *)
(* comment fails when it takes the other one's place.                      *)
(***************************************************************************)
EXTENDS Integers, FiniteSets

CONSTANTS
  Job,         \* one per /text/ocr request
  Page,        \* positions in a request's list of pages
  Worker,      \* the OCR_WORKERS threads
  Targets,     \* the pages each request asks for, in [Job -> SUBSET Page]
  Invalid,     \* the requests whose pages or parameters cannot be planned
  MaxJobs,     \* OCR_QUEUE_MAX_JOBS
  MaxActive,   \* OCR_MAX_ACTIVE_JOBS
  FaultKinds,  \* the I/O steps that may raise
  MaxFaults,   \* bound: distinct (job, kind) pairs of I/O errors
  MaxRestarts, \* bound: how often the process is shut down or dies
  NoJob, NoPage

ASSUME JobAssumption == IsFiniteSet(Job) /\ NoJob \notin Job
ASSUME PageAssumption == Page \subseteq Nat /\ IsFiniteSet(Page) /\ NoPage \notin Page
ASSUME RequestAssumption ==
  /\ Targets \in [Job -> SUBSET Page]
  /\ Invalid \subseteq Job
ASSUME LimitAssumption ==
  /\ MaxJobs \in Nat \ {0}
  /\ MaxActive \in Nat \ {0}
ASSUME BoundAssumption ==
  /\ IsFiniteSet(FaultKinds)
  /\ MaxFaults \in Nat
  /\ MaxRestarts \in Nat

VARIABLES
  \* the ledger, jobs.sqlite3
  row,         \* status column, "none" when the job has no row
  seqno,       \* seq column
  nextSeq,     \* the next AUTOINCREMENT value
  units,       \* the checkpointed pages, table ocr_job_units
  \* the spill directories
  inputs,      \* jobs with a file in inputs/
  results,     \* jobs with a file in results/
  \* the process
  proc,        \* "down", "starting", "up" or "stopped" (_stopped)
  toRecover,   \* rows start() has yet to visit
  sub,         \* where each submit_ocr call is
  wk,          \* where each worker thread is
  \* OcrQueue's fields, under _cond
  reserved,    \* the submissions counted in _reserved
  jobs,        \* _jobs
  waiting,     \* _pending
  active,      \* _active
  ticket,      \* job.seq
  nextTicket,  \* _seq
  \* _Job's fields
  todo,        \* job.units
  done,        \* the keys of job.done
  started,     \* jobs with job.started
  erred,       \* jobs with job.error
  terminal,    \* jobs with job.terminal
  data,        \* jobs whose decrypted input is in memory
  \* history, read by properties and bounds only
  faulted,     \* the (job, kind) pairs of I/O errors so far
  restarts     \* shutdowns and crashes so far

ledger == <<row, seqno, nextSeq, units>>
files == <<inputs, results>>
process == <<proc, toRecover>>
queue == <<jobs, waiting, active, ticket, nextTicket>>
pages == <<todo, done, started, erred, terminal, data>>
history == <<faulted, restarts>>
vars == <<ledger, files, process, sub, wk, reserved, queue, pages, history>>

Unfinished == {"pending", "processing"}
Outcome == {"completed", "failed"}
UnfinishedRows == {j \in Job : row[j] \in Unfinished}

PageStep == {"mark", "read", "save", "good", "bad"}
FinishStep == {"finish", "write", "commit", "clean", "undo",
               "fail", "failrow", "failclean", "pop"}
Idle == [pc |-> "idle", job |-> NoJob, page |-> NoPage]

\* The threads of a process run until it exits, also after shutdown().
Running == proc \in {"up", "stopped"}

At(w, step) == Running /\ wk[w].pc = step
Goto(w, step) == wk' = [wk EXCEPT ![w].pc = step]
\* Breaks TypeOK: the worker goes idle and keeps its job.
BadRest(w) == wk' = [wk EXCEPT ![w].pc = "idle"]

Rest(w) == wk' = [wk EXCEPT ![w] = Idle]

\* job.inflight: the workers between taking a page of j and giving it back.
Inflight(j) == {w \in Worker : wk[w].job = j /\ wk[w].pc \in PageStep}

\* The I/O steps of these kinds raise for job j.
Faults(j, kinds) ==
  /\ kinds \subseteq FaultKinds
  /\ Cardinality(faulted \cup {j} \X kinds) <= MaxFaults
  /\ faulted' = faulted \cup {j} \X kinds
  /\ UNCHANGED restarts

Fault(j, kind) == Faults(j, {kind})

-----------------------------------------------------------------------------
(* What a process starts with, and what it loses when it dies. *)

Init ==
  /\ row = [j \in Job |-> "none"]
  /\ seqno = [j \in Job |-> 0]
  /\ nextSeq = 1
  /\ units = [j \in Job |-> {}]
  /\ inputs = {} /\ results = {}
  /\ proc = "down" /\ toRecover = {}
  /\ sub = [j \in Job |-> "new"]
  /\ wk = [w \in Worker |-> Idle]
  /\ reserved = {}
  /\ jobs = {} /\ waiting = {} /\ active = {}
  /\ ticket = [j \in Job |-> 0]
  /\ nextTicket = 1
  /\ todo = [j \in Job |-> {}]
  /\ done = [j \in Job |-> {}]
  /\ started = {} /\ erred = {} /\ terminal = {} /\ data = {}
  /\ faulted = {} /\ restarts = 0

\* A submit_ocr call that had not answered is lost with its process.
Hangup ==
  sub' = [j \in Job |-> IF sub[j] \in {"new", "accepted", "errored", "refused"}
                        THEN sub[j] ELSE "lost"]

LoseMemory ==
  /\ toRecover' = {}
  /\ Hangup
  /\ wk' = [w \in Worker |-> Idle]
  /\ reserved' = {}
  /\ jobs' = {} /\ waiting' = {} /\ active' = {}
  /\ ticket' = [j \in Job |-> 0]
  /\ nextTicket' = 1
  /\ todo' = [j \in Job |-> {}]
  /\ done' = [j \in Job |-> {}]
  /\ started' = {} /\ erred' = {} /\ terminal' = {} /\ data' = {}

\* _enqueue, the caller holds _cond.
EnqueueLocked(j, recorded) ==
  /\ jobs' = jobs \cup {j}
  /\ waiting' = waiting \cup {j}
  /\ ticket' = [ticket EXCEPT ![j] = nextTicket]
  /\ nextTicket' = nextTicket + 1
  /\ todo' = [todo EXCEPT ![j] = Targets[j] \ recorded]
  /\ done' = [done EXCEPT ![j] = recorded]
  /\ UNCHANGED <<active, started, erred, terminal, data>>

-----------------------------------------------------------------------------
(* submit_ocr: the limit check, then outside the lock the spill and the row, *)
(* then the queue, then the reservation is given back.                       *)

SubmitUnchanged == UNCHANGED <<process, wk, results>>

\* Breaks UnfinishedBounded: submissions on their way to the queue do not count.
BadFull == Cardinality(jobs) >= MaxJobs

Full == Cardinality(jobs) + Cardinality(reserved) >= MaxJobs

Reserve(j) ==
  /\ Running /\ sub[j] = "new"
  /\ ~Full
  /\ reserved' = reserved \cup {j}
  /\ sub' = [sub EXCEPT ![j] = "reserved"]
  /\ SubmitUnchanged
  /\ UNCHANGED <<ledger, inputs, queue, pages, history>>

\* QueueFullError: HTTP 429.
Refuse(j) ==
  /\ Running /\ sub[j] = "new"
  /\ Full
  /\ sub' = [sub EXCEPT ![j] = "refused"]
  /\ SubmitUnchanged
  /\ UNCHANGED <<ledger, inputs, reserved, queue, pages, history>>

InsertLocked(j, status) ==
  /\ row' = [row EXCEPT ![j] = status]
  /\ seqno' = [seqno EXCEPT ![j] = nextSeq]
  /\ nextSeq' = nextSeq + 1
  /\ UNCHANGED units

\* The request itself is invalid: its task exists and is failed.
InsertFailed(j) ==
  /\ Running /\ sub[j] = "reserved" /\ j \in Invalid
  /\ \/ InsertLocked(j, "failed")
        /\ sub' = [sub EXCEPT ![j] = "leaving"]
        /\ UNCHANGED history
     \/ Fault(j, "insert")
        /\ sub' = [sub EXCEPT ![j] = "failing"]
        /\ UNCHANGED ledger
  /\ SubmitUnchanged
  /\ UNCHANGED <<inputs, reserved, queue, pages>>

SpillInput(j) ==
  /\ Running /\ sub[j] = "reserved" /\ j \notin Invalid
  /\ \/ inputs' = inputs \cup {j}
        /\ sub' = [sub EXCEPT ![j] = "spilled"]
        /\ UNCHANGED history
     \/ Fault(j, "spill")
        /\ sub' = [sub EXCEPT ![j] = "failing"]
        /\ UNCHANGED inputs
  /\ SubmitUnchanged
  /\ UNCHANGED <<ledger, reserved, queue, pages>>

InsertRow(j) ==
  /\ Running /\ sub[j] = "spilled"
  /\ \/ InsertLocked(j, "pending")
        /\ sub' = [sub EXCEPT ![j] = "inserted"]
        /\ UNCHANGED <<inputs, history>>
     \/ Fault(j, "insert")
        /\ inputs' = inputs \ {j}
        /\ sub' = [sub EXCEPT ![j] = "failing"]
        /\ UNCHANGED ledger
  /\ SubmitUnchanged
  /\ UNCHANGED <<reserved, queue, pages>>

Enqueue(j) ==
  /\ Running /\ sub[j] = "inserted"
  /\ EnqueueLocked(j, {})
  /\ sub' = [sub EXCEPT ![j] = "leaving"]
  /\ SubmitUnchanged
  /\ UNCHANGED <<ledger, inputs, reserved, history>>

\* Breaks EveryRequestSettles: the reservation is given back on success only.
BadRelease(j) ==
  /\ Running /\ sub[j] = "leaving"
  /\ reserved' = reserved \ {j}
  /\ sub' = [sub EXCEPT ![j] = "accepted"]
  /\ SubmitUnchanged
  /\ UNCHANGED <<ledger, inputs, queue, pages, history>>

\* The finally clause of submit_ocr, a critical section of its own.
Release(j) ==
  /\ Running /\ sub[j] \in {"leaving", "failing"}
  /\ reserved' = reserved \ {j}
  /\ sub' = [sub EXCEPT ![j] = IF @ = "leaving" THEN "accepted" ELSE "errored"]
  /\ SubmitUnchanged
  /\ UNCHANGED <<ledger, inputs, queue, pages, history>>

Submit(j) ==
  \/ Reserve(j) \/ Refuse(j)
  \/ InsertFailed(j) \/ SpillInput(j) \/ InsertRow(j)
  \/ Enqueue(j) \/ Release(j)

-----------------------------------------------------------------------------
(* _next_unit_locked with persistent jobs only: first a job that has nothing *)
(* left to run, else fill the free slots in order and take a page.           *)

WorkerUnchanged == UNCHANGED <<seqno, nextSeq, process, sub, reserved>>

Finishable(j) == todo[j] = {} /\ Inflight(j) = {}

Room == MaxActive - Cardinality(active)

\* Breaks KeepsOrder: last in, first out.
BadAdmitted ==
  {j \in waiting : Cardinality({i \in waiting : ticket[i] > ticket[j]}) < Room}

\* The first jobs of _pending, as many as there are free slots.
Admitted ==
  {j \in waiting : Cardinality({i \in waiting : ticket[i] < ticket[j]}) < Room}

PickFinish(w) ==
  /\ proc = "up" /\ wk[w].pc = "idle"
  /\ \E j \in jobs :
       /\ Finishable(j)
       /\ \/ /\ j \in active
             /\ active' = active \ {j}
             /\ UNCHANGED waiting
          \/ /\ \A i \in active : ~Finishable(i)
             /\ j \in Admitted
             /\ active' = (active \cup Admitted) \ {j}
             /\ waiting' = waiting \ Admitted
       /\ wk' = [wk EXCEPT ![w] = [pc |-> "finish", job |-> j, page |-> NoPage]]
  /\ WorkerUnchanged
  /\ UNCHANGED <<row, units, files, jobs, ticket, nextTicket, pages, history>>

\* Breaks WorkAccounted: the page is not taken off job.units.
BadPickUnit(w) ==
  /\ proc = "up" /\ wk[w].pc = "idle"
  /\ \A i \in active : ~Finishable(i)
  /\ \E j \in active \cup Admitted :
       /\ j \notin erred
       /\ \E p \in todo[j] :
            wk' = [wk EXCEPT ![w] =
              [pc |-> IF j \in started THEN "read" ELSE "mark", job |-> j, page |-> p]]
       /\ started' = started \cup {j}
  /\ active' = active \cup Admitted
  /\ waiting' = waiting \ Admitted
  /\ WorkerUnchanged
  /\ UNCHANGED <<row, units, files, jobs, ticket, nextTicket, todo, done, erred, terminal,
                 data, history>>

\* Which ready job comes next is the round robin of OcrScheduler.
PickUnit(w) ==
  /\ proc = "up" /\ wk[w].pc = "idle"
  /\ \A i \in active : ~Finishable(i)
  /\ \E j \in active \cup Admitted :
       /\ j \notin erred
       /\ \E p \in todo[j] :
            /\ \A q \in todo[j] : p <= q
            /\ todo' = [todo EXCEPT ![j] = @ \ {p}]
            /\ wk' = [wk EXCEPT ![w] =
                 [pc |-> IF j \in started THEN "read" ELSE "mark", job |-> j, page |-> p]]
       /\ started' = started \cup {j}
  /\ active' = active \cup Admitted
  /\ waiting' = waiting \ Admitted
  /\ WorkerUnchanged
  /\ UNCHANGED <<row, units, files, jobs, ticket, nextTicket, done, erred, terminal, data,
                 history>>

-----------------------------------------------------------------------------
(* _run_and_record *)

PageUnchanged ==
  /\ WorkerUnchanged
  /\ UNCHANGED <<files, queue, started, terminal>>

MarkProcessing(w) ==
  LET j == wk[w].job IN
  /\ At(w, "mark")
  /\ \/ row' = [row EXCEPT ![j] = IF @ \in Unfinished THEN "processing" ELSE @]
        /\ Goto(w, "read")
        /\ UNCHANGED history
     \/ Fault(j, "mark") /\ Goto(w, "bad") /\ UNCHANGED row
  /\ PageUnchanged
  /\ UNCHANGED <<units, todo, done, erred, data>>

\* _job_bytes and the reader, then the test of _stopped before save_unit.
ReadPage(w) ==
  LET j == wk[w].job IN
  /\ At(w, "read")
  /\ \/ /\ j \in data \cup inputs
        /\ data' = data \cup {j}
        /\ Goto(w, IF proc = "stopped" THEN "good" ELSE "save")
        /\ UNCHANGED history
     \/ /\ j \notin data \cup inputs
        /\ Goto(w, "bad")
        /\ UNCHANGED <<data, history>>
     \/ /\ Fault(j, "read")
        /\ data' \in {data, data \cup {j}}
        /\ Goto(w, "bad")
  /\ PageUnchanged
  /\ UNCHANGED <<row, units, todo, done, erred>>

SaveUnit(w) ==
  LET j == wk[w].job IN
  /\ At(w, "save")
  /\ \/ units' = [units EXCEPT ![j] =
                    IF row[j] \in Unfinished THEN @ \cup {wk[w].page} ELSE @]
        /\ Goto(w, "good")
        /\ UNCHANGED history
     \/ Fault(j, "save") /\ Goto(w, "bad") /\ UNCHANGED units
  /\ PageUnchanged
  /\ UNCHANGED <<row, todo, done, erred, data>>

\* The closing critical section; after shutdown it leaves the job alone.
RecordPage(w) ==
  LET j == wk[w].job IN
  /\ At(w, "good")
  /\ done' = IF proc = "stopped" THEN done ELSE [done EXCEPT ![j] = @ \cup {wk[w].page}]
  /\ Rest(w)
  /\ PageUnchanged
  /\ UNCHANGED <<row, units, todo, erred, data, history>>

RecordError(w) ==
  LET j == wk[w].job IN
  /\ At(w, "bad")
  /\ IF proc = "stopped"
       THEN UNCHANGED <<erred, todo>>
       ELSE erred' = erred \cup {j} /\ todo' = [todo EXCEPT ![j] = {}]
  /\ Rest(w)
  /\ PageUnchanged
  /\ UNCHANGED <<row, units, done, data, history>>

-----------------------------------------------------------------------------
(* _finish and _Store.complete *)

FinishUnchanged ==
  /\ WorkerUnchanged
  /\ UNCHANGED <<todo, done, started, erred>>

\* A page that was never read has no result to assemble: KeyError.
CanAssemble(j) ==
  /\ j \notin erred
  /\ Targets[j] \subseteq done[j]
  /\ j \in data \cup inputs

Assemble(w) ==
  LET j == wk[w].job IN
  /\ At(w, "finish")
  /\ \/ /\ CanAssemble(j)
        /\ IF proc = "stopped"
             THEN Rest(w) /\ data' = data \ {j}
             ELSE Goto(w, "write") /\ data' = data \cup {j}
        /\ UNCHANGED history
     \/ /\ ~CanAssemble(j)
        /\ Goto(w, "fail")
        /\ UNCHANGED <<data, history>>
     \/ /\ Fault(j, "assemble")
        /\ Goto(w, "fail")
        /\ UNCHANGED data
  /\ FinishUnchanged
  /\ UNCHANGED <<row, units, files, queue, terminal>>

\* Breaks InputPresentWhileUnfinished: the input goes before the outcome is committed.
BadWriteResult(w) ==
  LET j == wk[w].job IN
  /\ At(w, "write")
  /\ results' = results \cup {j} /\ inputs' = inputs \ {j} /\ Goto(w, "commit")
  /\ FinishUnchanged
  /\ UNCHANGED <<row, units, queue, terminal, data, history>>

WriteResult(w) ==
  LET j == wk[w].job IN
  /\ At(w, "write")
  /\ \/ results' = results \cup {j} /\ Goto(w, "commit") /\ UNCHANGED history
     \/ Fault(j, "result") /\ Goto(w, "fail") /\ UNCHANGED results
  /\ FinishUnchanged
  /\ UNCHANGED <<row, units, inputs, queue, terminal, data>>

\* Breaks CheckpointsOnlyWhileUnfinished: the page rows outlive the job.
BadOutcomeLocked(j, status) ==
  /\ row' = [row EXCEPT ![j] = status]
  /\ UNCHANGED units

\* _Store._finish: status, input_path and checkpoints in one transaction.
OutcomeLocked(j, status) ==
  /\ row' = [row EXCEPT ![j] = status]
  /\ units' = [units EXCEPT ![j] = {}]

Commit(w) ==
  LET j == wk[w].job IN
  /\ At(w, "commit")
  /\ \/ OutcomeLocked(j, "completed") /\ Goto(w, "clean") /\ UNCHANGED history
     \/ Fault(j, "commit") /\ Goto(w, "undo") /\ UNCHANGED <<row, units>>
  /\ FinishUnchanged
  /\ UNCHANGED <<files, queue, terminal, data>>

UnlinkInput(w) ==
  LET j == wk[w].job IN
  /\ At(w, "clean")
  /\ \/ inputs' = inputs \ {j} /\ data' = data \ {j} /\ Goto(w, "pop") /\ UNCHANGED history
     \/ Fault(j, "unlink") /\ Goto(w, "undo") /\ UNCHANGED <<inputs, data>>
  /\ FinishUnchanged
  /\ UNCHANGED <<row, units, results, queue, terminal>>

\* complete() removes the result when anything after writing it raised.
UndoResult(w) ==
  LET j == wk[w].job IN
  /\ At(w, "undo")
  /\ \/ results' = results \ {j} /\ UNCHANGED history
     \/ Fault(j, "unlink") /\ UNCHANGED results
  /\ Goto(w, "fail")
  /\ FinishUnchanged
  /\ UNCHANGED <<row, units, inputs, queue, terminal, data>>

PopJob(w) ==
  /\ At(w, "pop")
  /\ jobs' = jobs \ {wk[w].job}
  /\ Rest(w)
  /\ FinishUnchanged
  /\ UNCHANGED <<row, units, files, waiting, active, ticket, nextTicket, terminal, data,
                 history>>

-----------------------------------------------------------------------------
(* _fail_job and _Store.fail *)

FailLocked(w) ==
  LET j == wk[w].job IN
  /\ At(w, "fail")
  /\ data' = data \ {j}
  /\ active' = active \ {j}
  /\ todo' = [todo EXCEPT ![j] = {}]
  /\ IF proc = "stopped" THEN Rest(w) ELSE Goto(w, "failrow")
  /\ WorkerUnchanged
  /\ UNCHANGED <<row, units, files, jobs, waiting, ticket, nextTicket, done, started, erred,
                 terminal, history>>

\* Breaks EveryRowAccounted: the outcome is dropped.
BadKeepTerminal(w) == Rest(w) /\ UNCHANGED terminal

\* The outcome could not be recorded: keep it in memory.
KeepTerminal(w) ==
  /\ terminal' = terminal \cup {wk[w].job}
  /\ Rest(w)

\* A committed row has no input_path left to unlink.
FailRow(w) ==
  LET j == wk[w].job IN
  /\ At(w, "failrow")
  /\ \/ /\ OutcomeLocked(j, "failed")
        /\ Goto(w, IF row[j] = "completed" THEN "pop" ELSE "failclean")
        /\ UNCHANGED <<terminal, history>>
     \/ Fault(j, "failrow") /\ KeepTerminal(w) /\ UNCHANGED <<row, units>>
  /\ FinishUnchanged
  /\ UNCHANGED <<files, queue, data>>

FailUnlink(w) ==
  LET j == wk[w].job IN
  /\ At(w, "failclean")
  /\ \/ inputs' = inputs \ {j} /\ Goto(w, "pop") /\ UNCHANGED <<terminal, history>>
     \/ Fault(j, "unlink") /\ KeepTerminal(w) /\ UNCHANGED inputs
  /\ FinishUnchanged
  /\ UNCHANGED <<row, units, results, queue, data>>

Work(w) ==
  \/ PickFinish(w) \/ PickUnit(w)
  \/ MarkProcessing(w) \/ ReadPage(w) \/ SaveUnit(w) \/ RecordPage(w) \/ RecordError(w)
  \/ Assemble(w) \/ WriteResult(w) \/ Commit(w) \/ UnlinkInput(w) \/ UndoResult(w)
  \/ PopJob(w)
  \/ FailLocked(w) \/ FailRow(w) \/ FailUnlink(w)

-----------------------------------------------------------------------------
(* start(), shutdown() and the death of the process *)

\* Breaks ClientContract: the sweep does not ask the ledger about results.
BadStart ==
  /\ proc = "down"
  /\ proc' = "starting"
  /\ toRecover' = UnfinishedRows
  /\ \E old \in SUBSET (inputs \ UnfinishedRows) : inputs' = inputs \ old
  /\ \E old \in SUBSET results : results' = results \ old
  /\ units' = [j \in Job |-> IF row[j] \in Unfinished THEN units[j] ELSE {}]
  /\ UNCHANGED <<row, seqno, nextSeq, sub, wk, reserved, queue, pages, history>>

\* Breaks OutcomeIsFinal: start() visits the finished rows too.
BadStartAll ==
  /\ proc = "down"
  /\ proc' = "starting"
  /\ toRecover' = {j \in Job : row[j] # "none"}
  /\ UNCHANGED <<ledger, files, sub, wk, reserved, queue, pages, history>>

\* The sweep may remove any file without a row that refers to it (those older
\* than ten minutes), and removes the checkpoints of finished jobs.
Start ==
  /\ proc = "down"
  /\ proc' = "starting"
  /\ toRecover' = UnfinishedRows
  /\ \E old \in SUBSET (inputs \ UnfinishedRows) : inputs' = inputs \ old
  /\ \E old \in SUBSET {j \in results : row[j] # "completed"} : results' = results \ old
  /\ units' = [j \in Job |-> IF row[j] \in Unfinished THEN units[j] ELSE {}]
  /\ UNCHANGED <<row, seqno, nextSeq, sub, wk, reserved, queue, pages, history>>

NextRow(j) == j \in toRecover /\ \A i \in toRecover : seqno[j] <= seqno[i]

RecoverRow(j) ==
  /\ proc = "starting" /\ NextRow(j)
  /\ j \in inputs
  /\ EnqueueLocked(j, units[j])
  /\ toRecover' = toRecover \ {j}
  /\ UNCHANGED <<ledger, files, proc, sub, wk, reserved, history>>

\* The input is missing or a checkpoint cannot be opened: store.fail.
RecoverFailed(j) ==
  /\ proc = "starting" /\ NextRow(j)
  /\ IF j \in inputs THEN Fault(j, "units") ELSE UNCHANGED history
  /\ OutcomeLocked(j, "failed")
  /\ inputs' = inputs \ {j}
  /\ toRecover' = toRecover \ {j}
  /\ UNCHANGED <<seqno, nextSeq, results, proc, sub, wk, reserved, queue, pages>>

\* store.fail raises, before or after its transaction: start() is given up.
RecoverAborted(j) ==
  /\ proc = "starting" /\ NextRow(j)
  /\ LET unreadable == IF j \in inputs THEN {"units"} ELSE {} IN
     \/ Faults(j, unreadable \cup {"failrow"}) /\ UNCHANGED <<row, units>>
     \/ Faults(j, unreadable \cup {"unlink"}) /\ OutcomeLocked(j, "failed")
  /\ proc' = "down"
  /\ LoseMemory
  /\ UNCHANGED <<seqno, nextSeq, files>>

StartDone ==
  /\ proc = "starting" /\ toRecover = {}
  /\ proc' = "up"
  /\ UNCHANGED <<ledger, files, toRecover, sub, wk, reserved, queue, pages, history>>

Shutdown ==
  /\ proc = "up" /\ restarts < MaxRestarts
  /\ proc' = "stopped"
  /\ restarts' = restarts + 1
  /\ UNCHANGED <<ledger, files, toRecover, sub, wk, reserved, queue, pages, faulted>>

Exit ==
  /\ proc = "stopped"
  /\ proc' = "down"
  /\ LoseMemory
  /\ UNCHANGED <<ledger, files, history>>

Crash ==
  /\ proc \in {"starting", "up"} /\ restarts < MaxRestarts
  /\ proc' = "down"
  /\ restarts' = restarts + 1
  /\ LoseMemory
  /\ UNCHANGED <<ledger, files, faulted>>

Life ==
  \/ Start \/ StartDone
  \/ \E j \in Job : RecoverRow(j) \/ RecoverFailed(j) \/ RecoverAborted(j)
  \/ Shutdown \/ Exit \/ Crash

Next ==
  \/ \E j \in Job : Submit(j)
  \/ \E w \in Worker : Work(w)
  \/ Life

Spec == Init /\ [][Next]_vars

\* The scheduler of the machine runs every thread, a read comes back with a result
\* or an error, and a process that is down is started again (the container is
\* restarted).  Nothing obliges the process to be stopped or to die.
Fairness ==
  /\ \A j \in Job : WF_vars(Submit(j))
  /\ \A w \in Worker : WF_vars(Work(w))
  /\ WF_vars(Start) /\ WF_vars(StartDone) /\ WF_vars(Exit)
  /\ \A j \in Job : WF_vars(RecoverRow(j) \/ RecoverFailed(j) \/ RecoverAborted(j))

FairSpec == Spec /\ Fairness

-----------------------------------------------------------------------------
(* status(): what a poll of a task answers, from _jobs, else from the ledger. *)

StatusOfRow(j) ==
  CASE row[j] = "none" -> "unknown"
    [] row[j] = "completed" -> IF j \in results THEN "completed" ELSE "unknown"
    [] OTHER -> row[j]

Status(j) ==
  IF Running /\ j \in jobs
    THEN IF j \in terminal THEN "failed"
         ELSE IF j \in started THEN "processing" ELSE "pending"
    ELSE StatusOfRow(j)

Promise == INSTANCE OcrTask WITH
  task <- [j \in Job |-> Status(j)],
  recorded <- {j \in Job : row[j] \in Outcome}

-----------------------------------------------------------------------------
(* Properties *)

SubStep == {"new", "reserved", "spilled", "inserted", "leaving", "failing",
            "accepted", "errored", "refused", "lost"}

WorkerState ==
  [pc : PageStep, job : Job, page : Page]
    \cup [pc : FinishStep, job : Job, page : Page \cup {NoPage}]
    \cup {Idle}

\* The type invariant.
TypeOK ==
  /\ row \in [Job -> Unfinished \cup Outcome \cup {"none"}]
  /\ seqno \in [Job -> Nat] /\ nextSeq \in Nat
  /\ units \in [Job -> SUBSET Page]
  /\ inputs \subseteq Job /\ results \subseteq Job
  /\ proc \in {"down", "starting", "up", "stopped"} /\ toRecover \subseteq Job
  /\ sub \in [Job -> SubStep]
  /\ wk \in [Worker -> WorkerState]
  /\ reserved \subseteq Job
  /\ jobs \subseteq Job /\ waiting \subseteq Job /\ active \subseteq Job
  /\ ticket \in [Job -> Nat] /\ nextTicket \in Nat
  /\ todo \in [Job -> SUBSET Page] /\ done \in [Job -> SUBSET Page]
  /\ started \subseteq Job /\ erred \subseteq Job
  /\ terminal \subseteq Job /\ data \subseteq Job
  /\ faulted \subseteq Job \X FaultKinds /\ restarts \in Nat

HasFault(j, kinds) == \E k \in kinds : <<j, k>> \in faulted

\* An unfinished ledger row always has its input file, at every instant a crash
\* could come: submit_ocr spills before it inserts, and the outcome is committed
\* before the input is unlinked (ocr_queue.py:644-651, 342-356).
InputPresentWhileUnfinished == UnfinishedRows \subseteq inputs

\* The queue never holds more than OCR_QUEUE_MAX_JOBS unfinished jobs, counting
\* the submissions between the limit check and the queue, across restarts and
\* jobs whose failure could not be recorded (ocr_queue.py:597-605).
UnfinishedBounded == Cardinality(UnfinishedRows \cup jobs \cup reserved) <= MaxJobs

\* A checkpoint belongs to an unfinished job: a late writer cannot leave page
\* text behind after the outcome (the comment at ocr_queue.py:318).
CheckpointsOnlyWhileUnfinished == \A j \in Job : units[j] # {} => row[j] \in Unfinished

\* What a worker of this process has counted as done survives a crash while the
\* job is unfinished, and a page that is checkpointed is neither queued nor being
\* read again, also after a restart (ocr_queue.py:913-916, 515).
DoneIsCheckpointed ==
  \A j \in jobs : row[j] \in Unfinished =>
    /\ done[j] \subseteq units[j]
    /\ todo[j] \cap units[j] = {}
    /\ \A w \in Inflight(j) : wk[w].pc \in {"mark", "read"} => wk[w].page \notin units[j]

\* A page is at one place: queued, with one worker, or done; and a worker that
\* finishes a job has it to itself, no page of it is in flight
\* (ocr_queue.py:807-811, 923-931).
PageAtOnePlace ==
  \A j \in jobs :
    /\ todo[j] \cap done[j] = {}
    /\ \A w \in Inflight(j) :
         /\ wk[w].page \notin todo[j] \cup done[j]
         /\ \A v \in Worker \ {w} : wk[v].job = j =>
              /\ wk[v].pc \in PageStep
              /\ wk[v].page # wk[w].page

\* While the queue is up, an unfinished row whose submission has reached the queue
\* is being worked on: it waits, it is active, or a worker is about to settle it,
\* unless its failure could not be recorded.  No row is stranded until the next
\* restart (ocr_queue.py:652, 919-932, 1005-1024).
NoRowStranded ==
  proc = "up" => \A j \in UnfinishedRows :
    \/ j \in waiting \cup active \cup terminal
    \/ \E w \in Worker : wk[w].job = j /\ wk[w].pc \in FinishStep
    \/ sub[j] = "inserted"

\* A job ends failed only for a reason: its request was invalid or one of its I/O
\* steps raised.  No interleaving, shutdown, crash or recovery fails a job, and no
\* job is assembled with a page missing (ocr_queue.py:978-994, 504-518).
NoSpuriousFailure ==
  \A j \in Job :
    \/ row[j] = "failed"
    \/ j \in terminal
    \/ \E w \in Worker : wk[w].job = j /\ wk[w].pc \in {"bad", "fail", "failrow", "failclean"}
    => j \in Invalid \/ HasFault(j, FaultKinds)

\* A completed row has its result file: it is written before the transaction and
\* removed only if the transaction, or the unlink of the input after it, raised
\* (ocr_queue.py:333-340).
CompletedHasResult ==
  \A j \in Job : row[j] = "completed" /\ ~HasFault(j, {"unlink"}) => j \in results

\* A row's status tells the truth: unfinished means that somebody will settle it, failed
\* that there was a reason, completed that the result is there (ocr_queue.py:497-530,
\* 978-1027).
EveryRowAccounted == NoRowStranded /\ NoSpuriousFailure /\ CompletedHasResult

\* The decrypted client document is in memory only while a worker may use it: its
\* job is active or a worker is about to settle it (ocr_queue.py:433, 995, 1009).
DecryptedOnlyInUse ==
  proc = "up" => \A j \in data :
    \/ j \in active
    \/ \E w \in Worker : wk[w].job = j /\ wk[w].pc \in FinishStep \ {"pop"}

\* Every page's work is accounted for, in the queue, at the workers, in the ledger and
\* in memory: it is at one place, done means checkpointed, and the document it is read
\* from is decrypted no longer than that (ocr_queue.py:803-932).
WorkAccounted == DoneIsCheckpointed /\ PageAtOnePlace /\ DecryptedOnlyInUse

\* start() enqueues the recovered jobs in their ledger order, before the queue
\* takes a submission (ocr_queue.py:361-365, 500-530).
RecoveredInLedgerOrder ==
  proc = "starting" =>
    /\ \A i, j \in jobs : seqno[i] < seqno[j] => ticket[i] < ticket[j]
    /\ jobs \cap toRecover = {}
    /\ \A i \in jobs, j \in toRecover : seqno[i] < seqno[j]

\* The first jobs in line are the active ones: no job overtakes an earlier one
\* ("admitted FIFO", ocr_queue.py:32-33 and 831-845).
AdmittedInOrder == \A i \in active, j \in waiting : ticket[i] < ticket[j]

\* Documents are served in the order of their submission, across restarts
\* (ocr_queue.py:361-375, 831-845).
KeepsOrder == RecoveredInLedgerOrder /\ AdmittedInOrder

\* A recorded outcome is final: what a client saw as completed or failed stays so
\* for ever, except for a result taken back because the unlink of its input raised
\* (ocr_queue.py:335-340).
OutcomeIsFinal ==
  [][\A j \in Job : row[j] \in Outcome =>
       \/ row'[j] = row[j]
       \/ row[j] = "completed" /\ row'[j] = "failed" /\ HasFault(j, {"unlink"})]_vars

\* The polls a client makes see what OcrTask promises, across restarts: no task is
\* forgotten, no outcome changes, none is shown before it is recorded except a
\* failure the ledger could not take (ocr_queue.py:737-784).
ClientContract == Promise!Contract

\* An accepted job is settled: completed, failed, or failed in memory when the ledger
\* could not record it, however often the process restarts on the way.
AcceptedJobSettles ==
  \A j \in Job : row[j] \in Unfinished ~> row[j] \in Outcome \/ j \in terminal

\* A submission gives its place under the limit back, whatever it raised
\* (ocr_queue.py:601-605).
EverySlotReturned == \A j \in Job : j \in reserved ~> j \notin reserved

\* Every submission comes to an end, and so does every job that was accepted
\* (ocr_queue.py:594-605, 978-1027).
EveryRequestSettles == AcceptedJobSettles /\ EverySlotReturned

-----------------------------------------------------------------------------
(* The inductive invariant that OcrQueueProofs proves the first three safety *)
(* properties from.                                                          *)

\* The submissions past the limit check and not yet done with it.
Submitting == {"reserved", "spilled", "inserted", "leaving", "failing"}

\* A submission has no row before it inserts one, and its input is there when it does.
SubmissionOrder ==
  \A j \in Job :
    /\ sub[j] \in {"new", "reserved", "spilled", "failing"} => row[j] = "none"
    /\ sub[j] = "inserted" => row[j] # "none"
    /\ sub[j] = "spilled" => j \in inputs
    /\ sub[j] \in Submitting => Running /\ j \in reserved

\* Whatever the queue and its workers hold has a row.
KnownRows ==
  /\ \A j \in jobs \cup waiting \cup active : row[j] # "none"
  /\ \A w \in Worker : wk[w].pc # "idle" => row[wk[w].job] # "none"

\* From the transaction on, the row of the job a worker settles has an outcome.
SettledRows ==
  \A w \in Worker : wk[w].pc \in {"clean", "failclean", "pop"} => row[wk[w].job] \in Outcome

\* An unfinished row is in the queue, on its way there, or yet to be recovered.
CoveredRows ==
  /\ Running => UnfinishedRows \subseteq jobs \cup reserved
  /\ proc = "starting" => UnfinishedRows \subseteq jobs \cup toRecover
  /\ proc # "starting" => toRecover = {}
  /\ toRecover \subseteq UnfinishedRows
  /\ \A j \in Job : sub[j] = "leaving" /\ row[j] \in Unfinished => j \in jobs

IInv ==
  /\ TypeOK
  /\ SubmissionOrder
  /\ KnownRows
  /\ SettledRows
  /\ CoveredRows
  /\ InputPresentWhileUnfinished
  /\ CheckpointsOnlyWhileUnfinished
  /\ UnfinishedBounded

=============================================================================
