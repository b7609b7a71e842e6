------------------------------ MODULE OcrStore ------------------------------
(***************************************************************************)
(* Retention of OCR jobs (app/services/ocr_queue.py, class _Store): ledger  *)
(* rows, spill files and their temporaries grow old; the sweeper prunes     *)
(* expired jobs and removes files no row refers to, while submissions and   *)
(* workers write and clients read.  OcrQueue has the pages, the queue and   *)
(* the failures of a job; here a job is the files and statements of its     *)
(* submission and of its completion.                                        *)
(*                                                                         *)
(* Time is a clock tick.  An age counts ticks and stops at the first one    *)
(* that is too old, so that time has no bound.                              *)
(***************************************************************************)
EXTENDS Integers, FiniteSets

CONSTANTS
  Job,         \* /text/ocr requests, all with the same bytes and parameters
  Finished,    \* the ones an earlier process has completed
  Ttl,         \* OCR_RESULT_TTL_SECONDS, in ticks
  Stale,       \* _STALE_TMP_SECONDS, in ticks
  MaxFaults,   \* bound: ledger statements that raise
  MaxCrashes,  \* bound: deaths of the process
  Absent, NoJob, NoPath

ASSUME StoreAssumption ==
  /\ IsFiniteSet(Job) /\ Finished \subseteq Job /\ NoJob \notin Job
  /\ Ttl \in Nat /\ Stale \in Nat \ {0} /\ Absent \notin Nat
  /\ MaxFaults \in Nat /\ MaxCrashes \in Nat

Path == [folder : {"inputs", "results"}, job : Job, tmp : BOOLEAN]
Input(j) == [folder |-> "inputs", job |-> j, tmp |-> FALSE]
Result(j) == [folder |-> "results", job |-> j, tmp |-> FALSE]
Tmp(p) == [p EXCEPT !.tmp = TRUE]

ASSUME NoPathAssumption == NoPath \notin Path

VARIABLES
  file,         \* the age of each file by its mtime, or Absent
  row,          \* the status of each job's row: "none" before the insert
  ended,        \* the age of its completed_at
  writer,       \* where the submission or the worker of each job is
  interrupted,  \* history: jobs whose completion the process did not survive
  sweep,        \* where the sweep is
  reader,       \* a client's poll, or the lookup of an earlier result
  proc,         \* "down", "starting" (the sweep of start()) or "up"
  faults, crashes

vars == <<file, row, ended, writer, interrupted, sweep, reader, proc, faults, crashes>>
ledger == <<row, ended>>
life == <<proc, crashes>>

NoSweep == [pc |-> "idle", doomed |-> {}, job |-> NoJob, referenced |-> {}, old |-> {},
            folder |-> "inputs", left |-> {}, path |-> NoPath]
NoReader == [pc |-> "idle", job |-> NoJob, answer |-> "none"]

Exists(p) == file[p] # Absent
IsOld(p) == Exists(p) /\ file[p] > Stale
Expired(j) == row[j] \in {"completed", "failed"} /\ ended[j] > Ttl
\* The paths in the columns input_path and result_path.
Referenced == {Input(j) : j \in {k \in Job : row[k] = "unfinished"}}
              \cup {Result(j) : j \in {k \in Job : row[k] = "completed"}}

Init ==
  /\ file = [p \in Path |-> IF \E j \in Finished : p = Result(j) THEN 0 ELSE Absent]
  /\ row = [j \in Job |-> IF j \in Finished THEN "completed" ELSE "none"]
  /\ ended = [j \in Job |-> 0]
  /\ writer = [j \in Job |-> IF j \in Finished THEN "over" ELSE "new"]
  /\ interrupted = {}
  /\ sweep = NoSweep
  /\ reader = NoReader
  /\ proc = "down"
  /\ faults = 0 /\ crashes = 0

-----------------------------------------------------------------------------
(* Submission and completion *)

At(j, pc) == proc = "up" /\ writer[j] = pc
Goto(j, pc) == writer' = [writer EXCEPT ![j] = pc]
Raises == faults < MaxFaults /\ faults' = faults + 1

\* What a sweep has seen to be old is young again once it is written.
Write(p) ==
  /\ file' = [file EXCEPT ![p] = 0]
  /\ sweep' = [sweep EXCEPT !.old = @ \ {p}]

Replace(p) ==
  /\ file' = [file EXCEPT ![p] = file[Tmp(p)], ![Tmp(p)] = Absent]
  /\ sweep' = [sweep EXCEPT !.old = @ \ {p, Tmp(p)}]

Unlink(p) == file' = [file EXCEPT ![p] = Absent]

SetRow(j, status) ==
  /\ row' = [row EXCEPT ![j] = status]
  /\ ended' = [ended EXCEPT ![j] = 0]

\* A request that cannot be planned is a failed job without files.
SubmitInvalid(j) ==
  /\ At(j, "new")
  /\ SetRow(j, "failed") /\ Goto(j, "over")
  /\ UNCHANGED <<file, interrupted, sweep, reader, life, faults>>

\* _write_private: the temporary, then its rename.
WriteInput(j) ==
  /\ At(j, "new")
  /\ Write(Tmp(Input(j))) /\ Goto(j, "spilling")
  /\ UNCHANGED <<ledger, interrupted, reader, life, faults>>

RenameInput(j) ==
  /\ At(j, "spilling")
  /\ IF Exists(Tmp(Input(j)))
       THEN Replace(Input(j)) /\ Goto(j, "inserting")
       ELSE Goto(j, "over") /\ UNCHANGED <<file, sweep>>
  /\ UNCHANGED <<ledger, interrupted, reader, life, faults>>

Insert(j) ==
  /\ At(j, "inserting")
  /\ \/ SetRow(j, "unfinished") /\ Goto(j, "queued") /\ UNCHANGED <<file, faults>>
     \/ Raises /\ Unlink(Input(j)) /\ Goto(j, "over") /\ UNCHANGED ledger
  /\ UNCHANGED <<interrupted, sweep, reader, life>>

\* The pages have been read and assembled, or one of them has failed.
WriteResult(j) ==
  /\ At(j, "queued")
  /\ Write(Tmp(Result(j))) /\ Goto(j, "writing")
  /\ UNCHANGED <<ledger, interrupted, reader, life, faults>>

JobFails(j) ==
  /\ At(j, "queued")
  /\ Goto(j, "failing")
  /\ UNCHANGED <<file, ledger, interrupted, sweep, reader, life, faults>>

RenameResult(j) ==
  /\ At(j, "writing")
  /\ IF Exists(Tmp(Result(j)))
       THEN Replace(Result(j)) /\ Goto(j, "committing")
       ELSE Goto(j, "failing") /\ UNCHANGED <<file, sweep>>
  /\ UNCHANGED <<ledger, interrupted, reader, life, faults>>

Commit(j) ==
  /\ At(j, "committing")
  /\ \/ SetRow(j, "completed") /\ Goto(j, "unlinking") /\ UNCHANGED faults
     \/ Raises /\ Goto(j, "undoing") /\ UNCHANGED ledger
  /\ UNCHANGED <<file, interrupted, sweep, reader, life>>

UndoResult(j) ==
  /\ At(j, "undoing")
  /\ Unlink(Result(j)) /\ Goto(j, "failing")
  /\ UNCHANGED <<ledger, interrupted, sweep, reader, life, faults>>

\* A failure the ledger does not take stays in memory (OcrQueue) until a restart.
Fail(j) ==
  /\ At(j, "failing")
  /\ \/ SetRow(j, "failed") /\ Goto(j, "unlinking") /\ UNCHANGED faults
     \/ Raises /\ Goto(j, "over") /\ UNCHANGED ledger
  /\ UNCHANGED <<file, interrupted, sweep, reader, life>>

UnlinkInput(j) ==
  /\ At(j, "unlinking")
  /\ Unlink(Input(j)) /\ Goto(j, "over")
  /\ UNCHANGED <<ledger, interrupted, sweep, reader, life, faults>>

-----------------------------------------------------------------------------
(* prune and sweep *)

Sweeping(pc) == sweep.pc = pc
OnlySweep == UNCHANGED <<ledger, writer, interrupted, reader, life, faults>>

\* Breaks Inv: the row goes while it is still served.
BadDoomed == {j \in Job : row[j] \in {"completed", "failed"} /\ ended[j] >= Ttl}
\* Breaks NothingStays: only completed rows are selected.
WorseDoomed == {j \in Job : row[j] = "completed" /\ Expired(j)}

Doomed == {j \in Job : Expired(j)}

SelectExpired ==
  /\ proc \in {"starting", "up"} /\ Sweeping("idle")
  /\ sweep' = [NoSweep EXCEPT !.pc = "prune", !.doomed = Doomed]
  /\ UNCHANGED file /\ OnlySweep

\* The result of a selected row (a failed one has none); its input_path is NULL.
PruneResult(j) ==
  /\ Sweeping("prune") /\ j \in sweep.doomed
  /\ sweep' = [sweep EXCEPT !.pc = "delete", !.job = j]
  /\ IF row[j] = "completed" THEN Unlink(Result(j)) ELSE UNCHANGED file
  /\ OnlySweep

PruneRow ==
  /\ Sweeping("delete")
  /\ row' = [row EXCEPT ![sweep.job] = "deleted"]
  /\ sweep' = [sweep EXCEPT !.pc = "prune", !.doomed = @ \ {sweep.job}, !.job = NoJob]
  /\ UNCHANGED <<file, ended, writer, interrupted, reader, life, faults>>

SelectReferenced ==
  /\ Sweeping("prune") /\ sweep.doomed = {}
  /\ sweep' = [sweep EXCEPT !.pc = "clock", !.referenced = Referenced]
  /\ UNCHANGED file /\ OnlySweep

\* now = time.time(): what is older than ten minutes is so for the whole sweep,
\* unless it is written again.
ReadClock ==
  /\ Sweeping("clock")
  /\ sweep' = [sweep EXCEPT !.pc = "list", !.old = {p \in Path : IsOld(p)}]
  /\ UNCHANGED file /\ OnlySweep

Listed == {p \in Path : Exists(p) /\ p.folder = sweep.folder}

ListFolder ==
  /\ Sweeping("list")
  /\ sweep' = [sweep EXCEPT !.pc = "look", !.left = Listed]
  /\ UNCHANGED file /\ OnlySweep

\* Breaks NothingStays: temporaries are passed over.
WorseStat(p) == ~p.tmp /\ p \in sweep.old \ sweep.referenced

\* Whether a listed file is old and, if it is no temporary, unreferenced.
Stat(p) == p \in sweep.old /\ (p.tmp \/ p \notin sweep.referenced)

Look(p) ==
  /\ Sweeping("look") /\ p \in sweep.left
  /\ sweep' = [sweep EXCEPT !.left = @ \ {p},
       !.pc = IF Exists(p) /\ Stat(p) THEN (IF p.tmp THEN "unlink" ELSE "recheck") ELSE "look",
       !.path = IF Exists(p) /\ Stat(p) THEN p ELSE NoPath]
  /\ UNCHANGED file /\ OnlySweep

\* A submit may have written the file just now.
Recheck ==
  /\ Sweeping("recheck")
  /\ sweep' = IF sweep.path \in Referenced
                THEN [sweep EXCEPT !.pc = "look", !.path = NoPath]
                ELSE [sweep EXCEPT !.pc = "unlink"]
  /\ UNCHANGED file /\ OnlySweep

UnlinkStray ==
  /\ Sweeping("unlink")
  /\ Unlink(sweep.path)
  /\ sweep' = [sweep EXCEPT !.pc = "look", !.path = NoPath]
  /\ OnlySweep

NextFolder ==
  /\ Sweeping("look") /\ sweep.left = {} /\ sweep.folder = "inputs"
  /\ sweep' = [sweep EXCEPT !.pc = "list", !.folder = "results"]
  /\ UNCHANGED file /\ OnlySweep

\* The end of the sweep; in start(), unfinished rows are recovered or, when their
\* input is lost, failed.
EndSweep ==
  /\ Sweeping("look") /\ sweep.left = {} /\ sweep.folder = "results"
  /\ sweep' = NoSweep
  /\ IF proc = "starting"
       THEN LET open == {j \in Job : row[j] = "unfinished"}
                lost == {j \in open : ~Exists(Input(j))} IN
            /\ proc' = "up"
            /\ writer' = [j \in Job |-> IF j \in open \ lost THEN "queued" ELSE writer[j]]
            /\ row' = [j \in Job |-> IF j \in lost THEN "failed" ELSE row[j]]
            /\ ended' = [j \in Job |-> IF j \in lost THEN 0 ELSE ended[j]]
       ELSE UNCHANGED <<proc, writer, ledger>>
  /\ UNCHANGED <<file, interrupted, reader, faults, crashes>>

-----------------------------------------------------------------------------
(* status and cached_result *)

\* Of the answers only the unknown ones are remembered.
Answer(j, what) == reader' = IF what = "unknown" THEN [NoReader EXCEPT !.job = j, !.answer = what] ELSE NoReader
OnlyReader == UNCHANGED <<file, ledger, writer, interrupted, sweep, life, faults>>

\* A poll of a job the process no longer holds in memory: the ledger answers.
Poll(j) ==
  /\ proc = "up" /\ reader.pc = "idle" /\ writer[j] = "over" /\ row[j] # "none"
  /\ CASE row[j] = "deleted" \/ Expired(j) -> Answer(j, "unknown")
       [] row[j] = "completed" /\ ~Expired(j) -> reader' = [NoReader EXCEPT !.pc = "polling", !.job = j]
       [] OTHER -> Answer(j, row[j])
  /\ OnlyReader

\* The newest unexpired result of the same request.
LookUpEarlier ==
  LET fresh == {j \in Job : row[j] = "completed" /\ ended[j] <= Ttl} IN
  /\ proc = "up" /\ reader.pc = "idle"
  /\ \E j \in fresh :
       /\ \A k \in fresh : ended[j] <= ended[k]
       /\ reader' = [NoReader EXCEPT !.pc = "reusing", !.job = j]
  /\ OnlyReader

\* Without the file, the poll answers as for an unknown id and the request is run.
ReadResult ==
  LET j == reader.job IN
  /\ proc = "up" /\ reader.pc \in {"polling", "reusing"}
  /\ Answer(j, IF Exists(Result(j)) THEN "result"
               ELSE IF reader.pc = "polling" THEN "unknown" ELSE "rerun")
  /\ OnlyReader

-----------------------------------------------------------------------------
(* Time and the process *)

Older(age, oldest) == IF age = Absent \/ age > oldest THEN age ELSE age + 1

\* A file is written, renamed and entered in the ledger within ten minutes: the
\* sweeper's grace period relies on it, a stalled disk could break it.
InHand(j) ==
  CASE writer[j] = "spilling" -> {Tmp(Input(j))}
    [] writer[j] = "inserting" -> {Input(j)}
    [] writer[j] = "writing" -> {Tmp(Result(j))}
    [] writer[j] \in {"committing", "undoing"} -> {Result(j)}
    [] OTHER -> {}

Tick ==
  /\ \A j \in Job : \A p \in InHand(j) : Exists(p) => file[p] < Stale
  /\ file' = [p \in Path |-> Older(file[p], Stale)]
  /\ ended' = [j \in Job |-> IF row[j] \in {"completed", "failed"} THEN Older(ended[j], Ttl) ELSE 0]
  /\ UNCHANGED <<row, writer, interrupted, sweep, reader, life, faults>>

Start ==
  /\ proc = "down"
  /\ proc' = "starting"
  /\ UNCHANGED <<file, ledger, writer, interrupted, sweep, reader, faults, crashes>>

\* Rows and files survive.
Crash ==
  /\ proc # "down" /\ crashes < MaxCrashes
  /\ crashes' = crashes + 1
  /\ proc' = "down"
  /\ interrupted' = interrupted \cup {j \in Job : writer[j] \in {"writing", "committing", "undoing"}}
  /\ writer' = [j \in Job |-> IF writer[j] = "new" THEN "new" ELSE "over"]
  /\ sweep' = NoSweep /\ reader' = NoReader
  /\ UNCHANGED <<file, ledger, faults>>

Submission(j) == SubmitInvalid(j) \/ WriteInput(j) \/ RenameInput(j) \/ Insert(j)

Completion(j) ==
  \/ WriteResult(j) \/ JobFails(j) \/ RenameResult(j)
  \/ Commit(j) \/ UndoResult(j) \/ Fail(j) \/ UnlinkInput(j)

Sweep ==
  \/ SelectExpired \/ PruneRow \/ SelectReferenced \/ ReadClock \/ ListFolder
  \/ Recheck \/ UnlinkStray \/ NextFolder \/ EndSweep
  \/ \E j \in Job : PruneResult(j)
  \/ \E p \in Path : Look(p)

Read == LookUpEarlier \/ ReadResult \/ \E j \in Job : Poll(j)

Next ==
  \/ \E j \in Job : Submission(j) \/ Completion(j)
  \/ Sweep \/ Read \/ Tick \/ Start \/ Crash

\* Writers and the sweeper run, time passes, a process that is down is started.
Fairness ==
  /\ \A j \in Job : WF_vars(Submission(j) \/ Completion(j))
  /\ WF_vars(Sweep) /\ WF_vars(Tick) /\ WF_vars(Start)

Spec == Init /\ [][Next]_vars
FairSpec == Spec /\ Fairness

-----------------------------------------------------------------------------
(* Properties *)

\* The type invariant; a listing holds paths of the folder being swept.
TypeOK ==
  /\ file \in [Path -> 0..(Stale + 1) \cup {Absent}]
  /\ row \in [Job -> {"none", "unfinished", "completed", "failed", "deleted"}]
  /\ ended \in [Job -> 0..(Ttl + 1)]
  /\ writer \in [Job -> {"new", "spilling", "inserting", "queued", "writing", "committing",
                         "undoing", "failing", "unlinking", "over"}]
  /\ interrupted \subseteq Job
  /\ sweep \in [pc : {"idle", "prune", "delete", "clock", "list", "look", "recheck", "unlink"},
                doomed : SUBSET Job, job : Job \cup {NoJob}, referenced : SUBSET Path,
                old : SUBSET Path, folder : {"inputs", "results"}, left : SUBSET Path,
                path : Path \cup {NoPath}]
  /\ \A p \in sweep.left : p.folder = sweep.folder
  /\ reader \in [pc : {"idle", "polling", "reusing"}, job : Job \cup {NoJob},
                 answer : {"none", "unknown"}]
  /\ proc \in {"down", "starting", "up"}
  /\ faults \in 0..MaxFaults /\ crashes \in 0..MaxCrashes

\* No sweep takes the input of a job that is still to be read, whatever it has
\* listed before the row was there (ocr_queue.py:407-418, 644-651).
InputStays == \A j \in Job : row[j] = "unfinished" => Exists(Input(j))

\* A completed result can be read until it expires, unless the completion was
\* interrupted before (ocr_queue.py:377-387, 413-417; README.md:129-130): then the
\* sweep may hold its path for that of the earlier attempt.
ResultStaysReadable ==
  \A j \in Job \ interrupted :
    row[j] = "completed" /\ ~Expired(j) => Exists(Result(j))

\* A poll answers unknown, and a lookup for reuse finds nothing, only for a job that has
\* expired or whose completion was once interrupted (ocr_queue.py:377-387, 737-768).
UnknownMeansExpired ==
  reader.answer = "unknown" =>
    \/ row[reader.job] = "deleted" \/ Expired(reader.job)
    \/ reader.job \in interrupted

\* The sweep takes nothing that is in use: no input that is still to be read, no result
\* that is still served, nothing under a reader (ocr_queue.py:377-418).
Inv == TypeOK /\ InputStays /\ ResultStaysReadable /\ UnknownMeansExpired

\* An expired job and its result do not stay (ocr_queue.py:377-387).
RetentionEnds ==
  \A j \in Job : Expired(j) ~> row[j] = "deleted" /\ ~Exists(Result(j))

\* Nothing a crash, an error or a finished job leaves behind stays: each input,
\* result and temporary without a row goes (ocr_queue.py:392-418).  A job that was
\* complete from the start has none of them.
StrayFilesGo ==
  \A p \in {q \in Path : q.job \notin Finished} : (Exists(p) /\ p \notin Referenced) ~> (~Exists(p) \/ p \in Referenced)

\* In the end nothing of a document stays on disk that no client can ask for
\* (ocr_queue.py:377-418).
NothingStays == RetentionEnds /\ StrayFilesGo

=============================================================================
