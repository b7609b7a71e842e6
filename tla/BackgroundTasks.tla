--------------------------- MODULE BackgroundTasks ---------------------------
(***************************************************************************)
(* Long operations outside the OCR queue: POST /redact/identifiers          *)
(* (app/routes/redact.py) and POST /convert/from-office                     *)
(* (app/routes/convert.py), with the tasks they are polled by               *)
(* (app/services/task_service.py) and the file cache.                       *)
(*                                                                         *)
(* Handlers and office conversions run on the event loop and hold it from   *)
(* one await to the next; the redaction of a scan runs in a thread.  Each   *)
(* assignment to a field of a task is a step, since a poll reads the fields *)
(* on the event loop while such a thread writes them.                       *)
(***************************************************************************)
EXTENDS FileCache

CONSTANTS
  Request,     \* the clients of the two routes, each with its document
  Loop,        \* the event loop
  KeyOf,       \* the cache key of each one's document
  Inline,      \* keys of requests answered at once: digital documents, small office files
  MaxAsks,     \* bound: requests sent
  MaxCrashes,  \* bound: deaths of the process
  Nobody

ASSUME RequestAssumption ==
  /\ Actor = Request \cup {Loop} /\ Loop \notin Request /\ Nobody \notin Actor
  /\ \A r \in Request : KeyOf[r] \in Key /\ Inline \subseteq Key
  /\ MaxAsks \in Nat /\ MaxCrashes \in Nat

VARIABLES
  tasks,    \* _tasks: the task of each request, NoTask when it is not there
  job,      \* where each request and its background task are
  holder,   \* the request whose code the event loop is running
  reading,  \* the status a running to_dict() has read, "no" when none runs
  bare,     \* history: the tasks a poll found completed or failed without a reason
  asks,     \* requests sent so far
  crashes

taskVars == <<tasks, job, holder, reading, bare, asks, crashes>>
vars == <<cacheVars, taskVars>>

\* TaskInfo; ended says that completed_at is set.
NoTask == [status |-> "unknown", result |-> FALSE, error |-> FALSE, ended |-> FALSE]
NewTask == [NoTask EXCEPT !.status = "pending"]

\* The background task of a scan has a thread of its own, everything else the loop.
Runner(r) == IF KeyOf[r] \in Json \ Inline THEN r ELSE Loop

LoopIsFree == holder = Nobody

Init ==
  /\ CacheInit
  /\ tasks = [r \in Request |-> NoTask]
  /\ job = [r \in Request |-> "new"]
  /\ holder = Nobody
  /\ reading = "no"
  /\ bare = {}
  /\ asks = 0
  /\ crashes = 0

-----------------------------------------------------------------------------
(* The handlers *)

\* A client may send its document again once it has an answer or has lost its task.
Ask(r) ==
  /\ job[r] \in {"new", "whole", "refused", "ended", "lost"} /\ asks < MaxAsks /\ LoopIsFree
  /\ asks' = asks + 1
  /\ Get(Loop, KeyOf[r])
  /\ job' = [job EXCEPT ![r] = "asking"]
  /\ holder' = r
  /\ UNCHANGED <<tasks, reading, bare, crashes>>

ServeHit(r) ==
  /\ job[r] = "asking" /\ Free(Loop) /\ call[Loop].hit # "none"
  /\ job' = [job EXCEPT ![r] = call[Loop].hit]
  /\ holder' = Nobody
  /\ UNCHANGED <<cacheVars, tasks, reading, bare, asks, crashes>>

\* Bytes cut off to nothing are no hit.
Missed(r) == job[r] = "asking" /\ Free(Loop) /\ call[Loop].hit \in {"none", "part"}

\* create_task; any of the tasks that ended may have done so over an hour ago, and
\* is pruned.
CreateTask(r) ==
  /\ Missed(r) /\ KeyOf[r] \notin Inline
  /\ \E old \in SUBSET {q \in Request : tasks[q].ended} :
       tasks' = [q \in Request |-> IF q = r THEN NewTask ELSE IF q \in old THEN NoTask ELSE tasks[q]]
  /\ job' = [job EXCEPT ![r] = "queued"]
  /\ holder' = Nobody
  /\ UNCHANGED <<cacheVars, reading, bare, asks, crashes>>

RunInline(r) ==
  /\ Missed(r) /\ KeyOf[r] \in Inline
  /\ job' = [job EXCEPT ![r] = "working"]
  /\ UNCHANGED <<cacheVars, tasks, holder, reading, bare, asks, crashes>>

-----------------------------------------------------------------------------
(* _run_identifier_redaction and _run_office_conversion *)

SetProcessing(r) ==
  /\ job[r] = "queued"
  /\ Runner(r) = Loop => LoopIsFree
  /\ tasks' = [tasks EXCEPT ![r].status = "processing"]
  /\ job' = [job EXCEPT ![r] = "working"]
  /\ holder' = IF Runner(r) = Loop THEN r ELSE holder
  /\ UNCHANGED <<cacheVars, reading, bare, asks, crashes>>

StoreResult(r) ==
  /\ job[r] = "working"
  /\ Put(Runner(r), KeyOf[r])
  /\ job' = [job EXCEPT ![r] = "storing"]
  /\ UNCHANGED <<tasks, holder, reading, bare, asks, crashes>>

\* Breaks NoTaskAbandoned: an exception ends the thread and not the task.
BadOperationFails(r) ==
  /\ job[r] = "working"
  /\ job' = [job EXCEPT ![r] = "ended"]
  /\ holder' = IF Runner(r) = Loop THEN Nobody ELSE holder
  /\ UNCHANGED <<cacheVars, tasks, reading, bare, asks, crashes>>

\* The redaction is incomplete (422 when inline), the office file cannot be read.
OperationFails(r) ==
  /\ job[r] = "working"
  /\ IF KeyOf[r] \in Inline
       THEN job' = [job EXCEPT ![r] = "refused"] /\ holder' = Nobody
       ELSE job' = [job EXCEPT ![r] = "failing"] /\ UNCHANGED holder
  /\ UNCHANGED <<cacheVars, tasks, reading, bare, asks, crashes>>

PutReturned(r) == job[r] = "storing" /\ Free(Runner(r))

ServeInline(r) ==
  /\ PutReturned(r) /\ KeyOf[r] \in Inline
  /\ job' = [job EXCEPT ![r] = "whole"]
  /\ holder' = Nobody
  /\ UNCHANGED <<cacheVars, tasks, reading, bare, asks, crashes>>

\* complete_task and fail_task: status first, then result or error; completed_at is
\* set right after, and only pruning reads it.
SetStatus(r) ==
  /\ \/ /\ PutReturned(r) /\ KeyOf[r] \notin Inline
        /\ tasks' = [tasks EXCEPT ![r].status = "completed"]
     \/ /\ job[r] = "failing"
        /\ tasks' = [tasks EXCEPT ![r].status = "failed"]
  /\ job' = [job EXCEPT ![r] = "explaining"]
  /\ UNCHANGED <<cacheVars, holder, reading, bare, asks, crashes>>

SetResult(r) ==
  /\ job[r] = "explaining"
  /\ tasks' = [tasks EXCEPT ![r].result = tasks[r].status = "completed",
                            ![r].error = tasks[r].status = "failed",
                            ![r].ended = TRUE]
  /\ job' = [job EXCEPT ![r] = "ended"]
  /\ holder' = IF Runner(r) = Loop THEN Nobody ELSE holder
  /\ UNCHANGED <<cacheVars, reading, bare, asks, crashes>>

-----------------------------------------------------------------------------
(* GET /tasks/{id}: to_dict() on the event loop, in the order it reads. *)

ReadStatus(r) ==
  /\ LoopIsFree /\ tasks[r] # NoTask
  /\ holder' = r /\ reading' = tasks[r].status
  /\ UNCHANGED <<cacheVars, tasks, job, bare, asks, crashes>>

\* The result and the error go by the status at that moment, not by the one read.
ReadRest(r) ==
  LET now == tasks[r]
      explained == (now.status = "completed" /\ now.result) \/ (now.status = "failed" /\ now.error) IN
  /\ holder = r /\ reading # "no"
  /\ bare' = IF reading \in {"completed", "failed"} /\ ~explained THEN bare \cup {r} ELSE bare
  /\ reading' = "no" /\ holder' = Nobody
  /\ UNCHANGED <<cacheVars, tasks, job, asks, crashes>>

-----------------------------------------------------------------------------

\* A cache call goes on, on the event loop or in a thread.
CallStepBy(a) == CacheStep(a) /\ UNCHANGED taskVars

EntryExpires(k) == Expire(k) /\ UNCHANGED taskVars

\* The tasks are in memory only: a restart forgets them.
Crash ==
  /\ crashes < MaxCrashes
  /\ crashes' = crashes + 1
  /\ CacheCrash
  /\ tasks' = [r \in Request |-> NoTask]
  /\ job' = [r \in Request |->
       IF job[r] \in {"new", "whole", "part", "refused", "ended"} THEN job[r] ELSE "lost"]
  /\ holder' = Nobody /\ reading' = "no"
  /\ UNCHANGED <<bare, asks>>

Handle(r) == ServeHit(r) \/ CreateTask(r) \/ RunInline(r)

Run(r) ==
  \/ StoreResult(r) \/ OperationFails(r) \/ ServeInline(r)
  \/ SetStatus(r) \/ SetResult(r)

Next ==
  \/ \E r \in Request :
       \/ Ask(r) \/ Handle(r) \/ SetProcessing(r) \/ Run(r)
       \/ ReadStatus(r) \/ ReadRest(r)
  \/ \E a \in Actor : CallStepBy(a)
  \/ \E k \in Key : EntryExpires(k)
  \/ Crash

Spec == Init /\ [][Next]_vars

-----------------------------------------------------------------------------
(* Properties *)

Where == {"new", "asking", "queued", "working", "storing", "failing", "explaining",
          "ended", "whole", "part", "refused", "lost"}

\* The type invariant; byAge lists the data files.
TypeOK ==
  /\ CacheTypeOK
  /\ tasks \in [Request ->
       [status : {"unknown", "pending", "processing", "completed", "failed"},
        result : BOOLEAN, error : BOOLEAN, ended : BOOLEAN]]
  /\ job \in [Request -> Where]
  /\ holder \in Request \cup {Nobody}
  /\ reading \in {"no", "pending", "processing", "completed", "failed"}
  /\ bare \subseteq Request
  /\ asks \in 0..MaxAsks /\ crashes \in 0..MaxCrashes

\* A redacted document served from the cache is the whole answer of that request,
\* whatever threads write, remove or evict the entry meanwhile, and after any failed
\* write or crash (cache_service.py:68-97, 141-148; redact.py:105-107).
DocumentIsWhole ==
  \A r \in Request : KeyOf[r] \in Json => job[r] # "part"

\* Files, entries and tasks keep their types and their relations, and no document that
\* was cut off is served (cache_service.py:45-190).
Inv == TypeOK /\ DocumentIsWhole

\* Nobody waits for nothing: a task a client can poll and that has not ended has a
\* runner that will end it, and the event loop is held by code that runs
\* (redact.py:67-77, convert.py:50-61).  A client that was told that its task is over and
\* not what came of it (task_service.py:111-112) is told if it asks again.
NoTaskAbandoned ==
  LET running == {"queued", "working", "storing", "failing", "explaining"} IN
  /\ \A r \in Request : tasks[r] # NoTask /\ ~tasks[r].ended => job[r] \in running
  /\ ~LoopIsFree => reading # "no" \/ job[holder] \in running \cup {"asking"}
  /\ \A r \in bare : tasks[r].status \in {"completed", "failed"} =>
       job[r] = "explaining" \/ tasks[r].result \/ tasks[r].error

=============================================================================
