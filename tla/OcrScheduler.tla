---------------------------- MODULE OcrScheduler ----------------------------
(***************************************************************************)
(* How OcrQueue (app/services/ocr_queue.py) shares its worker threads among *)
(* persistent OCR jobs and synchronous callers (identifier redaction,      *)
(* orientation, tables): _next_unit_locked with its two lanes, the yield   *)
(* of a slot at a page boundary and the round robin; the condition         *)
(* variable the workers sleep on; the callers of _run_sync, their timeouts *)
(* and shutdown().                                                         *)
(*                                                                         *)
(* One action is one critical section of _cond, or one step outside it     *)
(* that another thread can see.  Pages are counted, not named: job.units   *)
(* is a number here.  What a persistent job does on disk is in OcrQueue.   *)
(*                                                                         *)
(* A definition whose name starts with Bad is a plausible mistake in the   *)
(* one that follows it: no action uses it, and the property named in its   *)
(* comment fails when it takes the other one's place.                      *)
(***************************************************************************)
EXTENDS Integers, FiniteSets, SequencesExt

CONSTANTS
  Persistent,  \* /text/ocr jobs
  Sync,        \* jobs of run_rapid and run_pages
  Size,        \* the number of pages of each job
  Fallible,    \* the jobs whose pages may raise
  Worker,      \* the OCR_WORKERS threads
  MaxActive,   \* OCR_MAX_ACTIVE_JOBS
  MayShutdown, \* whether shutdown() is called
  NoJob

Job == Persistent \cup Sync

ASSUME LaneAssumption ==
  /\ IsFiniteSet(Job) /\ Persistent \cap Sync = {}
  /\ Fallible \subseteq Job /\ NoJob \notin Job
ASSUME SizeAssumption == Size \in [Job -> Nat]
ASSUME WorkerAssumption == IsFiniteSet(Worker)
ASSUME SlotAssumption == MaxActive \in Nat \ {0}
ASSUME ShutdownAssumption == MayShutdown \in BOOLEAN

VARIABLES
  pending,     \* _pending
  active,      \* _active
  persistentRR, syncRR,  \* _persistent_rr, _sync_rr
  preferSync,  \* _prefer_sync
  syncStreak,  \* _sync_streak
  stopped,     \* _stopped
  units,       \* len(job.units)
  inflight,    \* job.inflight
  done,        \* len(job.done)
  erred,       \* jobs with job.error
  data,        \* persistent jobs whose decrypted input is in memory
  ticket, lastTicket,  \* job.seq, _seq
  place,       \* where a job is in its life: "new", "queued", "settled"
  caller,      \* where the caller of _run_sync is
  wk,          \* where each worker thread is
  bypass       \* history: synchronous page starts since OCR last had a turn

lanes == <<persistentRR, syncRR, preferSync, syncStreak>>
work == <<units, inflight, done, erred>>
order == <<ticket, lastTicket>>
vars == <<pending, active, lanes, stopped, work, data, order, place, caller, wk, bypass>>

Pending == ToSet(pending)
Active == ToSet(active)

Idle == [pc |-> "idle", job |-> NoJob]
Asleep == [pc |-> "asleep", job |-> NoJob]
Gone == [pc |-> "gone", job |-> NoJob]

\* _cond.notify_all, together with what this step does to worker w.
NotifyAnd(w, state) ==
  wk' = [v \in Worker |-> IF v = w THEN state
                          ELSE IF wk[v] = Asleep THEN Idle ELSE wk[v]]

\* Breaks SleepOnlyWhenNothingToTake: a job is queued and nobody is woken.
BadNotifyAll == UNCHANGED wk

NotifyAll == wk' = [v \in Worker |-> IF wk[v] = Asleep THEN Idle ELSE wk[v]]

Init ==
  /\ pending = <<>> /\ active = <<>>
  /\ persistentRR = 0 /\ syncRR = 0 /\ preferSync = TRUE /\ syncStreak = 0
  /\ stopped = FALSE
  /\ units = Size
  /\ inflight = [j \in Job |-> 0]
  /\ done = [j \in Job |-> 0]
  /\ erred = {} /\ data = {}
  /\ ticket = [j \in Job |-> 0] /\ lastTicket = 0
  /\ place = [j \in Job |-> "new"]
  /\ caller = [j \in Sync |-> "new"]
  /\ wk = [w \in Worker |-> Idle]
  /\ bypass = 0

-----------------------------------------------------------------------------
(* _next_unit_locked *)

Finishable(j) == units[j] = 0 /\ inflight[j] = 0
HasUnits(j) == units[j] > 0 /\ j \notin erred

HasSync(seq) == \E j \in ToSet(seq) : j \in Sync
HasPersistent(seq) == \E j \in ToSet(seq) : j \in Persistent
FirstSync(seq) == seq[SelectInSeq(seq, LAMBDA j : j \in Sync)]
FirstPersistent(seq) == seq[SelectInSeq(seq, LAMBDA j : j \in Persistent)]

SlotState == [pending : Seq(Job), active : Seq(Job), preferSync : BOOLEAN]

\* The slots as the scheduler finds them.
Slots == [pending |-> pending, active |-> active, preferSync |-> preferSync]

SyncNeedsSlot ==
  /\ HasSync(pending) /\ ~HasSync(active)
  /\ MaxActive > 1 \/ preferSync
  /\ Len(active) >= MaxActive

\* The last active OCR job with pages left, when a synchronous job needs its slot.
Yielding ==
  LET at == SelectLastInSeq(active, LAMBDA j : j \in Persistent /\ HasUnits(j))
  IN  IF SyncNeedsSlot /\ at # 0 THEN active[at] ELSE NoJob

\* Breaks WaitingHoldsNothing: an OCR job yields in the middle of a page.
BadYields == Yielding # NoJob

\* It yields between pages; until then it starts no further one.
Yields == Yielding # NoJob /\ inflight[Yielding] = 0
Held == IF Yields THEN NoJob ELSE Yielding

\* Breaks OcrKeepsItsOrder: a job that yields goes to the end of the line.
BadAfterYield ==
  IF Yields
    THEN [Slots EXCEPT !.pending = Append(@, Yielding), !.active = RemoveFirst(@, Yielding)]
    ELSE Slots

AfterYield ==
  IF Yields
    THEN [Slots EXCEPT !.pending = <<Yielding>> \o @, !.active = RemoveFirst(@, Yielding)]
    ELSE Slots

\* Which pending job gets a free slot: one slot at most for synchronous jobs while
\* OCR is waiting; a single slot alternates between the two.
Candidate(s) ==
  IF HasSync(s.pending) /\ HasPersistent(s.pending)
    THEN IF (IF MaxActive = 1 THEN s.preferSync ELSE ~HasSync(s.active))
           THEN FirstSync(s.pending) ELSE FirstPersistent(s.pending)
    ELSE s.pending[1]

HasRoom(s) == Len(s.active) < MaxActive /\ s.pending # <<>>

\* One turn of the admission loop.
Admit ==
  [s \in SlotState |->
     IF HasRoom(s)
       THEN LET j == Candidate(s) IN
            [pending |-> RemoveFirst(s.pending, j),
             active |-> Append(s.active, j),
             preferSync |-> j \in Persistent]
       ELSE s]

\* The loop ends when the slots are full, after MaxActive turns at most.
Filled ==
  LET fill[n \in 0..MaxActive] == IF n = 0 THEN AfterYield ELSE Admit[fill[n - 1]]
  IN  fill[MaxActive]

Ready(j) == j # Held /\ HasUnits(j)

Mixed(act) ==
  /\ \E j \in ToSet(act) : j \in Persistent /\ Ready(j)
  /\ \E j \in ToSet(act) : j \in Sync /\ Ready(j)

\* Breaks LanesShare: synchronous pages first.
BadPreferPersistent(act) ==
  ~Mixed(act) /\ \E j \in ToSet(act) : j \in Persistent /\ Ready(j)

\* Two synchronous page starts for one persistent page start.
PreferPersistent(act) ==
  IF Mixed(act) THEN syncStreak >= 2
  ELSE \E j \in ToSet(act) : j \in Persistent /\ Ready(j)

\* Breaks EverybodyIsServed: a job admitted with no page left is not finished in this pass.
BadChoosable(act, j) == Ready(j) /\ (Mixed(act) => (j \in Persistent) = PreferPersistent(act))

Choosable(act, j) ==
  \/ Finishable(j)
  \/ Ready(j) /\ (Mixed(act) => (j \in Persistent) = PreferPersistent(act))

\* The round robin: the first choosable index at or after the lane's cursor (which
\* counts from 0), or 0.
Chosen ==
  [act \in Seq(Job) |->
     LET start == IF PreferPersistent(act) THEN persistentRR ELSE syncRR
         turn(offset) == ((start + offset) % Len(act)) + 1
         offsets == {o \in 0..(Len(act) - 1) : Choosable(act, act[turn(o)])}
     IN  IF offsets = {} THEN 0
         ELSE turn(CHOOSE o \in offsets : \A p \in offsets : o <= p)]

FirstFinishable == SelectInSeq(active, Finishable)

\* There is nothing for a worker to take.
NothingToTake == FirstFinishable = 0 /\ Chosen[Filled.active] = 0

-----------------------------------------------------------------------------
(* _work: a worker at the top of its loop. *)

Scheduling(w) == wk[w] = Idle /\ ~stopped

\* Slots are taken and given back by whatever the scheduler decides.
TakeSlots(act) ==
  /\ pending' = Filled.pending
  /\ active' = act
  /\ preferSync' = Filled.preferSync
  /\ data' = IF Yields THEN data \ {Yielding} ELSE data

TakeFinished(w) ==
  /\ Scheduling(w) /\ FirstFinishable # 0
  /\ active' = RemoveAt(active, FirstFinishable)
  /\ wk' = [wk EXCEPT ![w] = [pc |-> "finish", job |-> active[FirstFinishable]]]
  /\ UNCHANGED <<pending, lanes, stopped, work, data, place, caller, bypass, order>>

\* A job just admitted that has no page to read.
TakeEmpty(w) ==
  LET act == Filled.active
      at == Chosen[act] IN
  /\ Scheduling(w) /\ FirstFinishable = 0
  /\ at # 0 /\ Finishable(act[at])
  /\ TakeSlots(RemoveAt(act, at))
  /\ wk' = [wk EXCEPT ![w] = [pc |-> "finish", job |-> act[at]]]
  /\ UNCHANGED <<persistentRR, syncRR, syncStreak, stopped, work, place, caller, bypass, order>>

NextStreak(j) ==
  CASE j \in Persistent -> 0
    [] j \in Sync /\ syncStreak < 2 -> syncStreak + 1
    [] OTHER -> 2

TakePage(w) ==
  LET act == Filled.active
      at == Chosen[act]
      j == act[at]
      ocrReady == \E i \in ToSet(act) : i \in Persistent /\ HasUnits(i) IN
  /\ Scheduling(w) /\ FirstFinishable = 0
  /\ at # 0 /\ ~Finishable(j)
  /\ TakeSlots(act)
  /\ persistentRR' = IF j \in Persistent THEN at ELSE persistentRR
  /\ syncRR' = IF j \in Sync THEN at ELSE syncRR
  /\ syncStreak' = NextStreak(j)
  /\ units' = [units EXCEPT ![j] = @ - 1]
  /\ inflight' = [inflight EXCEPT ![j] = @ + 1]
  /\ wk' = [wk EXCEPT ![w] = [pc |-> "open", job |-> j]]
  /\ bypass' = IF j \in Sync /\ ocrReady THEN bypass + 1 ELSE 0
  /\ UNCHANGED <<stopped, done, erred, place, caller, order>>

Sleep(w) ==
  /\ Scheduling(w) /\ NothingToTake
  /\ TakeSlots(Filled.active)
  /\ wk' = [wk EXCEPT ![w] = Asleep]
  /\ UNCHANGED <<persistentRR, syncRR, syncStreak, stopped, work, place, caller, bypass, order>>

Leave(w) ==
  /\ wk[w] = Idle /\ stopped
  /\ wk' = [wk EXCEPT ![w] = Gone]
  /\ UNCHANGED <<pending, active, lanes, stopped, work, data, place, caller, bypass, order>>

-----------------------------------------------------------------------------
(* _run_and_record and _finish, outside the lock, and their closing section. *)

\* _job_bytes: the input of a persistent job is unsealed once and kept on the job.
OpenInput(w) ==
  LET j == wk[w].job IN
  /\ wk[w].pc = "open"
  /\ data' = IF j \in Persistent THEN data \cup {j} ELSE data
  /\ wk' = [wk EXCEPT ![w].pc = "read"]
  /\ UNCHANGED <<pending, active, lanes, stopped, work, place, caller, bypass, order>>

\* Breaks Inv: an error leaves the page counted in job.inflight.
BadReturnPage(w) ==
  LET j == wk[w].job IN
  /\ wk[w].pc = "read"
  /\ IF stopped
       THEN wk' = [wk EXCEPT ![w] = Idle] /\ UNCHANGED work
       ELSE /\ \/ /\ done' = [done EXCEPT ![j] = @ + 1]
                  /\ inflight' = [inflight EXCEPT ![j] = @ - 1]
                  /\ UNCHANGED <<units, erred>>
               \/ /\ j \in Fallible
                  /\ erred' = erred \cup {j}
                  /\ units' = [units EXCEPT ![j] = 0]
                  /\ UNCHANGED <<done, inflight>>
            /\ NotifyAnd(w, Idle)
  /\ UNCHANGED <<pending, active, lanes, stopped, data, place, caller, bypass, order>>

ReturnPage(w) ==
  LET j == wk[w].job IN
  /\ wk[w].pc = "read"
  /\ IF stopped
       THEN wk' = [wk EXCEPT ![w] = Idle] /\ UNCHANGED work
       ELSE /\ inflight' = [inflight EXCEPT ![j] = @ - 1]
            /\ \/ done' = [done EXCEPT ![j] = @ + 1] /\ UNCHANGED <<units, erred>>
               \/ /\ j \in Fallible
                  /\ erred' = erred \cup {j}
                  /\ units' = [units EXCEPT ![j] = 0]
                  /\ UNCHANGED done
            /\ NotifyAnd(w, Idle)
  /\ UNCHANGED <<pending, active, lanes, stopped, data, place, caller, bypass, order>>

\* The outcome is recorded; a persistent job is left to the next start after
\* shutdown().  job.event is set when a synchronous job is settled.
FinishJob(w) ==
  LET j == wk[w].job IN
  /\ wk[w].pc = "finish"
  /\ place' = IF stopped /\ j \in Persistent THEN place
              ELSE [place EXCEPT ![j] = "settled"]
  /\ data' = data \ {j}
  /\ wk' = [wk EXCEPT ![w] = Idle]
  /\ UNCHANGED <<pending, active, lanes, stopped, work, caller, bypass, order>>

Work(w) ==
  \/ TakeFinished(w) \/ TakeEmpty(w) \/ TakePage(w) \/ Sleep(w) \/ Leave(w)
  \/ OpenInput(w) \/ ReturnPage(w) \/ FinishJob(w)

-----------------------------------------------------------------------------
(* submit_ocr, _run_sync and shutdown() *)

EnqueueLocked(j) ==
  /\ place[j] = "new"
  /\ place' = [place EXCEPT ![j] = "queued"]
  /\ lastTicket' = lastTicket + 1
  /\ ticket' = [ticket EXCEPT ![j] = lastTicket']
  /\ pending' = Append(pending, j)
  /\ NotifyAll

Submit(j) ==
  /\ EnqueueLocked(j)
  /\ UNCHANGED <<active, lanes, stopped, work, data, caller, bypass>>

Call(j) ==
  /\ caller[j] = "new" /\ ~stopped
  /\ EnqueueLocked(j)
  /\ caller' = [caller EXCEPT ![j] = "waiting"]
  /\ UNCHANGED <<active, lanes, stopped, work, data, bypass>>

\* RuntimeError("OCR queue stopped")
CallRejected(j) ==
  /\ caller[j] = "new" /\ stopped
  /\ caller' = [caller EXCEPT ![j] = "rejected"]
  /\ UNCHANGED <<pending, active, lanes, stopped, work, data, place, wk, bypass, order>>

Return(j) ==
  /\ caller[j] = "waiting" /\ place[j] = "settled"
  /\ caller' = [caller EXCEPT ![j] = "returned"]
  /\ UNCHANGED <<pending, active, lanes, stopped, work, data, place, wk, bypass, order>>

\* event.wait gives up; the job may still be settled before the caller has the lock.
Expire(j) ==
  /\ caller[j] = "waiting" /\ place[j] # "settled"
  /\ caller' = [caller EXCEPT ![j] = "expired"]
  /\ UNCHANGED <<pending, active, lanes, stopped, work, data, place, wk, bypass, order>>

\* Breaks TimedOutIsAbandoned: the pages nobody has started stay queued.
BadTimeOut(j) ==
  /\ caller[j] = "expired"
  /\ caller' = [caller EXCEPT ![j] = "timedout"]
  /\ erred' = erred \cup {j}
  /\ pending' = RemoveFirst(pending, j)
  /\ active' = IF inflight[j] = 0 THEN RemoveFirst(active, j) ELSE active
  /\ NotifyAll
  /\ UNCHANGED <<lanes, stopped, units, inflight, done, data, place, bypass, order>>

TimeOut(j) ==
  /\ caller[j] = "expired"
  /\ caller' = [caller EXCEPT ![j] = "timedout"]
  /\ erred' = erred \cup {j}
  /\ units' = [units EXCEPT ![j] = 0]
  /\ pending' = RemoveFirst(pending, j)
  /\ active' = IF inflight[j] = 0 THEN RemoveFirst(active, j) ELSE active
  /\ NotifyAll
  /\ UNCHANGED <<lanes, stopped, inflight, done, data, place, bypass, order>>

\* Breaks EverybodyIsServed: the callers of active jobs are forgotten.
BadShutdown ==
  LET given == Pending \cap Sync IN
  /\ MayShutdown /\ ~stopped
  /\ stopped' = TRUE
  /\ erred' = erred \cup given
  /\ place' = [j \in Job |-> IF j \in given THEN "settled" ELSE place[j]]
  /\ NotifyAll
  /\ UNCHANGED <<pending, active, lanes, units, inflight, done, data, caller, bypass, order>>

\* The synchronous jobs that wait or are active are given up, with their callers.
Shutdown ==
  LET given == (Pending \cup Active) \cap Sync IN
  /\ MayShutdown /\ ~stopped
  /\ stopped' = TRUE
  /\ erred' = erred \cup given
  /\ place' = [j \in Job |-> IF j \in given THEN "settled" ELSE place[j]]
  /\ NotifyAll
  /\ UNCHANGED <<pending, active, lanes, units, inflight, done, data, caller, bypass, order>>

Next ==
  \/ \E w \in Worker : Work(w)
  \/ \E j \in Persistent : Submit(j)
  \/ \E j \in Sync : Call(j) \/ CallRejected(j) \/ Return(j) \/ Expire(j) \/ TimeOut(j)
  \/ Shutdown

Spec == Init /\ [][Next]_vars

\* Threads run and a page read ends.  Nobody has to call, nor to lose patience, nor
\* to stop the queue.
Fairness ==
  /\ \A w \in Worker : WF_vars(Work(w))
  /\ \A j \in Sync : WF_vars(Return(j)) /\ WF_vars(TimeOut(j))

FairSpec == Spec /\ Fairness

-----------------------------------------------------------------------------
(* Properties *)

\* The type invariant.
TypeOK ==
  /\ pending \in Seq(Job) /\ active \in Seq(Job)
  /\ persistentRR \in 0..MaxActive /\ syncRR \in 0..MaxActive
  /\ preferSync \in BOOLEAN /\ syncStreak \in 0..2
  /\ stopped \in BOOLEAN
  /\ units \in [Job -> Nat] /\ inflight \in [Job -> Nat] /\ done \in [Job -> Nat]
  /\ erred \subseteq Job /\ data \subseteq Persistent
  /\ ticket \in [Job -> Nat] /\ lastTicket \in Nat
  /\ place \in [Job -> {"new", "queued", "settled"}]
  /\ caller \in [Sync -> {"new", "waiting", "expired", "returned", "timedout", "rejected"}]
  /\ wk \in [Worker -> [pc : {"open", "read", "finish"}, job : Job] \cup {Idle, Asleep, Gone}]
  /\ bypass \in Nat

Finishers(j) == {w \in Worker : wk[w] = [pc |-> "finish", job |-> j]}
Readers(j) == {w \in Worker : wk[w].job = j /\ wk[w].pc \in {"open", "read"}}
Times(seq, j) == Cardinality({i \in DOMAIN seq : seq[i] = j})

\* At most OCR_MAX_ACTIVE_JOBS documents are active, and an unsettled job is at
\* exactly one place: in line, active, or with the one worker that finishes it.
\* A yield, an admission or a timeout neither loses nor duplicates a job
\* (ocr_queue.py:803-849, 709-716).
OnePlacePerJob ==
  /\ Len(active) <= MaxActive
  /\ \A j \in Job :
       LET places == Times(pending, j) + Times(active, j) + Cardinality(Finishers(j)) IN
       /\ places <= 1
       /\ place[j] = "queued" /\ ~stopped =>
            places = 1 \/ (j \in Sync /\ caller[j] = "timedout")

\* Every page of a job is queued, in flight with one worker, or done, as long as no
\* page of it failed and its caller waits (ocr_queue.py:876-879, 919-931).
PagesAccounted ==
  ~stopped => \A j \in Job :
    /\ inflight[j] = Cardinality(Readers(j))
    /\ j \notin erred => units[j] + inflight[j] + done[j] = Size[j]

\* A worker finishes a job only when nothing of it runs, and assembles it only when
\* all its pages are done (ocr_queue.py:807-811, 982-985).
FinishedIsComplete ==
  ~stopped => \A j \in Job : Finishers(j) # {} =>
    /\ units[j] = 0 /\ inflight[j] = 0
    /\ j \in erred \/ done[j] = Size[j]

\* The bookkeeping of _next_unit_locked and _run_and_record holds together: types, one
\* place for each job, one for each page, and no document assembled early
\* (ocr_queue.py:803-932).
Inv == TypeOK /\ OnePlacePerJob /\ PagesAccounted /\ FinishedIsComplete

\* No wake-up is lost: a worker sleeps while there is something to take only if
\* another one is about to look (every notify_all of ocr_queue.py against the
\* wait at 890).
SleepOnlyWhenNothingToTake ==
  (\E w \in Worker : wk[w] = Asleep) /\ (\A w \in Worker : wk[w] # Idle) =>
    stopped \/ NothingToTake

\* A job in line, new or yielded, has no page in flight and no decrypted input in
\* memory (README.md:205-207, ocr_queue.py:826-829).
WaitingHoldsNothing ==
  \A j \in Pending : inflight[j] = 0 /\ Readers(j) = {} /\ j \notin data

\* OCR jobs keep their order under yields: the line is in submission order, and an
\* active job with pages left came before every job in line
\* (README.md:179, ocr_queue.py:823-829).
OcrKeepsItsOrder ==
  /\ \A a, b \in DOMAIN pending :
       a < b /\ {pending[a], pending[b]} \subseteq Persistent =>
         ticket[pending[a]] < ticket[pending[b]]
  /\ \A i \in Active \cap Persistent, j \in Pending \cap Persistent :
       HasUnits(i) => ticket[i] < ticket[j]

\* When OCR is waiting, a second synchronous job never gets a slot next to an active
\* one (the comment at ocr_queue.py:838-839).
OneSyncSlotWhileOcrWaits ==
  \A j, k \in Sync :
    MaxActive > 1 /\ j # k /\ j \in Active' \ Active /\ k \in Active'
      => ~HasPersistent(pending')

\* Background OCR advances under any interactive load: at most two synchronous pages
\* in a row are started while a page of an active OCR job is ready
\* (README.md:208-211, ocr_queue.py:865-867).
OcrGetsItsTurn == bypass <= 2

\* Neither lane starves the other, in pages or in slots (ocr_queue.py:813-873).
LanesShare == [][OcrGetsItsTurn' /\ OneSyncSlotWhileOcrWaits]_vars

\* Once its caller has timed out, no page of a synchronous job is left to start
\* (the comment at ocr_queue.py:709-710).
TimedOutIsAbandoned ==
  \A j \in Sync : caller[j] = "timedout" => units[j] = 0 /\ j \notin Pending

\* Every submitted OCR job is settled unless the queue is stopped, also when
\* synchronous jobs come, time out or fail around it.
OcrJobSettles == \A j \in Persistent : place[j] = "queued" ~> place[j] = "settled" \/ stopped

\* Every synchronous caller gets an answer, also when the queue is stopped while it
\* waits, and without having to lose patience (ocr_queue.py:554-559).
SyncCallerAnswered ==
  \A j \in Sync : caller[j] = "waiting" ~> caller[j] \in {"returned", "timedout"}

\* Whoever waits for the queue is served or told so (ocr_queue.py:541-561, 683-724,
\* 803-893).
EverybodyIsServed == OcrJobSettles /\ SyncCallerAnswered

=============================================================================
