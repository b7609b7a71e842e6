--------------------------- MODULE OcrQueueProofs ---------------------------
(* Theorems about OcrQueue, for every set of jobs, pages and workers. *)
EXTENDS OcrQueue, FiniteSetTheorems, TLAPS

-----------------------------------------------------------------------------
(* Workers: what Goto and Rest do to the type of wk. *)

LEMMA StepsDiffer ==
  /\ "idle" \notin PageStep \cup FinishStep
  /\ PageStep \cap FinishStep = {}
BY DEF PageStep, FinishStep

\* A worker with a page, or with a job to finish, holds what its step needs.
LEMMA WorkerHolds ==
  ASSUME wk \in [Worker -> WorkerState], NEW w \in Worker
  PROVE  /\ wk[w].pc \in PageStep => wk[w].job \in Job /\ wk[w].page \in Page
         /\ wk[w].pc \in FinishStep => wk[w].job \in Job
         /\ wk[w].pc # "idle" => wk[w].job \in Job
BY StepsDiffer DEF WorkerState, Idle

LEMMA GotoPage ==
  ASSUME wk \in [Worker -> WorkerState], NEW w \in Worker, NEW step \in PageStep,
         wk[w].pc \in PageStep, Goto(w, step)
  PROVE  wk' \in [Worker -> WorkerState]
BY StepsDiffer DEF WorkerState, Idle, Goto

LEMMA GotoFinish ==
  ASSUME wk \in [Worker -> WorkerState], NEW w \in Worker, NEW step \in FinishStep,
         wk[w].pc \in FinishStep, Goto(w, step)
  PROVE  wk' \in [Worker -> WorkerState]
BY StepsDiffer DEF WorkerState, Idle, Goto

LEMMA RestIdle ==
  ASSUME wk \in [Worker -> WorkerState], NEW w \in Worker, Rest(w)
  PROVE  wk' \in [Worker -> WorkerState]
BY DEF WorkerState, Rest

LEMMA FaultsTyped ==
  ASSUME NEW j \in Job, NEW kinds, Faults(j, kinds),
         faulted \subseteq Job \X FaultKinds, restarts \in Nat
  PROVE  faulted' \subseteq Job \X FaultKinds /\ restarts' \in Nat
BY DEF Faults

LEMMA EnqueueTyped ==
  ASSUME TypeOK, NEW j \in Job, NEW recorded \in SUBSET Page, EnqueueLocked(j, recorded)
  PROVE  /\ jobs' \subseteq Job /\ waiting' \subseteq Job /\ active' \subseteq Job
         /\ ticket' \in [Job -> Nat] /\ nextTicket' \in Nat
         /\ todo' \in [Job -> SUBSET Page] /\ done' \in [Job -> SUBSET Page]
         /\ started' \subseteq Job /\ erred' \subseteq Job
         /\ terminal' \subseteq Job /\ data' \subseteq Job
<1>1. Targets[j] \ recorded \in SUBSET Page
  BY RequestAssumption
<1> QED
  BY <1>1 DEF TypeOK, EnqueueLocked

-----------------------------------------------------------------------------
(* Type correctness *)

LEMMA TypeSubmit ==
  ASSUME TypeOK, NEW j \in Job, Submit(j)
  PROVE  TypeOK'
<1> USE DEF TypeOK, SubStep, Unfinished, Outcome, SubmitUnchanged,
            ledger, files, process, queue, pages, history
<1>1. CASE Reserve(j)       BY <1>1 DEF Reserve
<1>2. CASE Refuse(j)        BY <1>2 DEF Refuse
<1>3. CASE InsertFailed(j)  BY <1>3, FaultsTyped DEF InsertFailed, InsertLocked, Fault
<1>4. CASE SpillInput(j)    BY <1>4, FaultsTyped DEF SpillInput, Fault
<1>5. CASE InsertRow(j)     BY <1>5, FaultsTyped DEF InsertRow, InsertLocked, Fault
<1>6. CASE Enqueue(j)       BY <1>6, EnqueueTyped, {} \in SUBSET Page DEF Enqueue
<1>7. CASE Release(j)       BY <1>7 DEF Release
<1> QED BY <1>1, <1>2, <1>3, <1>4, <1>5, <1>6, <1>7 DEF Submit


LEMMA TypeWork ==
  ASSUME TypeOK, NEW w \in Worker, Work(w)
  PROVE  TypeOK'
<1> USE DEF ledger, files, process, queue, pages, history, WorkerUnchanged
<1>a. wk \in [Worker -> WorkerState]
  BY DEF TypeOK
<1>b. wk[w].pc \in PageStep => wk[w].job \in Job /\ wk[w].page \in Page
  BY <1>a, WorkerHolds
<1>c. wk[w].pc \in FinishStep => wk[w].job \in Job
  BY <1>a, WorkerHolds
<1>1. CASE PickFinish(w)
  <2>1. PICK j \in jobs :
          /\ active' \subseteq active \cup Admitted
          /\ waiting' \subseteq waiting
          /\ wk' = [wk EXCEPT ![w] = [pc |-> "finish", job |-> j, page |-> NoPage]]
    BY <1>1 DEF PickFinish
  <2>2. j \in Job /\ Admitted \subseteq Job
    BY DEF TypeOK, Admitted
  <2>3. wk' \in [Worker -> WorkerState]
    BY <2>1, <2>2, <1>a DEF WorkerState, FinishStep
  <2> QED
    BY <1>1, <2>1, <2>2, <2>3 DEF PickFinish, TypeOK
<1>2. CASE PickUnit(w)
  <2>1. PICK j \in active \cup Admitted :
          /\ started' = started \cup {j}
          /\ \E p \in todo[j] :
               /\ todo' = [todo EXCEPT ![j] = @ \ {p}]
               /\ wk' = [wk EXCEPT ![w] =
                    [pc |-> IF j \in started THEN "read" ELSE "mark", job |-> j, page |-> p]]
    BY <1>2 DEF PickUnit
  <2>2. PICK p \in todo[j] :
          /\ todo' = [todo EXCEPT ![j] = @ \ {p}]
          /\ wk' = [wk EXCEPT ![w] =
               [pc |-> IF j \in started THEN "read" ELSE "mark", job |-> j, page |-> p]]
    BY <2>1
  <2>3. j \in Job /\ p \in Page /\ Admitted \subseteq waiting /\ waiting \subseteq Job
    BY DEF TypeOK, Admitted
  <2>4. wk' \in [Worker -> WorkerState]
    BY <2>2, <2>3, <1>a DEF WorkerState, PageStep
  <2>5. todo' \in [Job -> SUBSET Page] /\ started' \subseteq Job
    BY <2>1, <2>2, <2>3 DEF TypeOK
  <2> QED
    BY <1>2, <2>3, <2>4, <2>5 DEF PickUnit, TypeOK
<1>3. CASE MarkProcessing(w)
  <2>1. wk' \in [Worker -> WorkerState]
    BY <1>3, <1>a, GotoPage DEF MarkProcessing, At, PageStep
  <2> QED
    BY <1>3, <2>1, <1>b, FaultsTyped
    DEF MarkProcessing, PageUnchanged, At, PageStep, Fault, TypeOK, Unfinished
<1>4. CASE ReadPage(w)
  <2>1. wk' \in [Worker -> WorkerState]
    BY <1>4, <1>a, GotoPage DEF ReadPage, At, PageStep
  <2> QED
    BY <1>4, <2>1, <1>b, FaultsTyped
    DEF ReadPage, PageUnchanged, At, PageStep, Fault, TypeOK
<1>5. CASE SaveUnit(w)
  <2>1. wk' \in [Worker -> WorkerState]
    BY <1>5, <1>a, GotoPage DEF SaveUnit, At, PageStep
  <2>2. wk[w].job \in Job /\ wk[w].page \in Page
    BY <1>5, <1>b DEF SaveUnit, At, PageStep
  <2>3. units' \in [Job -> SUBSET Page]
    BY <1>5, <2>2 DEF SaveUnit, TypeOK
  <2> QED
    BY <1>5, <2>1, <2>2, <2>3, FaultsTyped
    DEF SaveUnit, PageUnchanged, Fault, TypeOK
<1>6. CASE RecordPage(w)
  <2>1. wk' \in [Worker -> WorkerState]
    BY <1>6, <1>a, RestIdle DEF RecordPage
  <2>2. wk[w].job \in Job /\ wk[w].page \in Page
    BY <1>6, <1>b DEF RecordPage, At, PageStep
  <2>3. done' \in [Job -> SUBSET Page]
    BY <1>6, <2>2 DEF RecordPage, TypeOK
  <2> QED
    BY <1>6, <2>1, <2>3 DEF RecordPage, PageUnchanged, TypeOK
<1>7. CASE RecordError(w)
  <2>1. wk' \in [Worker -> WorkerState]
    BY <1>7, <1>a, RestIdle DEF RecordError
  <2>2. wk[w].job \in Job
    BY <1>7, <1>b DEF RecordError, At, PageStep
  <2>3. todo' \in [Job -> SUBSET Page] /\ erred' \subseteq Job
    BY <1>7, <2>2 DEF RecordError, TypeOK
  <2> QED
    BY <1>7, <2>1, <2>3 DEF RecordError, PageUnchanged, TypeOK
<1>8. CASE Assemble(w)
  <2>1. wk' \in [Worker -> WorkerState]
    BY <1>8, <1>a, GotoFinish, RestIdle DEF Assemble, At, FinishStep
  <2>2. wk[w].job \in Job
    BY <1>8, <1>c DEF Assemble, At, FinishStep
  <2> QED
    BY <1>8, <2>1, <2>2, FaultsTyped DEF Assemble, FinishUnchanged, Fault, TypeOK
<1>9. CASE WriteResult(w)
  <2>1. wk' \in [Worker -> WorkerState]
    BY <1>9, <1>a, GotoFinish DEF WriteResult, At, FinishStep
  <2>2. wk[w].job \in Job
    BY <1>9, <1>c DEF WriteResult, At, FinishStep
  <2> QED
    BY <1>9, <2>1, <2>2, FaultsTyped DEF WriteResult, FinishUnchanged, Fault, TypeOK
<1>10. CASE Commit(w)
  <2>1. wk' \in [Worker -> WorkerState]
    BY <1>10, <1>a, GotoFinish DEF Commit, At, FinishStep
  <2>2. wk[w].job \in Job
    BY <1>10, <1>c DEF Commit, At, FinishStep
  <2> QED
    BY <1>10, <2>1, <2>2, FaultsTyped, {} \in SUBSET Page
    DEF Commit, OutcomeLocked, FinishUnchanged, Fault, TypeOK, Outcome
<1>11. CASE UnlinkInput(w)
  <2>1. wk' \in [Worker -> WorkerState]
    BY <1>11, <1>a, GotoFinish DEF UnlinkInput, At, FinishStep
  <2>2. wk[w].job \in Job
    BY <1>11, <1>c DEF UnlinkInput, At, FinishStep
  <2> QED
    BY <1>11, <2>1, <2>2, FaultsTyped DEF UnlinkInput, FinishUnchanged, Fault, TypeOK
<1>12. CASE UndoResult(w)
  <2>1. wk' \in [Worker -> WorkerState]
    BY <1>12, <1>a, GotoFinish DEF UndoResult, At, FinishStep
  <2>2. wk[w].job \in Job
    BY <1>12, <1>c DEF UndoResult, At, FinishStep
  <2> QED
    BY <1>12, <2>1, <2>2, FaultsTyped DEF UndoResult, FinishUnchanged, Fault, TypeOK
<1>13. CASE PopJob(w)
  BY <1>13, <1>a, RestIdle DEF PopJob, FinishUnchanged, TypeOK
<1>14. CASE FailLocked(w)
  <2>1. wk' \in [Worker -> WorkerState]
    BY <1>14, <1>a, GotoFinish, RestIdle DEF FailLocked, At, FinishStep
  <2>2. wk[w].job \in Job
    BY <1>14, <1>c DEF FailLocked, At, FinishStep
  <2> QED
    BY <1>14, <2>1, <2>2, {} \in SUBSET Page DEF FailLocked, TypeOK
<1>15. CASE FailRow(w)
  <2>1. wk' \in [Worker -> WorkerState]
    BY <1>15, <1>a, GotoFinish, RestIdle DEF FailRow, KeepTerminal, At, FinishStep
  <2>2. wk[w].job \in Job
    BY <1>15, <1>c DEF FailRow, At, FinishStep
  <2> QED
    BY <1>15, <2>1, <2>2, FaultsTyped, {} \in SUBSET Page
    DEF FailRow, OutcomeLocked, KeepTerminal, FinishUnchanged, Fault, TypeOK, Outcome
<1>16. CASE FailUnlink(w)
  <2>1. wk' \in [Worker -> WorkerState]
    BY <1>16, <1>a, GotoFinish, RestIdle DEF FailUnlink, KeepTerminal, At, FinishStep
  <2>2. wk[w].job \in Job
    BY <1>16, <1>c DEF FailUnlink, At, FinishStep
  <2> QED
    BY <1>16, <2>1, <2>2, FaultsTyped
    DEF FailUnlink, KeepTerminal, FinishUnchanged, Fault, TypeOK
<1> QED
  BY <1>1, <1>2, <1>3, <1>4, <1>5, <1>6, <1>7, <1>8, <1>9, <1>10, <1>11, <1>12, <1>13,
     <1>14, <1>15, <1>16 DEF Work

\* A process that dies or gives up its start leaves only files and the ledger.
LEMMA TypeLoseMemory ==
  ASSUME TypeOK, LoseMemory
  PROVE  /\ toRecover' \subseteq Job
         /\ sub' \in [Job -> SubStep]
         /\ wk' \in [Worker -> WorkerState]
         /\ reserved' \subseteq Job
         /\ jobs' \subseteq Job /\ waiting' \subseteq Job /\ active' \subseteq Job
         /\ ticket' \in [Job -> Nat] /\ nextTicket' \in Nat
         /\ todo' \in [Job -> SUBSET Page] /\ done' \in [Job -> SUBSET Page]
         /\ started' \subseteq Job /\ erred' \subseteq Job
         /\ terminal' \subseteq Job /\ data' \subseteq Job
<1>1. sub' \in [Job -> SubStep]
  BY DEF TypeOK, LoseMemory, Hangup, SubStep
<1>2. wk' \in [Worker -> WorkerState]
  BY DEF LoseMemory, WorkerState
<1> QED
  BY <1>1, <1>2 DEF LoseMemory

LEMMA TypeLife ==
  ASSUME TypeOK, Life
  PROVE  TypeOK'
<1> USE DEF ledger, files, process, queue, pages, history
<1>1. CASE Start
  <2>1. units' \in [Job -> SUBSET Page]
    BY <1>1 DEF Start, TypeOK
  <2>2. toRecover' \subseteq Job /\ inputs' \subseteq Job /\ results' \subseteq Job
    BY <1>1 DEF Start, TypeOK, UnfinishedRows
  <2> QED
    BY <1>1, <2>1, <2>2 DEF Start, TypeOK
<1>2. CASE StartDone
  BY <1>2 DEF StartDone, TypeOK
<1>3. ASSUME NEW j \in Job, RecoverRow(j)
      PROVE  TypeOK'
  <2>1. units[j] \in SUBSET Page
    BY DEF TypeOK
  <2> QED
    BY <1>3, <2>1, EnqueueTyped DEF RecoverRow, TypeOK
<1>4. ASSUME NEW j \in Job, RecoverFailed(j)
      PROVE  TypeOK'
  BY <1>4, FaultsTyped, {} \in SUBSET Page
  DEF RecoverFailed, OutcomeLocked, Fault, TypeOK, Outcome
<1>5. ASSUME NEW j \in Job, RecoverAborted(j)
      PROVE  TypeOK'
  <2>1. /\ row' \in [Job -> Unfinished \cup Outcome \cup {"none"}]
        /\ units' \in [Job -> SUBSET Page]
    BY <1>5, {} \in SUBSET Page DEF RecoverAborted, OutcomeLocked, TypeOK, Outcome
  <2>2. faulted' \subseteq Job \X FaultKinds /\ restarts' \in Nat
    BY <1>5, FaultsTyped DEF RecoverAborted, TypeOK
  <2> QED
    BY <1>5, <2>1, <2>2, TypeLoseMemory DEF RecoverAborted, TypeOK
<1>6. CASE Shutdown
  BY <1>6 DEF Shutdown, TypeOK
<1>7. CASE Exit
  BY <1>7, TypeLoseMemory DEF Exit, TypeOK
<1>8. CASE Crash
  BY <1>8, TypeLoseMemory DEF Crash, TypeOK
<1> QED
  BY <1>1, <1>2, <1>3, <1>4, <1>5, <1>6, <1>7, <1>8 DEF Life

LEMMA TypeStep == TypeOK /\ [Next]_vars => TypeOK'
<1> SUFFICES ASSUME TypeOK, [Next]_vars
             PROVE  TypeOK'
  OBVIOUS
<1>1. ASSUME NEW j \in Job, Submit(j) PROVE TypeOK'
  BY <1>1, TypeSubmit
<1>2. ASSUME NEW w \in Worker, Work(w) PROVE TypeOK'
  BY <1>2, TypeWork
<1>3. CASE Life
  BY <1>3, TypeLife
<1>4. CASE UNCHANGED vars
  BY <1>4 DEF vars, ledger, files, process, queue, pages, history, TypeOK
<1> QED
  BY <1>1, <1>2, <1>3, <1>4 DEF Next

LEMMA TypeInit == Init => TypeOK
<1> SUFFICES ASSUME Init PROVE TypeOK
  OBVIOUS
<1>1. wk \in [Worker -> WorkerState]
  BY DEF Init, WorkerState
<1> QED
  BY <1>1 DEF Init, TypeOK, SubStep

\* Every variable keeps its type, for any sets of jobs, pages and workers.
THEOREM TypeCorrect == Spec => []TypeOK
<1> QED
  BY TypeInit, TypeStep, PTL DEF Spec


-----------------------------------------------------------------------------
(* The inductive invariant, without its type and its count *)

Rows ==
  /\ SubmissionOrder
  /\ KnownRows
  /\ SettledRows
  /\ CoveredRows
  /\ InputPresentWhileUnfinished
  /\ CheckpointsOnlyWhileUnfinished

LEMMA RowsSubmit ==
  ASSUME TypeOK, Rows, NEW j \in Job, Submit(j)
  PROVE  Rows'
<1> USE DEF Rows, SubmissionOrder, KnownRows, SettledRows, CoveredRows, Running,
            InputPresentWhileUnfinished, CheckpointsOnlyWhileUnfinished, UnfinishedRows,
            Submitting, Unfinished, Outcome, SubmitUnchanged, TypeOK,
            ledger, files, process, queue, pages
<1>1. CASE Reserve(j)       BY <1>1 DEF Reserve
<1>2. CASE Refuse(j)        BY <1>2 DEF Refuse
<1>3. CASE InsertFailed(j)
  <2>1. /\ row[j] = "none" /\ j \in reserved
        /\ row' \in {row, [row EXCEPT ![j] = "failed"]} /\ units' = units
    BY <1>3 DEF InsertFailed, InsertLocked
  <2>2. \A w \in Worker : wk[w].pc # "idle" => wk[w].job \in Job \ {j}
    BY <2>1, WorkerHolds
  <2>3. KnownRows' /\ SettledRows'
    BY <1>3, <2>1, <2>2 DEF InsertFailed
  <2>4. SubmissionOrder'
    BY <1>3, <2>1 DEF InsertFailed, InsertLocked
  <2>5. CoveredRows'
    BY <1>3, <2>1 DEF InsertFailed, InsertLocked
  <2>6. InputPresentWhileUnfinished' /\ CheckpointsOnlyWhileUnfinished'
    BY <1>3, <2>1 DEF InsertFailed, InsertLocked
  <2> QED
    BY <2>3, <2>4, <2>5, <2>6
<1>4. CASE SpillInput(j)    BY <1>4 DEF SpillInput
<1>5. CASE InsertRow(j)
  <2>1. /\ row[j] = "none" /\ j \in reserved
        /\ row' \in {row, [row EXCEPT ![j] = "pending"]} /\ units' = units
    BY <1>5 DEF InsertRow, InsertLocked
  <2>2. \A w \in Worker : wk[w].pc # "idle" => wk[w].job \in Job \ {j}
    BY <2>1, WorkerHolds
  <2>3. KnownRows' /\ SettledRows'
    BY <1>5, <2>1, <2>2 DEF InsertRow
  <2>4. SubmissionOrder'
    BY <1>5, <2>1 DEF InsertRow, InsertLocked
  <2>5. CoveredRows'
    BY <1>5, <2>1 DEF InsertRow, InsertLocked
  <2>6. InputPresentWhileUnfinished' /\ CheckpointsOnlyWhileUnfinished'
    BY <1>5, <2>1 DEF InsertRow, InsertLocked
  <2> QED
    BY <2>3, <2>4, <2>5, <2>6
<1>6. CASE Enqueue(j)       BY <1>6 DEF Enqueue, EnqueueLocked
<1>7. CASE Release(j)       BY <1>7 DEF Release
<1> QED BY <1>1, <1>2, <1>3, <1>4, <1>5, <1>6, <1>7 DEF Submit


\* A step of a worker that leaves rows, files and _jobs alone, and takes no step
\* behind the transaction, keeps the invariant.
LEMMA RowsQuiet ==
  ASSUME Rows, UNCHANGED <<row, units, inputs, jobs, sub, proc, toRecover, reserved>>,
         KnownRows', SettledRows'
  PROVE  Rows'
BY DEF Rows, SubmissionOrder, CoveredRows, Running, Submitting, UnfinishedRows,
       InputPresentWhileUnfinished, CheckpointsOnlyWhileUnfinished

\* A worker that moves on with the job it has, or drops it.
LEMMA MoveOn ==
  ASSUME wk \in [Worker -> WorkerState], KnownRows, SettledRows, NEW w \in Worker,
         NEW step, step \notin {"clean", "failclean", "pop"}, wk[w].pc # "idle",
         Goto(w, step) \/ Rest(w),
         row' = row, jobs' = jobs, waiting' = waiting, active' \subseteq active
  PROVE  KnownRows' /\ SettledRows'
<1>1. \A v \in Worker : wk'[v].pc # "idle" => wk[v].pc # "idle" /\ wk'[v].job = wk[v].job
  BY DEF Goto, Rest, Idle, WorkerState
<1>2. \A v \in Worker : wk'[v].pc \in {"clean", "failclean", "pop"} =>
        wk[v].pc \in {"clean", "failclean", "pop"} /\ wk'[v].job = wk[v].job
  BY DEF Goto, Rest, Idle, WorkerState
<1> QED
  BY <1>1, <1>2 DEF KnownRows, SettledRows

\* The transaction that records an outcome.
LEMMA RowsOutcome ==
  ASSUME TypeOK, Rows, NEW j \in Job, row[j] # "none", NEW status \in Outcome,
         OutcomeLocked(j, status),
         sub' = sub, proc' = proc, reserved' = reserved, jobs' = jobs,
         inputs \ {j} \subseteq inputs', proc # "down", toRecover' = toRecover \ {j}
  PROVE  /\ SubmissionOrder' /\ CoveredRows'
         /\ InputPresentWhileUnfinished' /\ CheckpointsOnlyWhileUnfinished'
<1>1. /\ \A i \in Job : row'[i] = IF i = j THEN status ELSE row[i]
      /\ \A i \in Job : units'[i] = IF i = j THEN {} ELSE units[i]
  BY DEF OutcomeLocked, TypeOK
<1>2. UnfinishedRows' = UnfinishedRows \ {j}
  BY <1>1 DEF UnfinishedRows, Unfinished, Outcome
<1>3. SubmissionOrder'
  BY <1>1 DEF Rows, SubmissionOrder, Running, Outcome
<1>4. CoveredRows'
  BY <1>1, <1>2 DEF Rows, CoveredRows, Running, Unfinished, Outcome
<1>5. InputPresentWhileUnfinished' /\ CheckpointsOnlyWhileUnfinished'
  BY <1>1, <1>2 DEF Rows, InputPresentWhileUnfinished, CheckpointsOnlyWhileUnfinished
<1> QED
  BY <1>3, <1>4, <1>5

\* The worker that recorded the outcome goes on to its clean-up.
LEMMA OutcomeMovesOn ==
  ASSUME TypeOK, KnownRows, SettledRows, NEW w \in Worker, wk[w].pc # "idle",
         NEW status \in Outcome, OutcomeLocked(wk[w].job, status),
         NEW step, Goto(w, step), step # "idle",
         jobs' = jobs, waiting' = waiting, active' = active
  PROVE  KnownRows' /\ SettledRows'
<1>1. wk[w].job \in Job /\ \A v \in Worker : wk[v].pc # "idle" => wk[v].job \in Job
  BY WorkerHolds DEF TypeOK
<1>2. \A i \in Job : row'[i] = IF i = wk[w].job THEN status ELSE row[i]
  BY <1>1 DEF OutcomeLocked, TypeOK
<1>3. \A v \in Worker : /\ wk'[v].job = wk[v].job
                        /\ v # w => wk'[v].pc = wk[v].pc
  BY DEF Goto, TypeOK, WorkerState, Idle
<1>4. KnownRows'
  BY <1>1, <1>2, <1>3 DEF KnownRows, Outcome, TypeOK
<1>5. SettledRows'
  BY <1>1, <1>2, <1>3 DEF SettledRows
<1> QED
  BY <1>4, <1>5

LEMMA RowsWork ==
  ASSUME TypeOK, Rows, NEW w \in Worker, Work(w)
  PROVE  Rows'
<1> USE DEF ledger, files, process, queue, pages, history, WorkerUnchanged
<1>a. wk \in [Worker -> WorkerState] /\ KnownRows /\ SettledRows
  BY DEF TypeOK, Rows
<1>b. wk[w].pc # "idle" => wk[w].job \in Job
  BY <1>a, WorkerHolds
<1>1. CASE PickFinish(w)
  <2>1. PICK j \in jobs :
          /\ active' \subseteq active \cup Admitted
          /\ waiting' \subseteq waiting
          /\ wk' = [wk EXCEPT ![w] = [pc |-> "finish", job |-> j, page |-> NoPage]]
    BY <1>1 DEF PickFinish
  <2>2. Admitted \subseteq waiting /\ row' = row /\ jobs' = jobs
    BY <1>1 DEF Admitted, PickFinish
  <2>3. KnownRows' /\ SettledRows'
    BY <1>a, <2>1, <2>2 DEF KnownRows, SettledRows
  <2> QED
    BY <1>1, <2>3, RowsQuiet DEF PickFinish
<1>2. CASE PickUnit(w)
  <2>1. PICK j \in active \cup Admitted, step \in {"mark", "read"} :
          \E p \in Page : wk' = [wk EXCEPT ![w] = [pc |-> step, job |-> j, page |-> p]]
    BY <1>2 DEF PickUnit, TypeOK, Admitted
  <2>2. /\ Admitted \subseteq waiting /\ row' = row /\ jobs' = jobs
        /\ active' = active \cup Admitted /\ waiting' \subseteq waiting
    BY <1>2 DEF Admitted, PickUnit
  <2>3. KnownRows' /\ SettledRows'
    BY <1>a, <2>1, <2>2 DEF KnownRows, SettledRows
  <2> QED
    BY <1>2, <2>3, RowsQuiet DEF PickUnit
<1>3. CASE MarkProcessing(w)
  <2>1. \A j \in Job : /\ row'[j] \in Unfinished <=> row[j] \in Unfinished
                       /\ row'[j] \in Outcome <=> row[j] \in Outcome
                       /\ row'[j] = "none" <=> row[j] = "none"
    BY <1>3 DEF MarkProcessing, TypeOK, Unfinished, Outcome
  <2>2. /\ \A v \in Worker : wk'[v].job = wk[v].job
        /\ \A v \in Worker : wk'[v].pc # "idle" => wk[v].pc # "idle"
        /\ \A v \in Worker : wk'[v].pc \in {"clean", "failclean", "pop"} => wk'[v].pc = wk[v].pc
    BY <1>3, <1>a DEF MarkProcessing, At, Goto, WorkerState, Idle
  <2>3. KnownRows' /\ SettledRows'
    BY <1>3, <1>a, <2>1, <2>2, WorkerHolds
    DEF MarkProcessing, PageUnchanged, KnownRows, SettledRows, TypeOK
  <2> QED
    BY <1>3, <2>1, <2>3
    DEF MarkProcessing, PageUnchanged, Rows, SubmissionOrder, CoveredRows, Running,
        Submitting, UnfinishedRows, InputPresentWhileUnfinished,
        CheckpointsOnlyWhileUnfinished, TypeOK
<1>4. CASE ReadPage(w)
  <2>1. KnownRows' /\ SettledRows'
    BY <1>4, <1>a, MoveOn DEF ReadPage, At, PageUnchanged
  <2> QED
    BY <1>4, <2>1, RowsQuiet DEF ReadPage, PageUnchanged
<1>5. CASE SaveUnit(w)
  <2>1. KnownRows' /\ SettledRows'
    BY <1>5, <1>a, MoveOn DEF SaveUnit, At, PageUnchanged
  <2>2. CheckpointsOnlyWhileUnfinished'
    BY <1>5, <1>b DEF SaveUnit, At, Rows, CheckpointsOnlyWhileUnfinished, PageUnchanged, TypeOK
  <2> QED
    BY <1>5, <2>1, <2>2
    DEF SaveUnit, PageUnchanged, Rows, SubmissionOrder, CoveredRows, Running, Submitting,
        UnfinishedRows, InputPresentWhileUnfinished
<1>6. CASE RecordPage(w)
  <2>1. KnownRows' /\ SettledRows'
    BY <1>6, <1>a, MoveOn DEF RecordPage, At, PageUnchanged
  <2> QED
    BY <1>6, <2>1, RowsQuiet DEF RecordPage, PageUnchanged
<1>7. CASE RecordError(w)
  <2>1. KnownRows' /\ SettledRows'
    BY <1>7, <1>a, MoveOn DEF RecordError, At, PageUnchanged
  <2> QED
    BY <1>7, <2>1, RowsQuiet DEF RecordError, PageUnchanged
<1>8. CASE Assemble(w)
  <2>1. KnownRows' /\ SettledRows'
    BY <1>8, <1>a, MoveOn DEF Assemble, At, FinishUnchanged
  <2> QED
    BY <1>8, <2>1, RowsQuiet DEF Assemble, FinishUnchanged
<1>9. CASE WriteResult(w)
  <2>1. KnownRows' /\ SettledRows'
    BY <1>9, <1>a, MoveOn DEF WriteResult, At, FinishUnchanged
  <2> QED
    BY <1>9, <2>1, RowsQuiet DEF WriteResult, FinishUnchanged
<1>10. CASE Commit(w)
  <2>1. /\ wk[w].job \in Job /\ row[wk[w].job] # "none"
        /\ Running /\ wk[w].pc = "commit" /\ FinishUnchanged
        /\ UNCHANGED <<inputs, jobs, waiting, active>>
    BY <1>10, <1>a, <1>b DEF Commit, At, KnownRows
  <2>2. CASE row' = row /\ units' = units /\ Goto(w, "undo")
    <3>1. KnownRows' /\ SettledRows'
      BY <2>1, <2>2, <1>a, MoveOn
    <3> QED
      BY <2>1, <2>2, <3>1, RowsQuiet DEF FinishUnchanged
  <2>3. CASE OutcomeLocked(wk[w].job, "completed") /\ Goto(w, "clean")
    <3>1. /\ "completed" \in Outcome /\ wk[w].pc # "idle"
          /\ jobs' = jobs /\ waiting' = waiting /\ active' = active
      BY <2>1 DEF Outcome
    <3>2. KnownRows' /\ SettledRows'
      BY <2>3, <1>a, <3>1, OutcomeMovesOn
    <3>3. /\ sub' = sub /\ proc' = proc /\ reserved' = reserved
          /\ proc # "down" /\ toRecover' = toRecover \ {wk[w].job}
          /\ inputs \ {wk[w].job} \subseteq inputs'
      BY <2>1 DEF FinishUnchanged, Running, Rows, CoveredRows
    <3>4. /\ SubmissionOrder' /\ CoveredRows'
          /\ InputPresentWhileUnfinished' /\ CheckpointsOnlyWhileUnfinished'
      BY <2>1, <2>3, <3>1, <3>3, RowsOutcome
    <3> QED
      BY <3>2, <3>4 DEF Rows
  <2> QED
    BY <1>10, <2>2, <2>3 DEF Commit
<1>11. CASE UnlinkInput(w)
  <2>1. /\ wk[w].job \in Job /\ row[wk[w].job] \in Outcome
        /\ row' = row /\ jobs' = jobs /\ waiting' = waiting /\ active' = active
        /\ inputs' \in {inputs, inputs \ {wk[w].job}}
        /\ Goto(w, "pop") \/ Goto(w, "undo")
    BY <1>11, <1>a, <1>b DEF UnlinkInput, At, SettledRows
  <2>2. KnownRows' /\ SettledRows'
    BY <2>1, <1>a DEF Goto, KnownRows, SettledRows, WorkerState, Idle, Outcome
  <2> QED
    BY <1>11, <2>1, <2>2
    DEF UnlinkInput, FinishUnchanged, Rows, SubmissionOrder, CoveredRows, Running,
        Submitting, UnfinishedRows, Unfinished, Outcome, InputPresentWhileUnfinished,
        CheckpointsOnlyWhileUnfinished
<1>12. CASE UndoResult(w)
  <2>1. KnownRows' /\ SettledRows'
    BY <1>12, <1>a, MoveOn DEF UndoResult, At, FinishUnchanged
  <2> QED
    BY <1>12, <2>1, RowsQuiet DEF UndoResult, FinishUnchanged
<1>13. CASE PopJob(w)
  <2>1. wk[w].job \in Job /\ row[wk[w].job] \in Outcome
    BY <1>13, <1>a, <1>b DEF PopJob, At, SettledRows
  <2>2. KnownRows' /\ SettledRows'
    BY <1>13, <1>a DEF PopJob, Rest, Idle, KnownRows, SettledRows, WorkerState
  <2> QED
    BY <1>13, <2>1, <2>2
    DEF PopJob, FinishUnchanged, Rows, SubmissionOrder, CoveredRows, Running, Submitting,
        UnfinishedRows, Unfinished, Outcome, InputPresentWhileUnfinished,
        CheckpointsOnlyWhileUnfinished
<1>14. CASE FailLocked(w)
  <2>1. KnownRows' /\ SettledRows'
    BY <1>14, <1>a, MoveOn DEF FailLocked, At
  <2> QED
    BY <1>14, <2>1, RowsQuiet DEF FailLocked
<1>15. CASE FailRow(w)
  <2>1. /\ wk[w].job \in Job /\ row[wk[w].job] # "none"
        /\ Running /\ wk[w].pc = "failrow" /\ FinishUnchanged
        /\ UNCHANGED <<inputs, jobs, waiting, active>>
    BY <1>15, <1>a, <1>b DEF FailRow, At, KnownRows
  <2>2. CASE row' = row /\ units' = units /\ Rest(w)
    <3>1. KnownRows' /\ SettledRows'
      BY <2>1, <2>2, <1>a, MoveOn
    <3> QED
      BY <2>1, <2>2, <3>1, RowsQuiet DEF FinishUnchanged
  <2>3. CASE /\ OutcomeLocked(wk[w].job, "failed")
             /\ Goto(w, "pop") \/ Goto(w, "failclean")
    <3>1. /\ "failed" \in Outcome /\ wk[w].pc # "idle"
          /\ jobs' = jobs /\ waiting' = waiting /\ active' = active
      BY <2>1 DEF Outcome
    <3>2. Goto(w, "pop") => KnownRows' /\ SettledRows'
      BY <2>3, <1>a, <3>1, OutcomeMovesOn
    <3>3. Goto(w, "failclean") => KnownRows' /\ SettledRows'
      BY <2>3, <1>a, <3>1, OutcomeMovesOn
    <3>4. /\ sub' = sub /\ proc' = proc /\ reserved' = reserved
          /\ proc # "down" /\ toRecover' = toRecover \ {wk[w].job}
          /\ inputs \ {wk[w].job} \subseteq inputs'
      BY <2>1 DEF FinishUnchanged, Running, Rows, CoveredRows
    <3>5. /\ SubmissionOrder' /\ CoveredRows'
          /\ InputPresentWhileUnfinished' /\ CheckpointsOnlyWhileUnfinished'
      BY <2>1, <2>3, <3>1, <3>4, RowsOutcome
    <3> QED
      BY <2>3, <3>2, <3>3, <3>5 DEF Rows
  <2> QED
    BY <1>15, <2>2, <2>3 DEF FailRow, KeepTerminal
<1>16. CASE FailUnlink(w)
  <2>1. /\ wk[w].job \in Job /\ row[wk[w].job] \in Outcome
        /\ row' = row /\ jobs' = jobs /\ waiting' = waiting /\ active' = active
        /\ inputs' \in {inputs, inputs \ {wk[w].job}}
        /\ Goto(w, "pop") \/ Rest(w)
    BY <1>16, <1>a, <1>b DEF FailUnlink, KeepTerminal, At, SettledRows
  <2>2. KnownRows' /\ SettledRows'
    BY <2>1, <1>a DEF Goto, Rest, KnownRows, SettledRows, WorkerState, Idle, Outcome
  <2> QED
    BY <1>16, <2>1, <2>2
    DEF FailUnlink, FinishUnchanged, Rows, SubmissionOrder, CoveredRows, Running,
        Submitting, UnfinishedRows, Unfinished, Outcome, InputPresentWhileUnfinished,
        CheckpointsOnlyWhileUnfinished
<1> QED
  BY <1>1, <1>2, <1>3, <1>4, <1>5, <1>6, <1>7, <1>8, <1>9, <1>10, <1>11, <1>12, <1>13,
     <1>14, <1>15, <1>16 DEF Work


LEMMA RowsLife ==
  ASSUME TypeOK, Rows, Life
  PROVE  Rows'
<1> USE DEF ledger, files, process, queue, pages, history
<1>a. /\ SubmissionOrder /\ KnownRows /\ SettledRows /\ CoveredRows
      /\ InputPresentWhileUnfinished /\ CheckpointsOnlyWhileUnfinished
  BY DEF Rows
<1>b. ASSUME LoseMemory, proc' = "down", inputs' = inputs,
             \A i \in Job : row'[i] = row[i] \/ (row[i] \in Unfinished /\ row'[i] \in Outcome),
             \A i \in Job : units'[i] = units[i] \/ units'[i] = {},
             \A i \in Job : row'[i] = row[i] \/ units'[i] = {}
      PROVE  Rows'
  <2>1. SubmissionOrder'
    <3>1. \A i \in Job : /\ sub'[i] \in {"new", "accepted", "errored", "refused", "lost"}
                         /\ sub'[i] = "new" => sub[i] = "new"
      BY <1>b DEF LoseMemory, Hangup
    <3>2. \A i \in Job : sub[i] = "new" => row'[i] = "none"
      BY <1>a, <1>b DEF SubmissionOrder, Unfinished
    <3> QED
      BY <3>1, <3>2 DEF SubmissionOrder, Submitting
  <2>2. KnownRows' /\ SettledRows'
    BY <1>b DEF LoseMemory, Idle, KnownRows, SettledRows
  <2>3. CoveredRows'
    BY <1>b, <2>1 DEF LoseMemory, Hangup, CoveredRows, Running, TypeOK
  <2>4. InputPresentWhileUnfinished'
    BY <1>a, <1>b DEF InputPresentWhileUnfinished, UnfinishedRows, Unfinished, Outcome
  <2>5. CheckpointsOnlyWhileUnfinished'
    BY <1>a, <1>b DEF CheckpointsOnlyWhileUnfinished
  <2> QED
    BY <2>1, <2>2, <2>3, <2>4, <2>5 DEF Rows
<1>1. CASE Start
  <2>1. UnfinishedRows' = UnfinishedRows /\ toRecover' = UnfinishedRows
    BY <1>1 DEF Start, UnfinishedRows
  <2>2. InputPresentWhileUnfinished'
    BY <1>1, <1>a, <2>1 DEF Start, InputPresentWhileUnfinished
  <2>3. CheckpointsOnlyWhileUnfinished'
    BY <1>1 DEF Start, CheckpointsOnlyWhileUnfinished
  <2>4. SubmissionOrder' /\ KnownRows' /\ SettledRows'
    BY <1>1, <1>a DEF Start, SubmissionOrder, KnownRows, SettledRows, Submitting, Running
  <2>5. CoveredRows'
    BY <1>1, <1>a, <2>1 DEF Start, CoveredRows, Running
  <2> QED
    BY <2>2, <2>3, <2>4, <2>5 DEF Rows
<1>2. CASE StartDone
  BY <1>2
  DEF StartDone, Rows, SubmissionOrder, KnownRows, SettledRows, CoveredRows, Running,
      InputPresentWhileUnfinished, CheckpointsOnlyWhileUnfinished, UnfinishedRows
<1>3. ASSUME NEW j \in Job, RecoverRow(j)
      PROVE  Rows'
  <2>1. j \in toRecover /\ row[j] # "none"
    BY <1>3, <1>a DEF RecoverRow, NextRow, CoveredRows, UnfinishedRows, Unfinished
  <2> QED
    BY <1>3, <2>1
    DEF RecoverRow, EnqueueLocked, Rows, SubmissionOrder, KnownRows, SettledRows, CoveredRows,
        Running, InputPresentWhileUnfinished, CheckpointsOnlyWhileUnfinished, UnfinishedRows
<1>4. ASSUME NEW j \in Job, RecoverFailed(j)
      PROVE  Rows'
  <2>1. j \in toRecover /\ row[j] # "none" /\ "failed" \in Outcome
    BY <1>4, <1>a DEF RecoverFailed, NextRow, CoveredRows, UnfinishedRows, Unfinished, Outcome
  <2>2. /\ OutcomeLocked(j, "failed")
        /\ sub' = sub /\ proc' = proc /\ reserved' = reserved /\ jobs' = jobs
        /\ proc # "down" /\ toRecover' = toRecover \ {j}
        /\ inputs \ {j} \subseteq inputs'
    BY <1>4 DEF RecoverFailed
  <2>3. /\ SubmissionOrder' /\ CoveredRows'
        /\ InputPresentWhileUnfinished' /\ CheckpointsOnlyWhileUnfinished'
    BY <2>1, <2>2, RowsOutcome
  <2>4. \A i \in Job : row'[i] = IF i = j THEN "failed" ELSE row[i]
    BY <2>2 DEF OutcomeLocked, TypeOK
  <2>5. \A w \in Worker : wk[w].pc # "idle" => wk[w].job \in Job
    BY WorkerHolds DEF TypeOK
  <2>6. wk' = wk /\ waiting' = waiting /\ active' = active
    BY <1>4 DEF RecoverFailed
  <2>7. KnownRows'
    BY <1>a, <2>2, <2>4, <2>5, <2>6 DEF KnownRows, TypeOK
  <2>8. SettledRows'
    BY <1>a, <2>1, <2>4, <2>5, <2>6 DEF SettledRows
  <2> QED
    BY <2>3, <2>7, <2>8 DEF Rows
<1>5. ASSUME NEW j \in Job, RecoverAborted(j)
      PROVE  Rows'
  <2>1. j \in toRecover /\ row[j] \in Unfinished
    BY <1>5, <1>a DEF RecoverAborted, NextRow, CoveredRows, UnfinishedRows
  <2>2. (row' = row /\ units' = units) \/ OutcomeLocked(j, "failed")
    BY <1>5 DEF RecoverAborted
  <2>3. /\ \A i \in Job : row'[i] = row[i] \/ (row[i] \in Unfinished /\ row'[i] \in Outcome)
        /\ \A i \in Job : units'[i] = units[i] \/ units'[i] = {}
        /\ \A i \in Job : row'[i] = row[i] \/ units'[i] = {}
    <3>1. CASE OutcomeLocked(j, "failed")
      <4>1. \A i \in Job : /\ row'[i] = IF i = j THEN "failed" ELSE row[i]
                           /\ units'[i] = IF i = j THEN {} ELSE units[i]
        BY <3>1 DEF OutcomeLocked, TypeOK
      <4> QED
        BY <2>1, <4>1 DEF Outcome
    <3> QED
      BY <2>2, <3>1
  <2> QED
    BY <1>5, <1>b, <2>3 DEF RecoverAborted
<1>6. CASE Shutdown
  BY <1>6
  DEF Shutdown, Rows, SubmissionOrder, KnownRows, SettledRows, CoveredRows, Running,
      InputPresentWhileUnfinished, CheckpointsOnlyWhileUnfinished, UnfinishedRows
<1>7. CASE Exit
  <2>1. LoseMemory /\ proc' = "down" /\ inputs' = inputs /\ row' = row /\ units' = units
    BY <1>7 DEF Exit
  <2> QED
    BY <2>1, <1>b
<1>8. CASE Crash
  <2>1. LoseMemory /\ proc' = "down" /\ inputs' = inputs /\ row' = row /\ units' = units
    BY <1>8 DEF Crash
  <2> QED
    BY <2>1, <1>b
<1> QED
  BY <1>1, <1>2, <1>3, <1>4, <1>5, <1>6, <1>7, <1>8 DEF Life

LEMMA RowsInit == Init => Rows
BY DEF Init, Rows, SubmissionOrder, KnownRows, SettledRows, CoveredRows, Running, Idle,
       Submitting, InputPresentWhileUnfinished, CheckpointsOnlyWhileUnfinished,
       UnfinishedRows, Unfinished

LEMMA RowsStep ==
  ASSUME TypeOK, Rows, [Next]_vars
  PROVE  Rows'
<1>1. ASSUME NEW j \in Job, Submit(j) PROVE Rows'
  BY <1>1, RowsSubmit
<1>2. ASSUME NEW w \in Worker, Work(w) PROVE Rows'
  BY <1>2, RowsWork
<1>3. CASE Life
  BY <1>3, RowsLife
<1>4. CASE UNCHANGED vars
  BY <1>4
  DEF vars, ledger, files, process, queue, Rows, SubmissionOrder, KnownRows, SettledRows,
      CoveredRows, Running, InputPresentWhileUnfinished, CheckpointsOnlyWhileUnfinished,
      UnfinishedRows
<1> QED
  BY <1>1, <1>2, <1>3, <1>4 DEF Next

-----------------------------------------------------------------------------
(* The limit on unfinished jobs *)

\* What the limit is about: the rows, the queue and the submissions in between.
Load == UnfinishedRows \cup jobs \cup reserved

\* Only the limit check lets a job in.
LEMMA LoadGrowsAtReserve ==
  ASSUME TypeOK, Rows, [Next]_vars, \A j \in Job : ~Reserve(j)
  PROVE  Load' \subseteq Load
<1> USE DEF ledger, files, process, queue, pages, history
<1>1. ASSUME NEW j \in Job, Submit(j)
      PROVE  Load' \subseteq Load
  <2>1. sub[j] \in Submitting => j \in reserved
    BY DEF Rows, SubmissionOrder
  <2> QED
    BY <1>1, <2>1
    DEF Submit, Refuse, InsertFailed, SpillInput, InsertRow, Enqueue, Release, InsertLocked,
        EnqueueLocked, Submitting, SubmitUnchanged, Load, UnfinishedRows, TypeOK
<1>2. ASSUME NEW w \in Worker, Work(w)
      PROVE  Load' \subseteq Load
  <2>1. jobs' \subseteq jobs /\ reserved' = reserved
    BY <1>2
    DEF Work, PickFinish, PickUnit, MarkProcessing, ReadPage, SaveUnit, RecordPage,
        RecordError, Assemble, WriteResult, Commit, UnlinkInput, UndoResult, PopJob,
        FailLocked, FailRow, FailUnlink, WorkerUnchanged, PageUnchanged, FinishUnchanged
  <2>2. \/ row' = row
        \/ row' = [row EXCEPT ![wk[w].job] = IF @ \in Unfinished THEN "processing" ELSE @]
        \/ \E status \in Outcome : row' = [row EXCEPT ![wk[w].job] = status]
    BY <1>2
    DEF Work, PickFinish, PickUnit, MarkProcessing, ReadPage, SaveUnit, RecordPage,
        RecordError, Assemble, WriteResult, Commit, UnlinkInput, UndoResult, PopJob,
        FailLocked, FailRow, FailUnlink, WorkerUnchanged, PageUnchanged, FinishUnchanged,
        OutcomeLocked, Outcome
  <2>3. UnfinishedRows' \subseteq UnfinishedRows
    BY <2>2 DEF UnfinishedRows, Unfinished, Outcome, TypeOK
  <2> QED
    BY <2>1, <2>3 DEF Load
<1>3. CASE Life
  <2>1. toRecover \subseteq UnfinishedRows
    BY DEF Rows, CoveredRows
  <2>2. reserved' \subseteq reserved /\ jobs' \subseteq jobs \cup toRecover
    BY <1>3
    DEF Life, Start, StartDone, RecoverRow, NextRow, RecoverFailed, RecoverAborted, Shutdown,
        Exit, Crash, EnqueueLocked, LoseMemory
  <2>3. row' = row \/ \E j \in Job : row' = [row EXCEPT ![j] = "failed"]
    BY <1>3
    DEF Life, Start, StartDone, RecoverRow, RecoverFailed, RecoverAborted, Shutdown, Exit,
        Crash, OutcomeLocked
  <2>4. UnfinishedRows' \subseteq UnfinishedRows
    BY <2>3 DEF UnfinishedRows, Unfinished, TypeOK
  <2> QED
    BY <2>1, <2>2, <2>4 DEF Load
<1>4. CASE UNCHANGED vars
  BY <1>4 DEF vars, Load, UnfinishedRows
<1> QED
  BY <1>1, <1>2, <1>3, <1>4 DEF Next

LEMMA BoundedStep ==
  ASSUME TypeOK, Rows, UnfinishedBounded, [Next]_vars
  PROVE  UnfinishedBounded'
<1>1. IsFiniteSet(Load) /\ IsFiniteSet(jobs) /\ IsFiniteSet(reserved)
  <2>1. Load \subseteq Job /\ jobs \subseteq Job /\ reserved \subseteq Job
    BY DEF TypeOK, Load, UnfinishedRows
  <2> QED
    BY <2>1, JobAssumption, FS_Subset
<1>2. CASE \A j \in Job : ~Reserve(j)
  <2>1. Load' \subseteq Load
    BY <1>2, LoadGrowsAtReserve
  <2>2. Cardinality(Load') <= Cardinality(Load)
    BY <1>1, <2>1, FS_Subset
  <2>3. Cardinality(Load) \in Nat /\ Cardinality(Load') \in Nat
    BY <1>1, <2>1, FS_Subset, FS_CardinalityType
  <2> QED
    BY <2>2, <2>3, LimitAssumption DEF UnfinishedBounded, Load
<1>3. ASSUME NEW j \in Job, Reserve(j)
      PROVE  UnfinishedBounded'
  <2>1. Load = jobs \cup reserved
    BY <1>3 DEF Reserve, Rows, CoveredRows, Load
  <2>2. /\ Cardinality(jobs) \in Nat /\ Cardinality(reserved) \in Nat
        /\ Cardinality(Load) \in Nat /\ Cardinality(jobs \cap reserved) \in Nat
    BY <1>1, FS_CardinalityType, FS_Intersection
  <2>3. Cardinality(Load) <= Cardinality(jobs) + Cardinality(reserved)
    <3>1. Cardinality(jobs \cup reserved)
            = Cardinality(jobs) + Cardinality(reserved) - Cardinality(jobs \cap reserved)
      BY <1>1, FS_Union
    <3> QED
      BY <2>1, <2>2, <3>1
  <2>4. Cardinality(Load) < MaxJobs
    BY <1>3, <2>2, <2>3, LimitAssumption DEF Reserve, Full
  <2>5. Load' = Load \cup {j}
    BY <1>3 DEF Reserve, SubmitUnchanged, ledger, queue, Load, UnfinishedRows
  <2>6. Cardinality(Load') <= Cardinality(Load) + 1 /\ Cardinality(Load') \in Nat
    <3>1. /\ IsFiniteSet(Load \cup {j})
          /\ Cardinality(Load \cup {j}) \in {Cardinality(Load), Cardinality(Load) + 1}
      BY <1>1, FS_AddElement
    <3> QED
      BY <2>2, <2>5, <3>1, FS_CardinalityType
  <2> QED
    BY <2>2, <2>4, <2>6, LimitAssumption DEF UnfinishedBounded, Load
<1> QED
  BY <1>2, <1>3

LEMMA BoundedInit == Init => UnfinishedBounded
<1> SUFFICES ASSUME Init PROVE UnfinishedBounded
  OBVIOUS
<1>1. UnfinishedRows \cup jobs \cup reserved = {}
  BY DEF Init, UnfinishedRows, Unfinished
<1> QED
  BY <1>1, FS_EmptySet, LimitAssumption DEF UnfinishedBounded

-----------------------------------------------------------------------------
(* The theorems *)

\* IInv is inductive: the ledger, the files, the queue, the submissions and the
\* workers agree in every reachable state, whatever raises, stops or dies.
THEOREM Inductive == Spec => []IInv
<1>1. Init => IInv
  BY TypeInit, RowsInit, BoundedInit DEF IInv, Rows
<1>2. IInv /\ [Next]_vars => IInv'
  BY TypeStep, RowsStep, BoundedStep DEF IInv, Rows
<1> QED
  BY <1>1, <1>2, PTL DEF Spec

\* An unfinished row always has its input, so that a restart can resume it
\* (submit_ocr spills before it inserts, complete and fail unlink after they commit).
THEOREM InputNeverMissing == Spec => []InputPresentWhileUnfinished
<1>1. IInv => InputPresentWhileUnfinished
  BY DEF IInv
<1> QED
  BY <1>1, Inductive, PTL

\* No page text outlives the outcome of its job, whichever worker is late
\* (save_unit inserts only under an unfinished row, _finish deletes the pages).
THEOREM NoLateCheckpoint == Spec => []CheckpointsOnlyWhileUnfinished
<1>1. IInv => CheckpointsOnlyWhileUnfinished
  BY DEF IInv
<1> QED
  BY <1>1, Inductive, PTL

\* Rows, queue and submissions together stay within OCR_QUEUE_MAX_JOBS for any
\* number of requests, restarts and failures (the limit check of submit_ocr).
THEOREM LimitHolds == Spec => []UnfinishedBounded
<1>1. IInv => UnfinishedBounded
  BY DEF IInv
<1> QED
  BY <1>1, Inductive, PTL

-----------------------------------------------------------------------------
(* The strengthening: where a job can be *)

\* A job is in one place of the queue and has an unfinished row while it is there;
\* what a submission is about to enqueue is not known to the queue yet.
Places ==
  /\ waiting \cup active \subseteq jobs
  /\ waiting \cap active = {}
  /\ \A j \in waiting \cup active : row[j] \in Unfinished /\ j \notin terminal
  /\ \A j \in jobs \cup started \cup terminal : row[j] # "none"
  /\ \A j \in Job : sub[j] = "inserted" =>
       /\ row[j] \in Unfinished
       /\ j \notin jobs \cup started \cup terminal
       /\ units[j] = {}

\* A process that is not up yet has recovered jobs in line and nothing else.
FreshProcess ==
  /\ ~Running => /\ waiting = jobs /\ active = {}
                 /\ started = {} /\ terminal = {} /\ data = {}
                 /\ \A w \in Worker : wk[w] = Idle
  /\ proc = "down" => jobs = {}
  /\ jobs \cap toRecover = {}

\* A page being read belongs to an active job; a worker that settles a job has taken
\* it out of the queue and has it to itself.
Holding ==
  \A w \in Worker :
    /\ wk[w].pc \in PageStep => wk[w].job \in active
    /\ wk[w].pc \in FinishStep =>
         /\ wk[w].job \in jobs \ (waiting \cup active \cup terminal)
         /\ todo[wk[w].job] = {}
         /\ \A v \in Worker \ {w} : wk[v].job # wk[w].job

Held == Places /\ FreshProcess /\ Holding

-----------------------------------------------------------------------------
(* What a step of a worker does to its own place and to the others' *)

\* The worker goes on with its page or its job, or gives it back.
Moves(w) ==
  \/ Rest(w)
  \/ wk[w].pc \in PageStep /\ \E step \in PageStep : Goto(w, step)
  \/ wk[w].pc \in FinishStep /\ \E step \in FinishStep : Goto(w, step)

\* Every step but the two that take work goes on with the work that was taken.
LEMMA WorkMoves ==
  ASSUME NEW w \in Worker, Work(w), ~PickFinish(w), ~PickUnit(w)
  PROVE  wk[w].pc \in PageStep \cup FinishStep /\ Running /\ Moves(w)
<1> USE DEF At, PageStep, FinishStep, Moves, KeepTerminal
<1>1. CASE MarkProcessing(w) BY <1>1 DEF MarkProcessing
<1>2. CASE ReadPage(w)       BY <1>2 DEF ReadPage
<1>3. CASE SaveUnit(w)       BY <1>3 DEF SaveUnit
<1>4. CASE RecordPage(w)     BY <1>4 DEF RecordPage
<1>5. CASE RecordError(w)    BY <1>5 DEF RecordError
<1>6. CASE Assemble(w)       BY <1>6 DEF Assemble
<1>7. CASE WriteResult(w)    BY <1>7 DEF WriteResult
<1>8. CASE Commit(w)         BY <1>8 DEF Commit
<1>9. CASE UnlinkInput(w)    BY <1>9 DEF UnlinkInput
<1>10. CASE UndoResult(w)    BY <1>10 DEF UndoResult
<1>11. CASE PopJob(w)        BY <1>11 DEF PopJob
<1>12. CASE FailLocked(w)    BY <1>12 DEF FailLocked
<1>13. CASE FailRow(w)       BY <1>13 DEF FailRow
<1>14. CASE FailUnlink(w)    BY <1>14 DEF FailUnlink
<1> QED
  BY <1>1, <1>2, <1>3, <1>4, <1>5, <1>6, <1>7, <1>8, <1>9, <1>10, <1>11, <1>12, <1>13,
     <1>14 DEF Work

\* And leaves the queue alone, but for the job it settles.
LEMMA WorkKeepsQueue ==
  ASSUME NEW w \in Worker, Work(w), ~PickFinish(w), ~PickUnit(w)
  PROVE  /\ UNCHANGED <<seqno, nextSeq, proc, toRecover, sub, reserved>>
         /\ UNCHANGED <<waiting, ticket, nextTicket, started>>
         /\ active' \in {active, active \ {wk[w].job}}
         /\ active' # active => wk[w].pc \in FinishStep
         /\ \/ jobs' = jobs /\ terminal' = terminal
            \/ /\ wk[w].pc \in FinishStep /\ Rest(w)
               /\ jobs' = jobs \ {wk[w].job} /\ terminal' = terminal
               /\ wk[w].pc = "pop"
            \/ /\ wk[w].pc \in FinishStep /\ Rest(w)
               /\ jobs' = jobs /\ terminal' = terminal \cup {wk[w].job}
               /\ wk[w].pc \in {"failrow", "failclean"}
         /\ todo' \in {todo, [todo EXCEPT ![wk[w].job] = {}]}
<1> USE DEF At, PageStep, FinishStep, WorkerUnchanged, process, queue, files, KeepTerminal
<1>1. CASE MarkProcessing(w) BY <1>1 DEF MarkProcessing, PageUnchanged
<1>2. CASE ReadPage(w)       BY <1>2 DEF ReadPage, PageUnchanged
<1>3. CASE SaveUnit(w)       BY <1>3 DEF SaveUnit, PageUnchanged
<1>4. CASE RecordPage(w)     BY <1>4 DEF RecordPage, PageUnchanged
<1>5. CASE RecordError(w)    BY <1>5 DEF RecordError, PageUnchanged
<1>6. CASE Assemble(w)       BY <1>6 DEF Assemble, FinishUnchanged
<1>7. CASE WriteResult(w)    BY <1>7 DEF WriteResult, FinishUnchanged
<1>8. CASE Commit(w)         BY <1>8 DEF Commit, FinishUnchanged
<1>9. CASE UnlinkInput(w)    BY <1>9 DEF UnlinkInput, FinishUnchanged
<1>10. CASE UndoResult(w)    BY <1>10 DEF UndoResult, FinishUnchanged
<1>11. CASE PopJob(w)        BY <1>11 DEF PopJob, FinishUnchanged
<1>12. CASE FailLocked(w)    BY <1>12 DEF FailLocked
<1>13. CASE FailRow(w)       BY <1>13 DEF FailRow, FinishUnchanged
<1>14. CASE FailUnlink(w)    BY <1>14 DEF FailUnlink, FinishUnchanged
<1> QED
  BY <1>1, <1>2, <1>3, <1>4, <1>5, <1>6, <1>7, <1>8, <1>9, <1>10, <1>11, <1>12, <1>13,
     <1>14 DEF Work

\* A worker that is not idle has a job, an idle one has none.
LEMMA IdleHasNoJob ==
  ASSUME wk \in [Worker -> WorkerState], NEW w \in Worker
  PROVE  /\ wk[w].pc = "idle" <=> wk[w] = Idle
         /\ wk[w].pc = "idle" => wk[w].job \notin Job
         /\ wk[w].pc \in PageStep \cup FinishStep \cup {"idle"}
BY StepsDiffer, JobAssumption DEF WorkerState, Idle

\* Goto moves one worker and keeps what it has.
LEMMA GotoOnly ==
  ASSUME wk \in [Worker -> WorkerState], NEW w \in Worker, wk[w].pc # "idle", NEW step,
         Goto(w, step)
  PROVE  /\ \A v \in Worker \ {w} : wk'[v] = wk[v]
         /\ wk'[w].pc = step /\ wk'[w].job = wk[w].job /\ wk'[w].page = wk[w].page
<1>1. wk[w] \in [pc : PageStep, job : Job, page : Page]
                  \cup [pc : FinishStep, job : Job, page : Page \cup {NoPage}]
  BY DEF WorkerState, Idle
<1>2. wk' = [wk EXCEPT ![w] = [wk[w] EXCEPT !.pc = step]]
  BY DEF Goto
<1> QED
  BY <1>1, <1>2

\* The others do not move.
LEMMA MovesAlone ==
  ASSUME wk \in [Worker -> WorkerState], NEW w \in Worker, wk[w].pc # "idle", Moves(w)
  PROVE  /\ \A v \in Worker \ {w} : wk'[v] = wk[v]
         /\ \/ wk'[w] = Idle
            \/ /\ wk'[w].job = wk[w].job /\ wk'[w].page = wk[w].page
               /\ \/ wk[w].pc \in PageStep /\ wk'[w].pc \in PageStep
                  \/ wk[w].pc \in FinishStep /\ wk'[w].pc \in FinishStep
<1>1. CASE Rest(w)
  BY <1>1 DEF Rest
<1>2. ASSUME NEW step \in PageStep \cup FinishStep, Goto(w, step)
      PROVE  /\ \A v \in Worker \ {w} : wk'[v] = wk[v]
             /\ wk'[w].pc = step /\ wk'[w].job = wk[w].job /\ wk'[w].page = wk[w].page
  BY <1>2, GotoOnly
<1> QED
  BY <1>1, <1>2 DEF Moves

-----------------------------------------------------------------------------
(* Held is inductive, given the rows *)

LEMMA HeldInit == Init => Held
BY DEF Init, Held, Places, FreshProcess, Holding, Running, Idle, PageStep, FinishStep

LEMMA HeldSubmit ==
  ASSUME TypeOK, Rows, Held, NEW j \in Job, Submit(j)
  PROVE  Held'
<1> USE DEF SubmitUnchanged, ledger, files, process, queue, pages, history
<1>1. Running /\ Running' /\ wk' = wk
  BY DEF Submit, Reserve, Refuse, InsertFailed, SpillInput, InsertRow, Enqueue, Release, Running
<1>2. FreshProcess'
  <2>1. proc' = proc /\ toRecover' = toRecover /\ toRecover = {}
    BY <1>1 DEF Submit, Reserve, Refuse, InsertFailed, SpillInput, InsertRow, Enqueue, Release,
                Running, Rows, CoveredRows
  <2> QED
    BY <1>1, <2>1 DEF FreshProcess, Running
<1>3. /\ sub[j] \in {"new", "reserved", "spilled", "failing"} => row[j] = "none"
      /\ row[j] = "none" => j \notin jobs \cup waiting \cup active \cup started \cup terminal
      /\ row[j] = "none" => units[j] = {}
  BY DEF Rows, SubmissionOrder, Held, Places, CheckpointsOnlyWhileUnfinished, Unfinished
<1>4. ASSUME ~Enqueue(j)
      PROVE  UNCHANGED <<jobs, waiting, active, started, terminal, todo, units>>
  BY <1>4 DEF Submit, Reserve, Refuse, InsertFailed, SpillInput, InsertRow, Release, InsertLocked
<1>5. ASSUME ~Enqueue(j)
      PROVE  Holding'
  BY <1>1, <1>4, <1>5 DEF Held, Holding
<1>6. CASE Enqueue(j)
  <2>1. /\ sub[j] = "inserted" /\ sub' = [sub EXCEPT ![j] = "leaving"]
        /\ jobs' = jobs \cup {j} /\ waiting' = waiting \cup {j}
        /\ todo' = [todo EXCEPT ![j] = Targets[j]]
        /\ UNCHANGED <<row, units, active, started, terminal>>
    BY <1>6 DEF Enqueue, EnqueueLocked
  <2>2. row[j] \in Unfinished /\ j \notin jobs \cup started \cup terminal
    BY <2>1 DEF Held, Places
  <2>3. Places'
    BY <2>1, <2>2 DEF Held, Places, TypeOK, Unfinished
  <2>4. \A w \in Worker : wk[w].job # j
    BY <2>2, IdleHasNoJob DEF Held, Holding, Places, TypeOK
  <2>5. Holding'
    BY <1>1, <2>1, <2>4 DEF Held, Holding, TypeOK
  <2> QED
    BY <1>2, <2>3, <2>5 DEF Held
<1>7. CASE InsertFailed(j) \/ InsertRow(j)
  <2>1. \/ row' = row
        \/ row' = [row EXCEPT ![j] = "failed"] /\ sub' = [sub EXCEPT ![j] = "leaving"]
        \/ row' = [row EXCEPT ![j] = "pending"]
    BY <1>7 DEF InsertFailed, InsertRow, InsertLocked
  <2>2. /\ sub[j] \in {"reserved", "spilled"}
        /\ sub' \in {[sub EXCEPT ![j] = s] : s \in {"leaving", "failing", "inserted"}}
        /\ sub'[j] = "inserted" => row'[j] = "pending"
    BY <1>7 DEF InsertFailed, InsertRow, InsertLocked, TypeOK
  <2>3. UNCHANGED <<jobs, waiting, active, started, terminal, units>>
    BY <1>4, <1>7 DEF InsertFailed, InsertRow, Enqueue
  <2>4. Places'
    BY <1>3, <2>1, <2>2, <2>3 DEF Held, Places, TypeOK, Unfinished
  <2> QED
    BY <1>2, <1>5, <1>7, <2>4 DEF Held, InsertFailed, InsertRow, Enqueue
<1>8. CASE Reserve(j) \/ Refuse(j) \/ SpillInput(j) \/ Release(j)
  <2>1. /\ row' = row
        /\ sub' \in {[sub EXCEPT ![j] = s] :
                      s \in {"reserved", "refused", "spilled", "failing", "accepted", "errored"}}
        /\ sub[j] # "inserted"
    BY <1>8 DEF Reserve, Refuse, SpillInput, Release, TypeOK
  <2>2. ~Enqueue(j)
    BY <2>1 DEF Enqueue
  <2>3. Places'
    BY <1>4, <2>1, <2>2 DEF Held, Places, TypeOK
  <2> QED
    BY <1>2, <1>5, <2>2, <2>3 DEF Held
<1> QED
  BY <1>6, <1>7, <1>8 DEF Submit

\* The rows change only at the transaction, and there only for the worker's own job.
LEMMA WorkKeepsRows ==
  ASSUME TypeOK, Rows, NEW w \in Worker, Work(w)
  PROVE  /\ \A j \in Job : row[j] \in Unfinished /\ wk[w].job # j => row'[j] = row[j]
         /\ \A j \in Job : row'[j] = "none" <=> row[j] = "none"
         /\ \A j \in Job : row[j] \in Unfinished /\ row'[j] \notin Unfinished =>
              wk[w].pc \in FinishStep /\ wk[w].job = j
         /\ \A j \in Job : units'[j] # units[j] => wk[w].pc # "idle" /\ wk[w].job = j
<1> USE DEF At, PageStep, FinishStep, files, Unfinished, Outcome, TypeOK, OutcomeLocked
<1>a. wk \in [Worker -> WorkerState] /\ KnownRows
  BY DEF Rows
<1>1. CASE MarkProcessing(w) BY <1>1 DEF MarkProcessing, PageUnchanged
<1>2. CASE ReadPage(w)       BY <1>2 DEF ReadPage, PageUnchanged
<1>3. CASE SaveUnit(w)       BY <1>3 DEF SaveUnit, PageUnchanged
<1>4. CASE RecordPage(w)     BY <1>4 DEF RecordPage, PageUnchanged
<1>5. CASE RecordError(w)    BY <1>5 DEF RecordError, PageUnchanged
<1>6. CASE Assemble(w)       BY <1>6 DEF Assemble, FinishUnchanged
<1>7. CASE WriteResult(w)    BY <1>7 DEF WriteResult, FinishUnchanged
<1>8. CASE Commit(w) \/ FailRow(w)
  <2>1. /\ wk[w].pc \in FinishStep /\ wk[w].pc # "idle"
        /\ \/ row' = row /\ units' = units
           \/ \E status \in Outcome :
                /\ row' = [row EXCEPT ![wk[w].job] = status]
                /\ units' = [units EXCEPT ![wk[w].job] = {}]
    BY <1>8 DEF Commit, FailRow
  <2>2. wk[w].job \in Job /\ row[wk[w].job] \in Unfinished \cup Outcome
    BY <2>1, <1>a, WorkerHolds DEF KnownRows
  <2> QED
    BY <2>1, <2>2
<1>9. CASE UnlinkInput(w)    BY <1>9 DEF UnlinkInput, FinishUnchanged
<1>10. CASE UndoResult(w)    BY <1>10 DEF UndoResult, FinishUnchanged
<1>11. CASE PopJob(w)        BY <1>11 DEF PopJob, FinishUnchanged
<1>12. CASE FailLocked(w)    BY <1>12 DEF FailLocked
<1>14. CASE FailUnlink(w)    BY <1>14 DEF FailUnlink, FinishUnchanged
<1>15. CASE PickFinish(w)    BY <1>15 DEF PickFinish
<1>16. CASE PickUnit(w)      BY <1>16 DEF PickUnit
<1> QED
  BY <1>1, <1>2, <1>3, <1>4, <1>5, <1>6, <1>7, <1>8, <1>9, <1>10, <1>11, <1>12, <1>14,
     <1>15, <1>16 DEF Work

LEMMA HeldMoves ==
  ASSUME TypeOK, Rows, Held, NEW w \in Worker, Work(w), ~PickFinish(w), ~PickUnit(w)
  PROVE  Held'
<1>1. wk \in [Worker -> WorkerState] /\ Places /\ FreshProcess /\ Holding
  BY DEF TypeOK, Held
<1>2. wk[w].pc \in PageStep \cup FinishStep /\ Running /\ Moves(w) /\ wk[w].pc # "idle"
  BY WorkMoves, StepsDiffer
<1>3. /\ UNCHANGED <<seqno, nextSeq, proc, toRecover, sub, reserved>>
      /\ UNCHANGED <<waiting, ticket, nextTicket, started>>
      /\ active' \in {active, active \ {wk[w].job}}
      /\ active' # active => wk[w].pc \in FinishStep
      /\ \/ jobs' = jobs /\ terminal' = terminal
         \/ /\ wk[w].pc \in FinishStep /\ Rest(w)
            /\ jobs' = jobs \ {wk[w].job} /\ terminal' = terminal
         \/ /\ wk[w].pc \in FinishStep /\ Rest(w)
            /\ jobs' = jobs /\ terminal' = terminal \cup {wk[w].job}
      /\ todo' \in {todo, [todo EXCEPT ![wk[w].job] = {}]}
  BY WorkKeepsQueue
<1>4. wk[w].job \in Job /\ wk[w].job \in jobs
  <2>1. wk[w].job \in Job
    BY <1>1, <1>2, WorkerHolds
  <2>2. wk[w].job \in active \/ wk[w].job \in jobs
    BY <1>1, <1>2 DEF Holding
  <2> QED
    BY <1>1, <2>1, <2>2 DEF Places
<1>5. active' = active
  <2>1. wk[w].pc \in FinishStep => wk[w].job \notin active
    BY <1>1 DEF Holding
  <2> QED
    BY <1>3, <2>1
<1>6. /\ \A v \in Worker \ {w} : wk'[v] = wk[v]
      /\ \/ wk'[w] = Idle
         \/ /\ wk'[w].job = wk[w].job /\ wk'[w].page = wk[w].page
            /\ \/ wk[w].pc \in PageStep /\ wk'[w].pc \in PageStep
               \/ wk[w].pc \in FinishStep /\ wk'[w].pc \in FinishStep
  BY <1>1, <1>2, MovesAlone
<1>7. Idle.pc \notin PageStep \cup FinishStep /\ Idle.job \notin Job
  BY StepsDiffer, JobAssumption DEF Idle
<1>8. wk[w].pc \in FinishStep =>
        /\ wk[w].job \notin waiting \cup active
        /\ \A v \in Worker \ {w} : wk[v].job # wk[w].job
  BY <1>1 DEF Holding
<1>9. \A j \in Job : todo[j] = {} => todo'[j] = {}
  BY <1>3, <1>4 DEF TypeOK
<1>10. Holding'
  <2>1. ASSUME NEW v \in Worker, wk'[v].pc \in PageStep
        PROVE  wk'[v].job \in active'
    BY <1>1, <1>5, <1>6, <1>7, <2>1, StepsDiffer DEF Holding
  <2>2. ASSUME NEW v \in Worker, wk'[v].pc \in FinishStep
        PROVE  /\ wk'[v].job \in jobs' \ (waiting' \cup active' \cup terminal')
               /\ todo'[wk'[v].job] = {}
    <3>1. /\ wk[v].pc \in FinishStep /\ wk'[v].job = wk[v].job /\ wk[v].job \in Job
          /\ ~(Rest(w) /\ v = w)
      BY <1>1, <1>6, <1>7, <2>2, WorkerHolds, StepsDiffer DEF Rest, TypeOK
    <3>2. CASE v = w
      BY <1>1, <1>3, <1>5, <1>9, <3>1, <3>2 DEF Holding
    <3>3. CASE v # w
      <4>1. wk[v].job # wk[w].job
        BY <1>1, <3>1, <3>3 DEF Holding
      <4> QED
        BY <1>1, <1>3, <1>5, <1>9, <3>1, <4>1 DEF Holding
    <3> QED
      BY <3>2, <3>3
  <2>3. ASSUME NEW v \in Worker, wk'[v].pc \in FinishStep, NEW u \in Worker \ {v}
        PROVE  wk'[u].job # wk'[v].job
    <3>1. /\ wk[v].pc \in FinishStep /\ wk'[v].job = wk[v].job /\ wk[v].job \in Job
      BY <1>1, <1>6, <1>7, <2>3, WorkerHolds, StepsDiffer
    <3>2. wk'[u].job \in {wk[u].job, Idle.job} /\ wk[u].job # wk[v].job
      BY <1>1, <1>6, <2>3, <3>1 DEF Holding
    <3> QED
      BY <1>7, <3>1, <3>2
  <2> QED
    BY <2>1, <2>2, <2>3 DEF Holding
<1>11. /\ \A j \in waiting \cup active : row'[j] \in Unfinished
       /\ \A j \in Job : row'[j] = "none" <=> row[j] = "none"
       /\ \A j \in Job : units'[j] # units[j] => wk[w].job = j
       /\ \A j \in Job : row[j] \in Unfinished /\ wk[w].job # j => row'[j] = row[j]
  BY <1>1, <1>8, WorkKeepsRows DEF Places, TypeOK
<1>12. Places'
  <2>1. waiting' \cup active' \subseteq jobs' /\ waiting' \cap active' = {}
    BY <1>1, <1>3, <1>5, <1>8 DEF Places
  <2>2. \A j \in waiting' \cup active' : row'[j] \in Unfinished /\ j \notin terminal'
    BY <1>1, <1>3, <1>5, <1>8, <1>11 DEF Places
  <2>3. \A j \in jobs' \cup started' \cup terminal' : row'[j] # "none"
    BY <1>1, <1>3, <1>4, <1>11 DEF Places, TypeOK
  <2>4. ASSUME NEW j \in Job, sub'[j] = "inserted"
        PROVE  /\ row'[j] \in Unfinished
               /\ j \notin jobs' \cup started' \cup terminal'
               /\ units'[j] = {}
    <3>1. /\ row[j] \in Unfinished /\ units[j] = {}
          /\ j \notin jobs \cup started \cup terminal
      BY <1>1, <1>3, <2>4 DEF Places
    <3> QED
      BY <1>3, <1>4, <1>11, <3>1
  <2> QED
    BY <2>1, <2>2, <2>3, <2>4 DEF Places
<1>13. FreshProcess'
  BY <1>1, <1>2, <1>3 DEF FreshProcess, Running
<1> QED
  BY <1>10, <1>12, <1>13 DEF Held

LEMMA HeldPickFinish ==
  ASSUME TypeOK, Rows, Held, NEW w \in Worker, PickFinish(w)
  PROVE  Held'
<1> USE DEF WorkerUnchanged, process, pages, history, files
<1>1. wk \in [Worker -> WorkerState] /\ Places /\ FreshProcess /\ Holding
  BY DEF TypeOK, Held
<1>2. PICK j \in jobs :
        /\ Finishable(j)
        /\ \/ j \in active /\ active' = active \ {j} /\ waiting' = waiting
           \/ /\ j \in Admitted /\ active' = (active \cup Admitted) \ {j}
              /\ waiting' = waiting \ Admitted
        /\ wk' = [wk EXCEPT ![w] = [pc |-> "finish", job |-> j, page |-> NoPage]]
  BY DEF PickFinish
<1>3. /\ UNCHANGED <<row, units, jobs, sub, started, terminal, todo, data, proc, toRecover>>
      /\ proc = "up" /\ wk[w].pc = "idle"
  BY DEF PickFinish
<1>4. /\ j \in waiting \cup active /\ j \in Job
      /\ waiting' \cup active' \subseteq (waiting \cup active) \ {j}
      /\ waiting' \cap active' = {} /\ waiting' \subseteq waiting
      /\ active \ {j} \subseteq active'
  BY <1>1, <1>2 DEF Places, Admitted, TypeOK
<1>5. /\ todo[j] = {} /\ j \notin terminal
      /\ \A v \in Worker : wk[v].job # j
  <2>1. \A v \in Worker : wk[v].job = j => wk[v].pc \in PageStep \cup FinishStep
    BY <1>1, <1>4, IdleHasNoJob
  <2>2. \A v \in Worker : wk[v].pc \in PageStep => wk[v].job # j
    BY <1>2 DEF Finishable, Inflight
  <2> QED
    BY <1>1, <1>2, <1>4, <2>1, <2>2 DEF Holding, Places, Finishable
<1>6. Holding'
  <2>1. /\ wk'[w].pc = "finish" /\ wk'[w].job = j
        /\ \A v \in Worker \ {w} : wk'[v] = wk[v]
        /\ "finish" \notin PageStep
    BY <1>1, <1>2 DEF PageStep
  <2>2. \A v \in Worker \ {w} : wk[v].pc \in PageStep => wk[v].job \in active'
    BY <1>1, <1>4, <1>5 DEF Holding
  <2>3. \A v \in Worker \ {w} : wk[v].pc \in FinishStep =>
          /\ wk[v].job \in jobs \ (waiting' \cup active' \cup terminal)
          /\ todo[wk[v].job] = {}
          /\ \A u \in Worker \ {v} : wk'[u].job # wk[v].job
    BY <1>1, <1>4, <1>5, <2>1 DEF Holding
  <2>4. /\ j \in jobs \ (waiting' \cup active' \cup terminal)
        /\ \A u \in Worker \ {w} : wk'[u].job # j
    BY <1>4, <1>5, <2>1
  <2> QED
    BY <1>3, <1>5, <2>1, <2>2, <2>3, <2>4 DEF Holding
<1>7. Places'
  BY <1>1, <1>3, <1>4 DEF Places
<1>8. FreshProcess'
  BY <1>1, <1>3 DEF FreshProcess, Running
<1> QED
  BY <1>6, <1>7, <1>8 DEF Held

LEMMA HeldPickUnit ==
  ASSUME TypeOK, Rows, Held, NEW w \in Worker, PickUnit(w)
  PROVE  Held'
<1> USE DEF WorkerUnchanged, process, files, history
<1>1. wk \in [Worker -> WorkerState] /\ Places /\ FreshProcess /\ Holding
  BY DEF TypeOK, Held
<1>2. PICK j \in active \cup Admitted, p \in Page, step \in PageStep :
        /\ todo' = [todo EXCEPT ![j] = @ \ {p}]
        /\ started' = started \cup {j}
        /\ wk' = [wk EXCEPT ![w] = [pc |-> step, job |-> j, page |-> p]]
  <2>1. PICK j \in active \cup Admitted :
          /\ started' = started \cup {j}
          /\ \E p \in todo[j] :
               /\ todo' = [todo EXCEPT ![j] = @ \ {p}]
               /\ wk' = [wk EXCEPT ![w] =
                    [pc |-> IF j \in started THEN "read" ELSE "mark", job |-> j, page |-> p]]
    BY DEF PickUnit
  <2>2. j \in Job
    BY DEF TypeOK, Admitted
  <2> QED
    BY <2>1, <2>2 DEF TypeOK, PageStep
<1>3. /\ UNCHANGED <<row, units, jobs, sub, terminal, data, proc, toRecover>>
      /\ proc = "up" /\ wk[w].pc = "idle"
      /\ active' = active \cup Admitted /\ waiting' = waiting \ Admitted
      /\ Admitted \subseteq waiting
  BY DEF PickUnit, Admitted
<1>4. /\ j \in waiting \cup active /\ j \in Job /\ j \in active'
      /\ waiting' \cup active' = waiting \cup active
      /\ waiting' \cap active' = {}
  BY <1>1, <1>2, <1>3 DEF Places, TypeOK
<1>5. Holding'
  <2>1. /\ wk'[w].pc = step /\ wk'[w].job = j
        /\ \A v \in Worker \ {w} : wk'[v] = wk[v]
        /\ step \notin FinishStep
    BY <1>1, <1>2, StepsDiffer
  <2>2. \A v \in Worker \ {w} : wk[v].pc \in FinishStep => wk[v].job # j /\ wk[v].job \in Job
    BY <1>1, <1>4, WorkerHolds DEF Holding
  <2>3. \A i \in Job : i # j => todo'[i] = todo[i]
    BY <1>2, <1>4 DEF TypeOK
  <2> QED
    BY <1>1, <1>3, <1>4, <2>1, <2>2, <2>3 DEF Holding
<1>6. Places'
  <2>1. row[j] # "none" /\ sub[j] # "inserted"
    BY <1>1, <1>4 DEF Places, Unfinished
  <2> QED
    BY <1>1, <1>2, <1>3, <1>4, <2>1 DEF Places
<1>7. FreshProcess'
  BY <1>1, <1>3 DEF FreshProcess, Running
<1> QED
  BY <1>5, <1>6, <1>7 DEF Held

\* After a shutdown or a death the queue holds nothing.
LEMMA HeldLoseMemory ==
  ASSUME LoseMemory, proc' = "down"
  PROVE  Held'
BY DEF LoseMemory, Hangup, Held, Places, FreshProcess, Holding, Running, Idle, PageStep,
       FinishStep

LEMMA HeldLife ==
  ASSUME TypeOK, Rows, Held, Life
  PROVE  Held'
<1> USE DEF ledger, files, process, queue, pages, history
<1>1. Places /\ FreshProcess /\ Holding /\ Idle.pc \notin PageStep \cup FinishStep
  BY StepsDiffer DEF Held, Idle
<1>2. CASE Start
  BY <1>1, <1>2 DEF Start, Held, Places, FreshProcess, Holding, Running
<1>3. CASE StartDone
  BY <1>1, <1>3 DEF StartDone, Held, Places, FreshProcess, Holding, Running
<1>4. ASSUME NEW j \in Job, RecoverRow(j)
      PROVE  Held'
  <2>1. row[j] \in Unfinished /\ sub[j] \notin Submitting
    BY <1>4 DEF RecoverRow, NextRow, Rows, CoveredRows, SubmissionOrder, UnfinishedRows, Running
  <2>2. /\ proc = "starting" /\ waiting = jobs /\ active = {} /\ terminal = {} /\ started = {}
        /\ \A w \in Worker : wk[w] = Idle
    BY <1>1, <1>4 DEF RecoverRow, FreshProcess, Running
  <2>3. /\ jobs' = jobs \cup {j} /\ waiting' = waiting \cup {j}
        /\ toRecover' = toRecover \ {j}
        /\ UNCHANGED <<row, units, proc, sub, wk, active, started, terminal, data>>
    BY <1>4 DEF RecoverRow, EnqueueLocked
  <2>4. Places'
    BY <1>1, <2>1, <2>2, <2>3 DEF Places, Submitting, Unfinished
  <2>5. FreshProcess' /\ Holding'
    BY <1>1, <2>2, <2>3 DEF FreshProcess, Holding, Running
  <2> QED
    BY <2>4, <2>5 DEF Held
<1>5. ASSUME NEW j \in Job, RecoverFailed(j)
      PROVE  Held'
  <2>1. /\ row[j] \in Unfinished /\ j \notin jobs /\ sub[j] \notin Submitting
        /\ j \notin started \cup terminal
    BY <1>1, <1>5
    DEF RecoverFailed, NextRow, FreshProcess, Rows, CoveredRows, SubmissionOrder,
        UnfinishedRows, Running
  <2>2. /\ row' = [row EXCEPT ![j] = "failed"] /\ units' = [units EXCEPT ![j] = {}]
        /\ toRecover' = toRecover \ {j}
        /\ UNCHANGED <<proc, sub, wk, jobs, waiting, active, started, terminal, data, todo>>
    BY <1>5 DEF RecoverFailed, OutcomeLocked
  <2>3. Places'
    BY <1>1, <2>1, <2>2 DEF Places, Submitting, TypeOK
  <2>4. FreshProcess' /\ Holding'
    BY <1>1, <2>2 DEF FreshProcess, Holding, Running
  <2> QED
    BY <2>3, <2>4 DEF Held
<1>6. ASSUME NEW j \in Job, RecoverAborted(j)
      PROVE  Held'
  BY <1>6, HeldLoseMemory DEF RecoverAborted
<1>7. CASE Shutdown
  BY <1>1, <1>7 DEF Shutdown, Held, Places, FreshProcess, Holding, Running
<1>8. CASE Exit
  BY <1>8, HeldLoseMemory DEF Exit
<1>9. CASE Crash
  BY <1>9, HeldLoseMemory DEF Crash
<1> QED
  BY <1>2, <1>3, <1>4, <1>5, <1>6, <1>7, <1>8, <1>9 DEF Life

LEMMA HeldStep ==
  ASSUME TypeOK, Rows, Held, [Next]_vars
  PROVE  Held'
<1>1. ASSUME NEW j \in Job, Submit(j) PROVE Held'
  BY <1>1, HeldSubmit
<1>2. ASSUME NEW w \in Worker, Work(w) PROVE Held'
  BY <1>2, HeldMoves, HeldPickFinish, HeldPickUnit
<1>3. CASE Life
  BY <1>3, HeldLife
<1>4. CASE UNCHANGED vars
  BY <1>4
  DEF vars, ledger, files, process, queue, pages, Held, Places, FreshProcess, Holding, Running
<1> QED
  BY <1>1, <1>2, <1>3, <1>4 DEF Next

-----------------------------------------------------------------------------
(* Where the pages of a job are *)

\* A page that was read is checkpointed before it counts as done: only after a
\* shutdown does a worker skip the checkpoint, and then it does not count the page.
SavedFirst ==
  \A w \in Worker : wk[w].pc = "good" /\ proc = "up" => wk[w].page \in units[wk[w].job]

Paged == DoneIsCheckpointed /\ PageAtOnePlace /\ SavedFirst

LEMMA PagedInit == Init => Paged
BY DEF Init, Paged, DoneIsCheckpointed, PageAtOnePlace, SavedFirst, Inflight, Idle, PageStep

LEMMA PagedSubmit ==
  ASSUME TypeOK, Rows, Held, Paged, NEW j \in Job, Submit(j)
  PROVE  Paged'
<1> USE DEF SubmitUnchanged, ledger, files, process, queue, pages
<1>1. wk' = wk /\ proc' = proc /\ units' = units
  BY DEF Submit, Reserve, Refuse, InsertFailed, SpillInput, InsertRow, Enqueue, Release,
         InsertLocked
<1>2. DoneIsCheckpointed /\ PageAtOnePlace /\ SavedFirst /\ Places /\ Holding
  BY DEF Paged, Held
<1>3. SavedFirst'
  BY <1>1, <1>2 DEF SavedFirst
<1>4. CASE Enqueue(j)
  <2>1. /\ sub[j] = "inserted" /\ jobs' = jobs \cup {j} /\ row' = row
        /\ todo' = [todo EXCEPT ![j] = Targets[j]] /\ done' = [done EXCEPT ![j] = {}]
    BY <1>4 DEF Enqueue, EnqueueLocked
  <2>2. units[j] = {} /\ j \notin jobs
    BY <1>2, <2>1 DEF Places
  <2>3. \A w \in Worker : wk[w].job # j
    BY <1>2, <2>2, IdleHasNoJob DEF Holding, Places, TypeOK
  <2>4. /\ todo'[j] = Targets[j] /\ done'[j] = {}
        /\ \A i \in jobs : i # j /\ todo'[i] = todo[i] /\ done'[i] = done[i]
    BY <2>1, <2>2 DEF TypeOK
  <2>5. DoneIsCheckpointed'
    BY <1>1, <1>2, <2>1, <2>2, <2>3, <2>4 DEF DoneIsCheckpointed, Inflight
  <2>6. PageAtOnePlace'
    BY <1>1, <1>2, <2>1, <2>3, <2>4 DEF PageAtOnePlace, Inflight
  <2> QED
    BY <1>3, <2>5, <2>6 DEF Paged
<1>5. CASE ~Enqueue(j)
  <2>1. /\ jobs' = jobs /\ todo' = todo /\ done' = done
        /\ row[j] = "none" \/ row' = row
        /\ \A i \in Job \ {j} : row'[i] = row[i]
    BY <1>5
    DEF Submit, Reserve, Refuse, InsertFailed, SpillInput, InsertRow, Release, InsertLocked,
        Rows, SubmissionOrder, TypeOK
  <2>2. \A i \in jobs : row'[i] = row[i]
    BY <1>2, <2>1 DEF Places, TypeOK
  <2>3. DoneIsCheckpointed'
    BY <1>1, <1>2, <2>1, <2>2 DEF DoneIsCheckpointed, Inflight
  <2>4. PageAtOnePlace'
    BY <1>1, <1>2, <2>1 DEF PageAtOnePlace, Inflight
  <2> QED
    BY <1>3, <2>3, <2>4 DEF Paged
<1> QED
  BY <1>4, <1>5

\* A worker goes on, pages leave the queue, an outcome takes the checkpoints along:
\* nothing that was counted is lost.
LEMMA PagedMoves ==
  ASSUME TypeOK, TypeOK', Held', Paged, NEW w \in Worker,
         \A v \in Worker \ {w} : wk'[v] = wk[v],
         \/ wk'[w].pc \notin PageStep
         \/ /\ wk'[w].job = wk[w].job /\ wk'[w].page = wk[w].page
            /\ wk[w].pc \in PageStep
            /\ wk'[w].pc \in {"mark", "read"} => wk[w].pc \in {"mark", "read"}
            /\ wk'[w].pc = "good" /\ proc' = "up" => wk'[w].page \in units'[wk'[w].job],
         \/ wk'[w].job \in {wk[w].job, NoJob}
         \/ \A v \in Worker \ {w} : wk'[v].job # wk'[w].job,
         jobs' \subseteq jobs, proc' = proc,
         \A j \in Job : todo'[j] \subseteq todo[j] /\ done'[j] \subseteq done[j],
         \A j \in Job : row'[j] \in Unfinished => row[j] \in Unfinished /\ units'[j] = units[j]
  PROVE  Paged'
<1>1. jobs \subseteq Job /\ "good" \in PageStep /\ "mark" \in PageStep /\ "read" \in PageStep
  BY DEF TypeOK, PageStep
<1>2. Places' /\ Holding' /\ DoneIsCheckpointed /\ PageAtOnePlace /\ SavedFirst
  BY DEF Held, Paged
<1>3. ASSUME NEW v \in Worker, wk'[v].pc \in PageStep
      PROVE  /\ wk[v].pc \in PageStep /\ wk'[v].job = wk[v].job /\ wk'[v].page = wk[v].page
             /\ wk'[v].pc \in {"mark", "read"} => wk[v].pc \in {"mark", "read"}
             /\ wk'[v].job \in jobs' /\ row'[wk'[v].job] \in Unfinished
  BY <1>2, <1>3 DEF Holding, Places
<1>4. DoneIsCheckpointed'
  BY <1>1, <1>2, <1>3 DEF DoneIsCheckpointed, Inflight
<1>5. PageAtOnePlace'
  <2>1. ASSUME NEW j \in jobs', NEW v \in Worker, wk'[v].job = j, wk'[v].pc \in PageStep
        PROVE  /\ wk'[v].page \notin todo'[j] \cup done'[j]
               /\ \A u \in Worker \ {v} : wk'[u].job = j =>
                    wk'[u].pc \in PageStep /\ wk'[u].page # wk'[v].page
    <3>1. wk[v].job = j /\ wk[v].pc \in PageStep /\ j \in jobs /\ j \in Job
      BY <1>1, <1>3, <2>1
    <3>2. ASSUME NEW u \in Worker \ {v}, wk'[u].job = j
          PROVE  wk'[u].pc \in PageStep /\ wk'[u].page # wk'[v].page
      <4>1. wk[u].job = j
        BY <2>1, <3>1, <3>2, JobAssumption
      <4>2. wk[u].pc \in PageStep /\ wk[u].page # wk[v].page
        BY <1>2, <3>1, <4>1 DEF PageAtOnePlace, Inflight
      <4>3. wk'[u].pc \in PageStep \cup FinishStep
        BY <3>1, <3>2, JobAssumption DEF TypeOK, WorkerState, Idle
      <4>4. wk'[u].pc \in PageStep
        BY <1>2, <2>1, <3>2, <4>3 DEF Holding
      <4> QED
        BY <1>3, <2>1, <4>2, <4>4
    <3> QED
      BY <1>2, <1>3, <2>1, <3>1, <3>2 DEF PageAtOnePlace, Inflight
  <2>2. \A j \in jobs' : todo'[j] \cap done'[j] = {}
    BY <1>1, <1>2 DEF PageAtOnePlace
  <2> QED
    BY <2>1, <2>2 DEF PageAtOnePlace, Inflight
<1>6. SavedFirst'
  <2>1. ASSUME NEW v \in Worker, wk'[v].pc = "good", proc' = "up"
        PROVE  wk'[v].page \in units'[wk'[v].job]
    <3>1. CASE v = w
      BY <1>1, <2>1, <3>1
    <3>2. CASE v # w
      <4>1. row'[wk[v].job] \in Unfinished /\ wk[v].job \in Job
        BY <1>1, <1>3, <2>1, <3>2
      <4> QED
        BY <1>2, <2>1, <3>2, <4>1 DEF SavedFirst
    <3> QED
      BY <3>1, <3>2
  <2> QED
    BY <2>1 DEF SavedFirst
<1> QED
  BY <1>4, <1>5, <1>6 DEF Paged

\* The steps that count no page and take none.
LEMMA PagedQuiet ==
  ASSUME TypeOK, TypeOK', Rows, Held, Held', Paged, NEW w \in Worker, Work(w),
         ~PickFinish(w), ~PickUnit(w), ~SaveUnit(w), ~RecordPage(w)
  PROVE  Paged'
<1> USE DEF files
<1>1. wk \in [Worker -> WorkerState] /\ wk[w].pc # "idle" /\ Moves(w) /\ wk[w].job \in Job
  BY WorkMoves, StepsDiffer, WorkerHolds DEF TypeOK
<1>2. \A v \in Worker \ {w} : wk'[v] = wk[v]
  BY <1>1, MovesAlone
<1>3. /\ proc' = proc /\ jobs' \subseteq jobs
      /\ todo' \in {todo, [todo EXCEPT ![wk[w].job] = {}]}
  BY WorkKeepsQueue
<1>4. /\ done' = done
      /\ \/ wk'[w].pc \notin {"mark", "read", "good"}
         \/ wk'[w].pc = "read" /\ wk[w].pc = "mark"
         \/ wk'[w].pc = "good" /\ proc = "stopped"
  BY <1>1 DEF Work, Rest, Goto, KeepTerminal, At, Idle, WorkerState,
     MarkProcessing, ReadPage, RecordError, Assemble, WriteResult, Commit, UnlinkInput,
     UndoResult, PopJob, FailLocked, FailRow, FailUnlink, PageUnchanged, FinishUnchanged
<1>5. \A j \in Job : row'[j] \in Unfinished => row[j] \in Unfinished /\ units'[j] = units[j]
  BY <1>1 DEF Work, At, TypeOK, Unfinished, OutcomeLocked,
     MarkProcessing, ReadPage, RecordError, Assemble, WriteResult, Commit, UnlinkInput,
     UndoResult, PopJob, FailLocked, FailRow, FailUnlink, PageUnchanged, FinishUnchanged
<1>6. \A j \in Job : todo'[j] \subseteq todo[j] /\ done'[j] \subseteq done[j]
  BY <1>1, <1>3, <1>4 DEF TypeOK
<1>7. \/ wk'[w] = Idle
      \/ /\ wk'[w].job = wk[w].job /\ wk'[w].page = wk[w].page
         /\ \/ wk[w].pc \in PageStep /\ wk'[w].pc \in PageStep
            \/ wk[w].pc \in FinishStep /\ wk'[w].pc \in FinishStep
  BY <1>1, MovesAlone
<1>8. /\ \/ wk'[w].pc \notin PageStep
         \/ /\ wk'[w].job = wk[w].job /\ wk'[w].page = wk[w].page
            /\ wk[w].pc \in PageStep
            /\ wk'[w].pc \in {"mark", "read"} => wk[w].pc \in {"mark", "read"}
            /\ wk'[w].pc = "good" /\ proc' = "up" => wk'[w].page \in units'[wk'[w].job]
      /\ wk'[w].job \in {wk[w].job, NoJob}
  BY <1>3, <1>4, <1>7, StepsDiffer DEF Idle
<1> QED
  BY <1>2, <1>3, <1>5, <1>6, <1>8, PagedMoves

LEMMA PagedSave ==
  ASSUME TypeOK, Rows, Held, Paged, NEW w \in Worker, SaveUnit(w)
  PROVE  Paged'
<1> DEFINE j == wk[w].job
           p == wk[w].page
<1> USE DEF PageUnchanged, WorkerUnchanged, files, queue, process
<1>1. /\ wk \in [Worker -> WorkerState] /\ DoneIsCheckpointed /\ PageAtOnePlace /\ SavedFirst
      /\ Places /\ Holding
  BY DEF TypeOK, Paged, Held
<1>2. wk[w].pc = "save" /\ "save" \in PageStep /\ wk[w].pc # "idle" /\ Moves(w)
  BY DEF SaveUnit, At, PageStep, Moves
<1>3. j \in Job /\ p \in Page /\ j \in jobs /\ w \in Inflight(j) /\ row[j] \in Unfinished
  BY <1>1, <1>2, WorkerHolds DEF Holding, Places, Inflight
<1>4. Goto(w, "good") \/ Goto(w, "bad")
  BY DEF SaveUnit
<1>5. /\ \A v \in Worker \ {w} : wk'[v] = wk[v]
      /\ wk'[w].job = j /\ wk'[w].page = p /\ wk'[w].pc \in {"good", "bad"}
      /\ Goto(w, "bad") => wk'[w].pc = "bad"
  BY <1>1, <1>2, <1>4, GotoOnly
<1>a. /\ UNCHANGED <<row, jobs, todo, done, proc>>
      /\ units' = [units EXCEPT ![j] = @ \cup {p}] \/ (units' = units /\ wk'[w].pc = "bad")
  BY <1>3, <1>5 DEF SaveUnit
<1>6. /\ p \notin todo[j]
      /\ \A v \in Worker \ {w} : wk[v].job = j => wk[v].page # p
  BY <1>1, <1>3 DEF PageAtOnePlace
<1>7. \A i \in Job : units'[i] = units[i] \/ (i = j /\ units'[i] = units[i] \cup {p})
  BY <1>3, <1>a DEF TypeOK
<1>8. DoneIsCheckpointed'
  <2>1. ASSUME NEW i \in jobs, row[i] \in Unfinished
        PROVE  /\ done[i] \subseteq units'[i]
               /\ todo[i] \cap units'[i] = {}
               /\ \A v \in Worker : wk'[v].job = i /\ wk'[v].pc \in {"mark", "read"} =>
                    wk'[v].page \notin units'[i]
    <3>1. /\ done[i] \subseteq units[i] /\ todo[i] \cap units[i] = {} /\ i \in Job
          /\ \A v \in Worker : wk[v].job = i /\ wk[v].pc \in {"mark", "read"} =>
               wk[v].page \notin units[i]
      BY <1>1, <2>1 DEF DoneIsCheckpointed, Inflight, PageStep, TypeOK
    <3> QED
      BY <1>5, <1>6, <1>7, <3>1
  <2> QED
    BY <1>a, <2>1 DEF DoneIsCheckpointed, Inflight
<1>9. PageAtOnePlace'
  <2>1. \A v \in Worker : /\ wk'[v].job = wk[v].job /\ wk'[v].page = wk[v].page
                          /\ wk'[v].pc \in PageStep <=> wk[v].pc \in PageStep
    BY <1>2, <1>5 DEF PageStep
  <2> QED
    BY <1>1, <1>a, <2>1 DEF PageAtOnePlace, Inflight
<1>10. SavedFirst'
  <2>1. units'[j] = units[j] \cup {p} \/ wk'[w].pc = "bad"
    BY <1>3, <1>a DEF TypeOK
  <2>2. \A v \in Worker : wk[v].pc = "good" => wk[v].job \in Job
    BY <1>1, WorkerHolds DEF PageStep
  <2> QED
    BY <1>1, <1>5, <1>7, <1>a, <2>1, <2>2 DEF SavedFirst
<1> QED
  BY <1>8, <1>9, <1>10 DEF Paged

LEMMA PagedRecord ==
  ASSUME TypeOK, Held, Paged, NEW w \in Worker, RecordPage(w)
  PROVE  Paged'
<1> DEFINE j == wk[w].job
           p == wk[w].page
<1> USE DEF PageUnchanged, WorkerUnchanged, files, queue, process
<1>1. /\ wk \in [Worker -> WorkerState] /\ DoneIsCheckpointed /\ PageAtOnePlace /\ SavedFirst
      /\ Places /\ Holding
  BY DEF TypeOK, Paged, Held
<1>2. /\ wk[w].pc = "good" /\ wk[w].pc \in PageStep /\ Running
      /\ wk' = [wk EXCEPT ![w] = Idle]
      /\ UNCHANGED <<row, units, todo, jobs, proc>>
  BY DEF RecordPage, At, PageStep, Rest
<1>3. j \in Job /\ p \in Page /\ j \in jobs /\ w \in Inflight(j)
  BY <1>1, <1>2, WorkerHolds DEF Holding, Places, Inflight
<1>4. /\ \A v \in Worker \ {w} : wk'[v] = wk[v]
      /\ wk'[w].job \notin Job /\ wk'[w].pc \notin PageStep
  BY <1>1, <1>2, StepsDiffer, JobAssumption DEF Idle
<1>5. \/ done' = done
      \/ proc = "up" /\ done' = [done EXCEPT ![j] = @ \cup {p}]
  BY <1>2 DEF RecordPage, Running
<1>6. \A i \in Job :
        \/ done'[i] = done[i]
        \/ i = j /\ done'[i] = done[i] \cup {p} /\ p \in units[i]
  BY <1>1, <1>2, <1>3, <1>5 DEF TypeOK, SavedFirst
<1>7. /\ p \notin todo[j]
      /\ \A v \in Worker \ {w} : wk[v].job = j => wk[v].page # p
  BY <1>1, <1>3 DEF PageAtOnePlace
<1>8. DoneIsCheckpointed'
  <2>1. ASSUME NEW i \in jobs, row[i] \in Unfinished
        PROVE  /\ done'[i] \subseteq units[i]
               /\ todo[i] \cap units[i] = {}
               /\ \A v \in Worker : wk'[v].job = i /\ wk'[v].pc \in {"mark", "read"} =>
                    wk'[v].page \notin units[i]
    <3>1. /\ done[i] \subseteq units[i] /\ todo[i] \cap units[i] = {} /\ i \in Job
          /\ \A v \in Worker : wk[v].job = i /\ wk[v].pc \in {"mark", "read"} =>
               wk[v].page \notin units[i]
      BY <1>1, <2>1 DEF DoneIsCheckpointed, Inflight, PageStep, TypeOK
    <3> QED
      BY <1>4, <1>6, <3>1
  <2> QED
    BY <1>2, <2>1 DEF DoneIsCheckpointed, Inflight
<1>9. PageAtOnePlace'
  <2>1. ASSUME NEW i \in jobs
        PROVE  /\ todo[i] \cap done'[i] = {}
               /\ \A v \in Worker : wk'[v].job = i /\ wk'[v].pc \in PageStep =>
                    /\ wk'[v].page \notin todo[i] \cup done'[i]
                    /\ \A u \in Worker \ {v} : wk'[u].job = i =>
                         wk'[u].pc \in PageStep /\ wk'[u].page # wk'[v].page
    <3>1. /\ todo[i] \cap done[i] = {} /\ i \in Job
          /\ \A v \in Worker : wk[v].job = i /\ wk[v].pc \in PageStep =>
               /\ wk[v].page \notin todo[i] \cup done[i]
               /\ \A u \in Worker \ {v} : wk[u].job = i =>
                    wk[u].pc \in PageStep /\ wk[u].page # wk[v].page
      BY <1>1, <2>1 DEF PageAtOnePlace, Inflight, TypeOK
    <3>2. todo[i] \cap done'[i] = {}
      BY <1>6, <1>7, <3>1
    <3>3. ASSUME NEW v \in Worker, wk'[v].job = i, wk'[v].pc \in PageStep
          PROVE  /\ v # w /\ wk[v].job = i /\ wk[v].pc \in PageStep
                 /\ wk'[v].page \notin todo[i] \cup done'[i]
      BY <1>4, <1>6, <1>7, <3>1, <3>3
    <3>4. ASSUME NEW u \in Worker, wk'[u].job = i
          PROVE  u # w /\ wk'[u] = wk[u]
      BY <1>4, <3>1, <3>4
    <3> QED
      BY <3>1, <3>2, <3>3, <3>4
  <2> QED
    BY <1>2, <2>1 DEF PageAtOnePlace, Inflight
<1>10. SavedFirst'
  BY <1>1, <1>2, <1>4 DEF SavedFirst, PageStep
<1> QED
  BY <1>8, <1>9, <1>10 DEF Paged

LEMMA PagedPickFinish ==
  ASSUME TypeOK, TypeOK', Held', Paged, NEW w \in Worker, PickFinish(w)
  PROVE  Paged'
<1> USE DEF WorkerUnchanged, process, pages
<1>1. PICK j \in jobs :
        wk' = [wk EXCEPT ![w] = [pc |-> "finish", job |-> j, page |-> NoPage]]
  BY DEF PickFinish
<1>2. UNCHANGED <<row, units, jobs, todo, done, proc>>
  BY DEF PickFinish
<1>3. /\ \A v \in Worker \ {w} : wk'[v] = wk[v]
      /\ wk'[w].pc = "finish" /\ wk'[w].pc \in FinishStep /\ wk'[w].pc \notin PageStep
  BY <1>1, StepsDiffer DEF TypeOK, FinishStep
<1>4. \A v \in Worker \ {w} : wk'[v].job # wk'[w].job
  BY <1>3 DEF Held, Holding
<1> QED
  BY <1>2, <1>3, <1>4, PagedMoves

LEMMA PagedPickUnit ==
  ASSUME TypeOK, Held, Paged, NEW w \in Worker, PickUnit(w)
  PROVE  Paged'
<1> USE DEF WorkerUnchanged, process
<1>1. /\ wk \in [Worker -> WorkerState] /\ DoneIsCheckpointed /\ PageAtOnePlace /\ SavedFirst
      /\ Places /\ Holding
  BY DEF TypeOK, Paged, Held
<1>2. PICK j \in active \cup Admitted, p \in Page, step \in {"mark", "read"} :
        /\ p \in todo[j] /\ todo' = [todo EXCEPT ![j] = @ \ {p}]
        /\ wk' = [wk EXCEPT ![w] = [pc |-> step, job |-> j, page |-> p]]
  <2>1. PICK j \in active \cup Admitted : \E p \in todo[j] :
          /\ todo' = [todo EXCEPT ![j] = @ \ {p}]
          /\ wk' = [wk EXCEPT ![w] =
               [pc |-> IF j \in started THEN "read" ELSE "mark", job |-> j, page |-> p]]
    BY DEF PickUnit
  <2>2. j \in Job
    BY DEF TypeOK, Admitted
  <2> QED
    BY <2>1, <2>2 DEF TypeOK
<1>3. /\ UNCHANGED <<row, units, jobs, done, proc>> /\ wk[w].pc = "idle"
      /\ j \in jobs /\ j \in Job
  BY <1>1, <1>2 DEF PickUnit, Admitted, Places, TypeOK
<1>4. /\ \A v \in Worker \ {w} : wk'[v] = wk[v]
      /\ wk'[w].pc = step /\ wk'[w].job = j /\ wk'[w].page = p
      /\ step \in PageStep /\ step # "good"
  BY <1>1, <1>2 DEF PageStep
<1>5. /\ \A i \in Job : todo'[i] \subseteq todo[i]
      /\ p \notin todo'[j] /\ p \notin done[j]
      /\ row[j] \in Unfinished => p \notin units[j]
      /\ \A v \in Worker : wk[v].pc \in PageStep /\ wk[v].job = j => wk[v].page # p
  <2>1. (\A i \in Job : todo'[i] \subseteq todo[i]) /\ p \notin todo'[j]
    BY <1>2, <1>3 DEF TypeOK
  <2>2. p \notin done[j]
    BY <1>1, <1>2, <1>3 DEF PageAtOnePlace
  <2>3. row[j] \in Unfinished => p \notin units[j]
    BY <1>1, <1>2, <1>3 DEF DoneIsCheckpointed
  <2>4. \A v \in Worker : wk[v].pc \in PageStep /\ wk[v].job = j => wk[v].page # p
    BY <1>1, <1>2, <1>3 DEF PageAtOnePlace, Inflight
  <2> QED
    BY <2>1, <2>2, <2>3, <2>4
<1>6. \A v \in Worker : wk[v].job = j => wk[v].pc \in PageStep
  <2>1. j \in waiting \cup active
    BY <1>2 DEF Admitted
  <2> QED
    BY <1>1, <1>3, <2>1, IdleHasNoJob DEF Holding
<1>7. DoneIsCheckpointed'
  <2>1. ASSUME NEW i \in jobs, row[i] \in Unfinished
        PROVE  /\ done[i] \subseteq units[i]
               /\ todo'[i] \cap units[i] = {}
               /\ \A v \in Worker : wk'[v].job = i /\ wk'[v].pc \in {"mark", "read"} =>
                    wk'[v].page \notin units[i]
    <3>1. /\ done[i] \subseteq units[i] /\ todo[i] \cap units[i] = {} /\ i \in Job
          /\ \A v \in Worker : wk[v].job = i /\ wk[v].pc \in {"mark", "read"} =>
               wk[v].page \notin units[i]
      BY <1>1, <2>1 DEF DoneIsCheckpointed, Inflight, PageStep, TypeOK
    <3> QED
      BY <1>4, <1>5, <2>1, <3>1
  <2> QED
    BY <1>3, <2>1 DEF DoneIsCheckpointed, Inflight
<1>8. PageAtOnePlace'
  <2>1. ASSUME NEW i \in jobs
        PROVE  /\ todo'[i] \cap done[i] = {}
               /\ \A v \in Worker : wk'[v].job = i /\ wk'[v].pc \in PageStep =>
                    /\ wk'[v].page \notin todo'[i] \cup done[i]
                    /\ \A u \in Worker \ {v} : wk'[u].job = i =>
                         wk'[u].pc \in PageStep /\ wk'[u].page # wk'[v].page
    <3>1. /\ todo[i] \cap done[i] = {} /\ i \in Job
          /\ \A v \in Worker : wk[v].job = i /\ wk[v].pc \in PageStep =>
               /\ wk[v].page \notin todo[i] \cup done[i]
               /\ \A u \in Worker \ {v} : wk[u].job = i =>
                    wk[u].pc \in PageStep /\ wk[u].page # wk[v].page
      BY <1>1, <2>1 DEF PageAtOnePlace, Inflight, TypeOK
    <3>2. todo'[i] \cap done[i] = {}
      BY <1>5, <3>1
    <3>3. ASSUME NEW v \in Worker, wk'[v].job = i, wk'[v].pc \in PageStep
          PROVE  /\ wk'[v].page \notin todo'[i] \cup done[i]
                 /\ \A u \in Worker \ {v} : wk'[u].job = i =>
                      wk'[u].pc \in PageStep /\ wk'[u].page # wk'[v].page
      <4>1. CASE v = w
        <5>1. i = j /\ wk'[v].page = p
          BY <1>4, <3>3, <4>1
        <5>2. \A u \in Worker \ {w} : wk'[u].job = j =>
                wk'[u].pc \in PageStep /\ wk'[u].page # p
          BY <1>4, <1>5, <1>6
        <5> QED
          BY <1>5, <4>1, <5>1, <5>2
      <4>2. CASE v # w
        <5>1. wk'[v] = wk[v] /\ wk[v].page \notin todo'[i] \cup done[i]
          BY <1>4, <1>5, <3>1, <3>3, <4>2
        <5>2. wk'[w].job = i => wk'[w].pc \in PageStep /\ wk'[w].page # wk[v].page
          BY <1>4, <1>5, <3>3, <5>1
        <5>3. \A u \in Worker \ {v, w} : wk'[u].job = i =>
                wk'[u].pc \in PageStep /\ wk'[u].page # wk[v].page
          BY <1>4, <3>1, <3>3, <5>1
        <5> QED
          BY <5>1, <5>2, <5>3
      <4> QED
        BY <4>1, <4>2
    <3> QED
      BY <3>2, <3>3
  <2> QED
    BY <1>3, <2>1 DEF PageAtOnePlace, Inflight
<1>9. SavedFirst'
  BY <1>1, <1>3, <1>4 DEF SavedFirst
<1> QED
  BY <1>7, <1>8, <1>9 DEF Paged

LEMMA PagedWork ==
  ASSUME TypeOK, TypeOK', Rows, Held, Held', Paged, NEW w \in Worker, Work(w)
  PROVE  Paged'
BY PagedQuiet, PagedSave, PagedRecord, PagedPickFinish, PagedPickUnit

LEMMA PagedLife ==
  ASSUME TypeOK, Rows, Held, Paged, Life
  PROVE  Paged'
<1> USE DEF ledger, files, process, queue, pages, history
<1>1. /\ DoneIsCheckpointed /\ PageAtOnePlace /\ SavedFirst /\ FreshProcess /\ Places
      /\ Idle.pc \notin PageStep /\ Idle.pc = "idle"
      /\ "good" \in PageStep /\ "mark" \in PageStep /\ "read" \in PageStep
  BY StepsDiffer DEF Paged, Held, Idle, PageStep
<1>2. ASSUME jobs' = {}, \A w \in Worker : wk'[w] = Idle
      PROVE  Paged'
  BY <1>1, <1>2 DEF Paged, DoneIsCheckpointed, PageAtOnePlace, SavedFirst
<1>3. CASE Start
  BY <1>1, <1>2, <1>3 DEF Start, FreshProcess, Running
<1>4. CASE StartDone
  <2>1. \A w \in Worker : wk[w] = Idle
    BY <1>1, <1>4 DEF StartDone, FreshProcess, Running
  <2> QED
    BY <1>1, <1>4, <2>1
    DEF StartDone, Paged, DoneIsCheckpointed, PageAtOnePlace, SavedFirst, Inflight
<1>5. ASSUME NEW j \in Job, RecoverRow(j)
      PROVE  Paged'
  <2>1. /\ j \notin jobs /\ \A w \in Worker : wk'[w] = Idle
        /\ jobs' = jobs \cup {j} /\ row' = row /\ units' = units
        /\ todo' = [todo EXCEPT ![j] = Targets[j] \ units[j]]
        /\ done' = [done EXCEPT ![j] = units[j]]
    BY <1>1, <1>5 DEF RecoverRow, NextRow, EnqueueLocked, FreshProcess, Running
  <2>2. /\ todo'[j] = Targets[j] \ units[j] /\ done'[j] = units[j]
        /\ \A i \in jobs : todo'[i] = todo[i] /\ done'[i] = done[i]
    BY <2>1 DEF TypeOK
  <2>3. DoneIsCheckpointed'
    BY <1>1, <2>1, <2>2 DEF DoneIsCheckpointed, Inflight
  <2>4. PageAtOnePlace'
    BY <1>1, <2>1, <2>2 DEF PageAtOnePlace, Inflight
  <2>5. SavedFirst'
    BY <1>1, <2>1 DEF SavedFirst
  <2> QED
    BY <2>3, <2>4, <2>5 DEF Paged
<1>6. ASSUME NEW j \in Job, RecoverFailed(j)
      PROVE  Paged'
  <2>1. /\ j \notin jobs /\ \A w \in Worker : wk'[w] = Idle
        /\ UNCHANGED <<jobs, todo, done>>
        /\ row' = [row EXCEPT ![j] = "failed"] /\ units' = [units EXCEPT ![j] = {}]
    BY <1>1, <1>6 DEF RecoverFailed, NextRow, OutcomeLocked, FreshProcess, Running
  <2>2. \A i \in jobs : row'[i] = row[i] /\ units'[i] = units[i]
    BY <2>1 DEF TypeOK
  <2>3. DoneIsCheckpointed'
    BY <1>1, <2>1, <2>2 DEF DoneIsCheckpointed, Inflight
  <2>4. PageAtOnePlace'
    BY <1>1, <2>1 DEF PageAtOnePlace, Inflight
  <2>5. SavedFirst'
    BY <1>1, <2>1 DEF SavedFirst
  <2> QED
    BY <2>3, <2>4, <2>5 DEF Paged
<1>7. ASSUME NEW j \in Job, RecoverAborted(j)
      PROVE  Paged'
  BY <1>2, <1>7 DEF RecoverAborted, LoseMemory
<1>8. CASE Shutdown
  BY <1>1, <1>8 DEF Shutdown, Paged, DoneIsCheckpointed, PageAtOnePlace, SavedFirst, Inflight
<1>9. CASE Exit
  BY <1>2, <1>9 DEF Exit, LoseMemory
<1>10. CASE Crash
  BY <1>2, <1>10 DEF Crash, LoseMemory
<1> QED
  BY <1>3, <1>4, <1>5, <1>6, <1>7, <1>8, <1>9, <1>10 DEF Life

LEMMA PagedStep ==
  ASSUME TypeOK, Rows, Held, Paged, [Next]_vars
  PROVE  Paged'
<1>0. TypeOK' /\ Held'
  BY TypeStep, HeldStep
<1>1. ASSUME NEW j \in Job, Submit(j) PROVE Paged'
  BY <1>1, PagedSubmit
<1>2. ASSUME NEW w \in Worker, Work(w) PROVE Paged'
  BY <1>0, <1>2, PagedWork
<1>3. CASE Life
  BY <1>3, PagedLife
<1>4. CASE UNCHANGED vars
  BY <1>4
  DEF vars, ledger, files, process, queue, pages, Paged, DoneIsCheckpointed, PageAtOnePlace,
      SavedFirst, Inflight
<1> QED
  BY <1>1, <1>2, <1>3, <1>4 DEF Next

-----------------------------------------------------------------------------
(* How long the decrypted document stays in memory *)

\* A worker that is done with a job's document has dropped it.
Forgotten ==
  \A w \in Worker : wk[w].pc \in {"failrow", "failclean", "pop"} => wk[w].job \notin data

InUse == DecryptedOnlyInUse /\ Forgotten

LEMMA InUseInit == Init => InUse
BY DEF Init, InUse, DecryptedOnlyInUse, Forgotten, Idle

\* What a working worker does with the document of its job.
LEMMA WorkerKeepsData ==
  ASSUME TypeOK, NEW w \in Worker, Work(w), ~PickFinish(w), ~PickUnit(w)
  PROVE  /\ data' \subseteq data \cup {wk[w].job}
         /\ wk[w].pc \in PageStep => wk'[w].pc \notin FinishStep
         /\ wk[w].pc \in FinishStep =>
              \/ wk'[w].pc \in FinishStep \ {"pop"}
              \/ wk[w].job \notin data'
              \/ wk[w].pc \in {"failrow", "failclean", "pop"} /\ data' = data
              \/ proc # "up"
         /\ wk'[w].pc \in {"failrow", "failclean", "pop"} =>
              \/ wk[w].job \notin data'
              \/ wk[w].pc \in {"failrow", "failclean", "pop"} /\ data' = data
<1> USE DEF At, PageStep, FinishStep, Idle, Rest, pages
<1>0. wk \in [Worker -> WorkerState] /\ (wk[w].pc \in PageStep \cup FinishStep => wk[w].pc # "idle")
  BY DEF TypeOK
<1>a. ASSUME wk[w].pc # "idle", NEW step, Goto(w, step)
      PROVE  wk'[w].pc = step
  BY <1>0, <1>a, GotoOnly
<1>b. Rest(w) => wk'[w].pc = "idle"
  BY <1>0
<1>1. CASE MarkProcessing(w) BY <1>a, <1>1 DEF MarkProcessing, PageUnchanged
<1>2. CASE ReadPage(w)       BY <1>a, <1>2 DEF ReadPage, PageUnchanged
<1>3. CASE SaveUnit(w)       BY <1>a, <1>3 DEF SaveUnit, PageUnchanged
<1>4. CASE RecordPage(w)     BY <1>b, <1>4 DEF RecordPage, PageUnchanged
<1>5. CASE RecordError(w)    BY <1>b, <1>5 DEF RecordError, PageUnchanged
<1>6. CASE Assemble(w)       BY <1>a, <1>6 DEF Assemble, FinishUnchanged
<1>7. CASE WriteResult(w)    BY <1>a, <1>7 DEF WriteResult, FinishUnchanged
<1>8. CASE Commit(w)         BY <1>a, <1>8 DEF Commit, FinishUnchanged
<1>9. CASE UnlinkInput(w)    BY <1>a, <1>9 DEF UnlinkInput, FinishUnchanged
<1>10. CASE UndoResult(w)    BY <1>a, <1>10 DEF UndoResult, FinishUnchanged
<1>11. CASE PopJob(w)        BY <1>b, <1>11 DEF PopJob, FinishUnchanged
<1>12. CASE FailLocked(w)    BY <1>a, <1>12 DEF FailLocked
<1>13. CASE FailRow(w)       BY <1>a, <1>b, <1>13 DEF FailRow, FinishUnchanged, KeepTerminal
<1>14. CASE FailUnlink(w)    BY <1>a, <1>b, <1>14 DEF FailUnlink, FinishUnchanged, KeepTerminal
<1> QED
  BY <1>1, <1>2, <1>3, <1>4, <1>5, <1>6, <1>7, <1>8, <1>9, <1>10, <1>11, <1>12, <1>13,
     <1>14 DEF Work

LEMMA InUseMoves ==
  ASSUME TypeOK, Rows, Held, Held', InUse, NEW w \in Worker, Work(w),
         ~PickFinish(w), ~PickUnit(w)
  PROVE  InUse'
<1>1. /\ wk \in [Worker -> WorkerState] /\ Places /\ Holding
      /\ DecryptedOnlyInUse /\ Forgotten
  BY DEF TypeOK, Held, InUse
<1>2. /\ wk[w].pc \in PageStep \cup FinishStep /\ wk[w].pc # "idle" /\ Moves(w)
      /\ wk[w].job \in Job
  BY <1>1, WorkMoves, StepsDiffer, WorkerHolds
<1>3. /\ \A v \in Worker \ {w} : wk'[v] = wk[v]
      /\ wk'[w] = Idle \/ wk'[w].job = wk[w].job
  BY <1>1, <1>2, MovesAlone
<1>4. /\ proc' = proc
      /\ active' \in {active, active \ {wk[w].job}}
      /\ active' # active => wk[w].pc \in FinishStep
  BY WorkKeepsQueue
<1>5. /\ data' \subseteq data \cup {wk[w].job}
      /\ wk[w].pc \in PageStep => wk'[w].pc \notin FinishStep
      /\ wk[w].pc \in FinishStep =>
           \/ wk'[w].pc \in FinishStep \ {"pop"}
           \/ wk[w].job \notin data'
           \/ wk[w].pc \in {"failrow", "failclean", "pop"} /\ data' = data
           \/ proc # "up"
      /\ wk'[w].pc \in {"failrow", "failclean", "pop"} =>
           \/ wk[w].job \notin data'
           \/ wk[w].pc \in {"failrow", "failclean", "pop"} /\ data' = data
  BY WorkerKeepsData
<1>6. active' = active
  BY <1>1, <1>4 DEF Holding
<1>7. Idle.pc \notin PageStep \cup FinishStep
  BY StepsDiffer DEF Idle
<1>8. {"failrow", "failclean", "pop"} \subseteq FinishStep
  BY DEF FinishStep
<1>9. DecryptedOnlyInUse'
  <2>1. ASSUME NEW j \in data', proc = "up", j \notin active
        PROVE  \E v \in Worker : wk'[v].job = j /\ wk'[v].pc \in FinishStep \ {"pop"}
    <3>1. CASE j = wk[w].job
      <4>1. wk[w].pc \in FinishStep
        BY <1>1, <1>2, <2>1, <3>1 DEF Holding
      <4>2. wk'[w].pc \in FinishStep \ {"pop"}
        BY <1>1, <1>5, <2>1, <3>1, <4>1 DEF Forgotten
      <4> QED
        BY <1>3, <1>7, <3>1, <4>2
    <3>2. CASE j # wk[w].job
      <4>1. PICK v \in Worker : wk[v].job = j /\ wk[v].pc \in FinishStep \ {"pop"}
        BY <1>1, <1>5, <2>1, <3>2 DEF DecryptedOnlyInUse
      <4> QED
        BY <1>3, <3>2, <4>1
    <3> QED
      BY <3>1, <3>2
  <2> QED
    BY <1>4, <1>6, <2>1 DEF DecryptedOnlyInUse
<1>10. Forgotten'
  <2>1. ASSUME NEW v \in Worker, wk'[v].pc \in {"failrow", "failclean", "pop"}
        PROVE  wk'[v].job \notin data'
    <3>1. CASE v = w
      <4>1. wk'[w].job = wk[w].job
        BY <1>3, <1>7, <1>8, <2>1, <3>1
      <4> QED
        BY <1>1, <1>5, <2>1, <3>1, <4>1 DEF Forgotten
    <3>2. CASE v # w
      <4>1. wk[v].job \notin data /\ wk[v].job # wk[w].job
        BY <1>1, <1>3, <1>8, <2>1, <3>2 DEF Forgotten, Holding
      <4> QED
        BY <1>3, <1>5, <3>2, <4>1
    <3> QED
      BY <3>1, <3>2
  <2> QED
    BY <2>1 DEF Forgotten
<1> QED
  BY <1>9, <1>10 DEF InUse

LEMMA InUsePick ==
  ASSUME TypeOK, Held, InUse, NEW w \in Worker, PickFinish(w) \/ PickUnit(w)
  PROVE  InUse'
<1> USE DEF WorkerUnchanged, process, pages
<1>1. /\ wk \in [Worker -> WorkerState] /\ DecryptedOnlyInUse /\ Forgotten
      /\ wk[w].pc = "idle" /\ data' = data /\ proc' = proc
  BY DEF TypeOK, InUse, PickFinish, PickUnit
<1>2. \A v \in Worker \ {w} : wk'[v] = wk[v]
  BY <1>1 DEF PickFinish, PickUnit
<1>3. wk'[w].pc \in {"finish", "mark", "read"}
  BY <1>1 DEF PickFinish, PickUnit
<1>4. \/ active \subseteq active'
      \/ \E j \in jobs : /\ active \ {j} \subseteq active'
                         /\ wk'[w].job = j /\ wk'[w].pc = "finish"
  <2>1. CASE PickUnit(w)
    BY <2>1 DEF PickUnit
  <2>2. CASE PickFinish(w)
    <3>1. PICK j \in jobs :
            /\ active \ {j} \subseteq active'
            /\ wk' = [wk EXCEPT ![w] = [pc |-> "finish", job |-> j, page |-> NoPage]]
      BY <2>2 DEF PickFinish
    <3> QED
      BY <1>1, <3>1
  <2> QED
    BY <2>1, <2>2
<1>5. DecryptedOnlyInUse'
  <2>1. \A v \in Worker : wk[v].pc \in FinishStep => v # w
    BY <1>1 DEF FinishStep
  <2> QED
    BY <1>1, <1>2, <1>4, <2>1 DEF DecryptedOnlyInUse, FinishStep
<1>6. Forgotten'
  BY <1>1, <1>2, <1>3 DEF Forgotten
<1> QED
  BY <1>5, <1>6 DEF InUse

LEMMA InUseStep ==
  ASSUME TypeOK, Rows, Held, InUse, [Next]_vars
  PROVE  InUse'
<1> USE DEF ledger, files, process, queue, pages, history
<1>0. Held' /\ DecryptedOnlyInUse /\ Forgotten /\ FreshProcess
  BY HeldStep DEF InUse, Held
<1>1. ASSUME NEW j \in Job, Submit(j)
      PROVE  InUse'
  <2>1. UNCHANGED <<proc, wk, active, data>>
    BY <1>1 DEF Submit, Reserve, Refuse, InsertFailed, SpillInput, InsertRow, Enqueue, Release,
                EnqueueLocked, SubmitUnchanged
  <2> QED
    BY <1>0, <2>1 DEF InUse, DecryptedOnlyInUse, Forgotten
<1>2. ASSUME NEW w \in Worker, Work(w)
      PROVE  InUse'
  BY <1>0, <1>2, InUseMoves, InUsePick
<1>3. CASE Life
  <2>1. \/ UNCHANGED <<wk, active, data>> /\ (proc' = "up" => proc = "starting")
        \/ data' = {}
    BY <1>3 DEF Life, Start, StartDone, RecoverRow, RecoverFailed, RecoverAborted, Shutdown,
                Exit, Crash, EnqueueLocked, LoseMemory
  <2>2. proc = "starting" => data = {}
    BY <1>0 DEF FreshProcess, Running
  <2> QED
    BY <1>0, <2>1, <2>2 DEF InUse, DecryptedOnlyInUse, Forgotten
<1>4. CASE UNCHANGED vars
  BY <1>0, <1>4 DEF vars, InUse, DecryptedOnlyInUse, Forgotten
<1> QED
  BY <1>1, <1>2, <1>3, <1>4 DEF Next

-----------------------------------------------------------------------------
(* What a worker knows of the row and the result of the job it settles *)

RowFits(w) ==
  LET j == wk[w].job IN
  /\ wk[w].pc \in {"finish", "write", "commit"} => row[j] \in Unfinished
  /\ wk[w].pc = "clean" => row[j] = "completed"
  /\ wk[w].pc = "failclean" => row[j] = "failed"
  /\ wk[w].pc = "pop" => row[j] \in Outcome
  /\ wk[w].pc \in {"undo", "fail", "failrow"} =>
       row[j] \in Unfinished \/ (row[j] = "completed" /\ HasFault(j, {"unlink"}))

ResultFits(w) ==
  LET j == wk[w].job IN
  /\ wk[w].pc \in {"commit", "clean"} => j \in results
  /\ wk[w].pc = "pop" /\ row[j] = "completed" => j \in results

Settled == (\A w \in Worker : RowFits(w) /\ ResultFits(w)) /\ CompletedHasResult

LEMMA SettledInit == Init => Settled
BY DEF Init, Settled, RowFits, ResultFits, CompletedHasResult, Idle

\* An error that was raised stays on record.
LEMMA FaultedGrows == [Next]_vars => faulted \subseteq faulted'
<1> USE DEF history, Fault, Faults
<1>1. ASSUME NEW j \in Job, Submit(j) PROVE faulted \subseteq faulted'
  BY <1>1 DEF Submit, Reserve, Refuse, InsertFailed, SpillInput, InsertRow, Enqueue, Release
<1>2. ASSUME NEW w \in Worker, Work(w) PROVE faulted \subseteq faulted'
  BY <1>2
  DEF Work, PickFinish, PickUnit, MarkProcessing, ReadPage, SaveUnit, RecordPage, RecordError,
      Assemble, WriteResult, Commit, UnlinkInput, UndoResult, PopJob, FailLocked, FailRow,
      FailUnlink
<1>3. CASE Life
  BY <1>3 DEF Life, Start, StartDone, RecoverRow, RecoverFailed, RecoverAborted, Shutdown,
              Exit, Crash
<1> QED
  BY <1>1, <1>2, <1>3 DEF Next, vars

LEMMA FaultStays ==
  ASSUME faulted \subseteq faulted', NEW j, NEW kinds, HasFault(j, kinds)
  PROVE  HasFault(j, kinds)'
BY DEF HasFault

\* A row changes in three steps of a worker, and only that of its own job.
LEMMA WorkRow ==
  ASSUME TypeOK, NEW w \in Worker, Work(w), wk[w].job \in Job \/ wk[w].pc = "idle"
  PROVE  \/ row' = row
         \/ /\ wk[w].pc = "mark"
            /\ \A j \in Job : row'[j] = IF j = wk[w].job /\ row[j] \in Unfinished
                                        THEN "processing" ELSE row[j]
         \/ /\ wk[w].pc = "commit" /\ Goto(w, "clean")
            /\ \A j \in Job : row'[j] = IF j = wk[w].job THEN "completed" ELSE row[j]
         \/ /\ wk[w].pc = "failrow"
            /\ \A j \in Job : row'[j] = IF j = wk[w].job THEN "failed" ELSE row[j]
BY DEF Work, At, TypeOK, OutcomeLocked, PickFinish, PickUnit, MarkProcessing, ReadPage,
       SaveUnit, RecordPage, RecordError, Assemble, WriteResult, Commit, UnlinkInput,
       UndoResult, PopJob, FailLocked, FailRow, FailUnlink, PageUnchanged, FinishUnchanged,
       files

\* A result comes and goes with the worker that settles its job.
LEMMA WorkResults ==
  ASSUME NEW w \in Worker, Work(w)
  PROVE  \/ results' = results
         \/ wk[w].pc = "write" /\ results' = results \cup {wk[w].job}
         \/ wk[w].pc = "undo" /\ results' = results \ {wk[w].job}
BY DEF Work, At, PickFinish, PickUnit, MarkProcessing, ReadPage,
       SaveUnit, RecordPage, RecordError, Assemble, WriteResult, Commit, UnlinkInput,
       UndoResult, PopJob, FailLocked, FailRow, FailUnlink, PageUnchanged, FinishUnchanged,
       files

LEMMA SettledMoves ==
  ASSUME TypeOK, Rows, Held, Settled, faulted \subseteq faulted', NEW w \in Worker, Work(w),
         ~PickFinish(w), ~PickUnit(w)
  PROVE  Settled'
<1> DEFINE j == wk[w].job
<1> USE DEF files, WorkerUnchanged
<1>1. /\ wk \in [Worker -> WorkerState] /\ Places /\ Holding
      /\ RowFits(w) /\ ResultFits(w) /\ CompletedHasResult
  BY DEF TypeOK, Held, Settled
<1>2. /\ wk[w].pc \in PageStep \cup FinishStep /\ wk[w].pc # "idle" /\ Moves(w) /\ j \in Job
  BY <1>1, WorkMoves, StepsDiffer, WorkerHolds
<1>3. /\ \A v \in Worker \ {w} : wk'[v] = wk[v]
      /\ wk'[w] = Idle \/ wk'[w].job = j
  BY <1>1, <1>2, MovesAlone
<1>a. ASSUME NEW step, Goto(w, step)
      PROVE  wk'[w].pc = step /\ wk'[w].job = j
  BY <1>1, <1>2, <1>a, GotoOnly
<1>b. Rest(w) => wk'[w].pc = "idle"
  BY <1>1 DEF Rest, Idle
<1>c. ASSUME NEW kind, Fault(j, kind)
      PROVE  <<j, kind>> \in faulted'
  BY <1>c DEF Fault, Faults
<1>4. \A i \in Job : i # j => row'[i] = row[i] /\ (i \in results' <=> i \in results)
  BY <1>2, WorkRow, WorkResults
<1>5. ASSUME NEW v \in Worker \ {w}
      PROVE  RowFits(v)' /\ ResultFits(v)'
  <2>1. CASE wk[v].pc \in FinishStep
    <3>1. wk[v].job # j /\ wk[v].job \in Job
      BY <1>1, <2>1, WorkerHolds DEF Holding
    <3>2. RowFits(v) /\ ResultFits(v)
      BY DEF Settled
    <3> QED
      BY <1>3, <1>4, <3>1, <3>2, FaultStays DEF RowFits, ResultFits
  <2>2. CASE wk[v].pc \notin FinishStep
    BY <1>3, <2>2 DEF RowFits, ResultFits, FinishStep
  <2> QED
    BY <2>1, <2>2
<1>6. /\ RowFits(w)' /\ ResultFits(w)'
      /\ row'[j] = "completed" /\ <<j, "unlink">> \notin faulted' => j \in results'
  <2> USE DEF At, RowFits, ResultFits, HasFault, Unfinished, Outcome
  <2>0. row[j] = "completed" /\ ~(<<j, "unlink">> \in faulted) => j \in results
    BY <1>1, <1>2 DEF CompletedHasResult
  <2>1. CASE MarkProcessing(w)
    BY <1>1, <1>2, <1>a, <2>0, <2>1 DEF MarkProcessing, PageUnchanged, TypeOK
  <2>2. CASE ReadPage(w)
    BY <1>1, <1>2, <1>a, <2>0, <2>2 DEF ReadPage, PageUnchanged
  <2>3. CASE SaveUnit(w)
    BY <1>1, <1>2, <1>a, <2>0, <2>3 DEF SaveUnit, PageUnchanged
  <2>4. CASE RecordPage(w) \/ RecordError(w)
    BY <1>1, <1>2, <1>b, <2>0, <2>4 DEF RecordPage, RecordError, PageUnchanged
  <2>5. CASE Assemble(w)
    BY <1>1, <1>2, <1>a, <1>b, <2>0, <2>5 DEF Assemble, FinishUnchanged
  <2>6. CASE WriteResult(w)
    BY <1>1, <1>2, <1>a, <2>0, <2>6 DEF WriteResult, FinishUnchanged
  <2>7. CASE Commit(w)
    BY <1>1, <1>2, <1>a, <2>0, <2>7 DEF Commit, OutcomeLocked, FinishUnchanged, TypeOK
  <2>8. CASE UnlinkInput(w)
    BY <1>1, <1>2, <1>a, <1>c, <2>0, <2>8 DEF UnlinkInput, FinishUnchanged
  <2>9. CASE UndoResult(w)
    BY <1>1, <1>2, <1>a, <2>0, <2>9 DEF UndoResult, FinishUnchanged
  <2>10. CASE PopJob(w)
    BY <1>1, <1>2, <1>b, <2>0, <2>10 DEF PopJob, FinishUnchanged
  <2>11. CASE FailLocked(w)
    BY <1>1, <1>2, <1>a, <1>b, <2>0, <2>11 DEF FailLocked
  <2>12. CASE FailRow(w)
    BY <1>1, <1>2, <1>a, <1>b, <2>0, <2>12
    DEF FailRow, KeepTerminal, OutcomeLocked, FinishUnchanged, TypeOK
  <2>13. CASE FailUnlink(w)
    BY <1>1, <1>2, <1>a, <1>b, <2>0, <2>13 DEF FailUnlink, KeepTerminal, FinishUnchanged
  <2> QED
    BY <2>1, <2>2, <2>3, <2>4, <2>5, <2>6, <2>7, <2>8, <2>9, <2>10, <2>11, <2>12, <2>13
    DEF Work
<1>7. CompletedHasResult'
  <2>1. ASSUME NEW i \in Job, i # j, row'[i] = "completed", <<i, "unlink">> \notin faulted'
        PROVE  i \in results'
    <3>1. ~HasFault(i, {"unlink"}) /\ row[i] = "completed"
      BY <1>4, <2>1 DEF HasFault
    <3> QED
      BY <1>1, <1>4, <2>1, <3>1 DEF CompletedHasResult
  <2> HIDE DEF j
  <2> QED
    BY <1>6, <2>1 DEF CompletedHasResult, HasFault
<1> QED
  BY <1>5, <1>6, <1>7 DEF Settled

LEMMA SettledPick ==
  ASSUME TypeOK, Held, Settled, faulted \subseteq faulted', NEW w \in Worker,
         PickFinish(w) \/ PickUnit(w)
  PROVE  Settled'
<1> USE DEF files
<1>1. /\ wk \in [Worker -> WorkerState] /\ Places /\ CompletedHasResult
      /\ UNCHANGED <<row, results>> /\ jobs \subseteq Job
  BY DEF TypeOK, Held, Settled, PickFinish, PickUnit
<1>2. \A v \in Worker \ {w} : wk'[v] = wk[v]
  BY <1>1 DEF PickFinish, PickUnit
<1>3. \/ wk'[w].pc \in {"mark", "read"}
      \/ wk'[w].pc = "finish" /\ wk'[w].job \in jobs /\ row[wk'[w].job] \in Unfinished
  <2>1. CASE PickUnit(w)
    BY <1>1, <2>1 DEF PickUnit
  <2>2. CASE PickFinish(w)
    <3>1. PICK j \in jobs :
            /\ j \in active \cup Admitted
            /\ wk' = [wk EXCEPT ![w] = [pc |-> "finish", job |-> j, page |-> NoPage]]
      BY <2>2 DEF PickFinish
    <3> QED
      BY <1>1, <3>1 DEF Places, Admitted
  <2> QED
    BY <2>1, <2>2
<1>4. RowFits(w)' /\ ResultFits(w)'
  BY <1>1, <1>3 DEF RowFits, ResultFits
<1>5. ASSUME NEW v \in Worker \ {w}
      PROVE  RowFits(v)' /\ ResultFits(v)'
  BY <1>1, <1>2, FaultStays DEF Settled, RowFits, ResultFits
<1>6. CompletedHasResult'
  BY <1>1, FaultStays DEF CompletedHasResult
<1> QED
  BY <1>4, <1>5, <1>6 DEF Settled

LEMMA SettledSubmit ==
  ASSUME TypeOK, Rows, Settled, faulted \subseteq faulted', NEW j \in Job, Submit(j)
  PROVE  Settled'
<1> USE DEF ledger, SubmitUnchanged
<1>1. /\ wk' = wk /\ results' = results
      /\ row[j] = "none" \/ row' = row
      /\ row' \in {row, [row EXCEPT ![j] = "failed"], [row EXCEPT ![j] = "pending"]}
  BY DEF Submit, Reserve, Refuse, InsertFailed, SpillInput, InsertRow, Enqueue, Release,
         InsertLocked, Rows, SubmissionOrder
<1>2. \A i \in Job : row'[i] = row[i] \/ (i = j /\ row'[i] # "completed")
  BY <1>1 DEF TypeOK
<1>3. \A w \in Worker : wk[w].pc # "idle" => wk[w].job \in Job /\ row'[wk[w].job] = row[wk[w].job]
  BY <1>1, <1>2, WorkerHolds DEF Rows, KnownRows, TypeOK
<1>4. ASSUME NEW w \in Worker
      PROVE  RowFits(w)' /\ ResultFits(w)'
  <2>1. RowFits(w) /\ ResultFits(w)
    BY DEF Settled
  <2> QED
    BY <1>1, <1>3, <2>1, FaultStays DEF RowFits, ResultFits
<1>5. CompletedHasResult'
  BY <1>1, <1>2, FaultStays DEF Settled, CompletedHasResult
<1> QED
  BY <1>4, <1>5 DEF Settled

LEMMA SettledLife ==
  ASSUME TypeOK, Held, Settled, faulted \subseteq faulted', Life
  PROVE  Settled'
<1> USE DEF ledger, files
<1>1. \/ wk' = wk /\ row' = row /\ results' = results
      \/ \A w \in Worker : wk'[w] = Idle
  <2>1. CASE Start \/ StartDone \/ \E j \in Job : RecoverRow(j) \/ RecoverFailed(j) \/ RecoverAborted(j)
    <3>1. proc # "stopped" /\ ~Running
      BY <2>1 DEF Start, StartDone, RecoverRow, RecoverFailed, RecoverAborted, Running
    <3>2. \A w \in Worker : wk[w] = Idle
      BY <3>1 DEF Held, FreshProcess
    <3>3. wk' = wk \/ LoseMemory
      BY <2>1 DEF Start, StartDone, RecoverRow, RecoverFailed, RecoverAborted
    <3> QED
      BY <3>2, <3>3 DEF LoseMemory
  <2>2. CASE Shutdown \/ Exit \/ Crash
    BY <2>2 DEF Shutdown, Exit, Crash, LoseMemory
  <2> QED
    BY <2>1, <2>2 DEF Life
<1>2. ASSUME NEW w \in Worker
      PROVE  RowFits(w)' /\ ResultFits(w)'
  <2>1. RowFits(w) /\ ResultFits(w)
    BY DEF Settled
  <2> QED
    BY <1>1, <2>1, FaultStays DEF RowFits, ResultFits, Idle
<1>3. /\ \A j \in Job : row'[j] = row[j] \/ row'[j] = "failed"
      /\ \A j \in results : row[j] = "completed" => j \in results'
  BY DEF Life, Start, StartDone, RecoverRow, RecoverFailed, RecoverAborted, Shutdown, Exit,
         Crash, OutcomeLocked, TypeOK
<1>4. CompletedHasResult'
  BY <1>3, FaultStays DEF Settled, CompletedHasResult
<1> QED
  BY <1>2, <1>4 DEF Settled

LEMMA SettledStep ==
  ASSUME TypeOK, Rows, Held, Settled, [Next]_vars
  PROVE  Settled'
<1>0. faulted \subseteq faulted'
  BY FaultedGrows
<1>1. ASSUME NEW j \in Job, Submit(j) PROVE Settled'
  BY <1>0, <1>1, SettledSubmit
<1>2. ASSUME NEW w \in Worker, Work(w) PROVE Settled'
  BY <1>0, <1>2, SettledMoves, SettledPick
<1>3. CASE Life
  BY <1>0, <1>3, SettledLife
<1>4. CASE UNCHANGED vars
  BY <1>4 DEF vars, ledger, files, history, Settled, RowFits, ResultFits, CompletedHasResult,
              HasFault
<1> QED
  BY <1>1, <1>2, <1>3, <1>4 DEF Next

\* What a step does to a row that has an outcome.
LEMMA FinalStep ==
  ASSUME TypeOK, Rows, Held, Settled, [Next]_vars, NEW j \in Job, row[j] \in Outcome
  PROVE  \/ row'[j] = row[j]
         \/ row[j] = "completed" /\ row'[j] = "failed" /\ HasFault(j, {"unlink"})
<1> USE DEF ledger, files
<1>1. row[j] # "none" /\ row[j] \notin Unfinished
  BY DEF Unfinished, Outcome
<1>2. ASSUME NEW i \in Job, Submit(i)
      PROVE  row'[j] = row[j]
  <2>1. \/ row' = row
        \/ row[i] = "none" /\ \E status \in {"failed", "pending"} :
                                row' = [row EXCEPT ![i] = status]
    BY <1>2 DEF Submit, Reserve, Refuse, InsertFailed, SpillInput, InsertRow, Enqueue, Release,
                InsertLocked, Rows, SubmissionOrder
  <2> QED
    BY <1>1, <2>1 DEF TypeOK
<1>3. ASSUME NEW w \in Worker, Work(w), row'[j] # row[j]
      PROVE  row[j] = "completed" /\ row'[j] = "failed" /\ HasFault(j, {"unlink"})
  <2>1. wk[w].job \in Job \/ wk[w].pc = "idle"
    BY WorkerHolds DEF TypeOK
  <2>2. \/ wk[w].pc = "commit" /\ j = wk[w].job
        \/ wk[w].pc = "failrow" /\ j = wk[w].job /\ row'[j] = "failed"
    BY <1>1, <1>3, <2>1, WorkRow
  <2>3. RowFits(w)
    BY DEF Settled
  <2> QED
    BY <1>1, <2>2, <2>3 DEF RowFits
<1>4. CASE Life
  <2>1. \/ row' = row
        \/ \E i \in toRecover : row' = [row EXCEPT ![i] = "failed"]
    BY <1>4 DEF Life, Start, StartDone, RecoverRow, RecoverFailed, RecoverAborted, NextRow,
                Shutdown, Exit, Crash, OutcomeLocked
  <2>2. j \notin toRecover
    BY <1>1 DEF Rows, CoveredRows, UnfinishedRows
  <2> QED
    BY <2>1, <2>2 DEF TypeOK
<1>5. CASE UNCHANGED vars
  BY <1>5 DEF vars
<1> QED
  BY <1>2, <1>3, <1>4, <1>5 DEF Next

-----------------------------------------------------------------------------
(* Why a job fails, and that no page of it gets lost *)

Reason(j) == j \in Invalid \/ HasFault(j, FaultKinds)

Blamed ==
  /\ \A j \in Job : row[j] = "failed" \/ j \in terminal \cup erred => Reason(j)
  /\ \A w \in Worker :
       wk[w].pc \in {"bad", "undo", "fail", "failrow", "failclean"} => Reason(wk[w].job)

\* Unless one of them raised, the pages of a job are queued, with a worker, or done;
\* after a shutdown a worker drops its page, and the job is not looked at again.
NoPageLost ==
  proc \in {"starting", "up"} => \A j \in waiting \cup active :
    \/ j \in erred
    \/ \A p \in Targets[j] :
         \/ p \in todo[j] \cup done[j]
         \/ \E w \in Worker : wk[w].job = j /\ wk[w].pc \in PageStep /\ wk[w].page = p

\* A job is assembled when all its pages are done, or one of them raised.
Complete ==
  \A w \in Worker : wk[w].pc = "finish" =>
    wk[w].job \in erred \/ Targets[wk[w].job] \subseteq done[wk[w].job]

Explained == Blamed /\ NoPageLost /\ Complete

LEMMA ExplainedInit == Init => Explained
BY DEF Init, Explained, Blamed, NoPageLost, Complete, Idle

LEMMA ReasonStays ==
  ASSUME faulted \subseteq faulted', NEW j, Reason(j)
  PROVE  Reason(j)'
BY DEF Reason, HasFault

\* Nothing but a page that raises makes a worker give up a job.
LEMMA BlamedMoves ==
  ASSUME TypeOK, Rows, Held, Settled, Explained, faulted \subseteq faulted', NEW w \in Worker, Work(w),
         ~PickFinish(w), ~PickUnit(w)
  PROVE  Blamed'
<1> DEFINE j == wk[w].job
<1> USE DEF files, WorkerUnchanged
<1>1. /\ wk \in [Worker -> WorkerState] /\ Places /\ Holding /\ Blamed /\ Complete
  BY DEF TypeOK, Held, Explained
<1>2. /\ wk[w].pc \in PageStep \cup FinishStep /\ wk[w].pc # "idle" /\ Moves(w) /\ j \in Job
  BY <1>1, WorkMoves, StepsDiffer, WorkerHolds
<1>3. \A v \in Worker \ {w} : wk'[v] = wk[v]
  BY <1>1, <1>2, MovesAlone
<1>a. ASSUME NEW step, Goto(w, step)
      PROVE  wk'[w].pc = step /\ wk'[w].job = j
  BY <1>1, <1>2, <1>a, GotoOnly
<1>b. Rest(w) => wk'[w].pc = "idle"
  BY <1>1 DEF Rest, Idle
<1>c. ASSUME NEW kind, Fault(j, kind)
      PROVE  j \in Invalid \/ \E k \in FaultKinds : <<j, k>> \in faulted'
  BY <1>c DEF Fault, Faults
<1>d. wk[w].pc \in {"bad", "undo", "fail", "failrow", "failclean"} =>
        j \in Invalid \/ \E k \in FaultKinds : <<j, k>> \in faulted'
  BY <1>1 DEF Blamed, Reason, HasFault
<1>e. wk[w].pc \in PageStep => j \in inputs
  BY <1>1, <1>2 DEF Holding, Places, Rows, InputPresentWhileUnfinished, UnfinishedRows
<1>f. wk[w].pc = "finish" => row[j] \in Unfinished
  BY DEF Settled, RowFits
<1>4. wk[w].pc = "finish" /\ ~CanAssemble(j) =>
        j \in Invalid \/ \E k \in FaultKinds : <<j, k>> \in faulted'
  <2>1. wk[w].pc = "finish" => j \in erred \/ Targets[j] \subseteq done[j]
    BY <1>1 DEF Complete
  <2>2. j \in erred => Reason(j)
    BY <1>1, <1>2 DEF Blamed
  <2>3. wk[w].pc = "finish" => j \in inputs
    BY <1>f, <1>2 DEF Rows, InputPresentWhileUnfinished, UnfinishedRows
  <2> QED
    BY <2>1, <2>2, <2>3 DEF CanAssemble, Reason, HasFault
<1>5. /\ wk'[w].pc \in {"bad", "undo", "fail", "failrow", "failclean"} => wk'[w].job = j
      /\ \/ j \in Invalid \/ \E k \in FaultKinds : <<j, k>> \in faulted'
         \/ /\ wk'[w].pc \notin {"bad", "undo", "fail", "failrow", "failclean"}
            /\ row' = row \/ row'[j] # "failed"
            /\ terminal' = terminal /\ erred' = erred
  <2> USE DEF At, PageUnchanged, FinishUnchanged
  <2>1. CASE MarkProcessing(w)
    <3>1. UNCHANGED <<terminal, erred>>
      BY <2>1 DEF MarkProcessing
    <3>2. CASE Fault(j, "mark")
      BY <1>a, <1>c, <2>1, <3>1, <3>2 DEF MarkProcessing
    <3>3. CASE /\ row' = [row EXCEPT ![j] = IF @ \in Unfinished THEN "processing" ELSE @]
               /\ Goto(w, "read")
      <4>1. row' = row \/ row'[j] # "failed"
        <5>1. row \in [Job -> Unfinished \cup Outcome \cup {"none"}]
          BY DEF TypeOK
        <5> QED
          BY <1>2, <3>3, <5>1
      <4>2. wk'[w].pc = "read"
        BY <1>a, <3>3
      <4> QED
        BY <3>1, <4>1, <4>2
    <3> QED
      BY <2>1, <3>2, <3>3 DEF MarkProcessing
  <2>2. CASE ReadPage(w)
    BY <1>a, <1>c, <1>e, <2>2 DEF ReadPage, PageStep
  <2>3. CASE SaveUnit(w)
    BY <1>a, <1>c, <2>3 DEF SaveUnit
  <2>4. CASE RecordPage(w)
    BY <1>b, <2>4 DEF RecordPage
  <2>5. CASE RecordError(w)
    BY <1>b, <1>d, <2>5 DEF RecordError
  <2>6. CASE Assemble(w)
    BY <1>a, <1>b, <1>c, <1>4, <2>6 DEF Assemble
  <2>7. CASE WriteResult(w)
    BY <1>a, <1>c, <2>7 DEF WriteResult
  <2>8. CASE Commit(w)
    BY <1>2, <1>a, <1>c, <2>8 DEF Commit, OutcomeLocked, TypeOK
  <2>9. CASE UnlinkInput(w)
    BY <1>a, <1>c, <2>9 DEF UnlinkInput
  <2>10. CASE UndoResult(w)
    BY <1>a, <1>d, <2>10 DEF UndoResult
  <2>11. CASE PopJob(w)
    BY <1>b, <2>11 DEF PopJob
  <2>12. CASE FailLocked(w)
    BY <1>a, <1>b, <1>d, <2>12 DEF FailLocked
  <2>13. CASE FailRow(w)
    BY <1>a, <1>b, <1>d, <2>13 DEF FailRow, KeepTerminal
  <2>14. CASE FailUnlink(w)
    BY <1>a, <1>b, <1>d, <2>14 DEF FailUnlink, KeepTerminal
  <2> QED
    BY <2>1, <2>2, <2>3, <2>4, <2>5, <2>6, <2>7, <2>8, <2>9, <2>10, <2>11, <2>12, <2>13,
       <2>14 DEF Work
<1>6. \A i \in Job \ {j} :
        /\ row'[i] = row[i]
        /\ i \in terminal' => i \in terminal
        /\ i \in erred' => i \in erred
  <2>1. terminal' \subseteq terminal \cup {j}
    BY WorkKeepsQueue
  <2>2. erred' \subseteq erred \cup {j}
    BY DEF Work, MarkProcessing, ReadPage, SaveUnit, RecordPage, RecordError, Assemble,
           WriteResult, Commit, UnlinkInput, UndoResult, PopJob, FailLocked, FailRow, FailUnlink,
           PageUnchanged, FinishUnchanged
  <2> QED
    BY <1>2, <2>1, <2>2, WorkRow
<1> HIDE DEF j
<1>7. \A i \in Job : row'[i] = "failed" \/ i \in terminal' \cup erred' => Reason(i)'
  <2>1. ASSUME NEW i \in Job, i # j, row'[i] = "failed" \/ i \in terminal' \cup erred'
        PROVE  Reason(i)'
    <3>1. Reason(i)
      BY <1>1, <1>6, <2>1 DEF Blamed
    <3> QED
      BY <3>1, ReasonStays
  <2>2. ASSUME row'[j] = "failed" \/ j \in terminal' \cup erred'
        PROVE  j \in Invalid \/ \E k \in FaultKinds : <<j, k>> \in faulted'
    BY <1>1, <1>2, <1>5, <2>2 DEF Blamed, Reason, HasFault
  <2> QED
    BY <2>1, <2>2 DEF Reason, HasFault
<1>8. ASSUME NEW v \in Worker,
             wk'[v].pc \in {"bad", "undo", "fail", "failrow", "failclean"}
      PROVE  Reason(wk[v].job)'
  BY <1>1, <1>3, <1>5, <1>8 DEF Blamed, Reason, HasFault
<1> QED
  BY <1>7, <1>8 DEF Blamed

\* A page leaves the hands of a worker as done or with an error.
LEMMA KeptMoves ==
  ASSUME TypeOK, Rows, Held, Held', Explained, NEW w \in Worker, Work(w),
         ~PickFinish(w), ~PickUnit(w)
  PROVE  NoPageLost' /\ Complete'
<1> DEFINE j == wk[w].job
<1> USE DEF files, WorkerUnchanged
<1>1. /\ wk \in [Worker -> WorkerState] /\ Places /\ Holding /\ NoPageLost /\ Complete
  BY DEF TypeOK, Held, Explained
<1>2. /\ wk[w].pc \in PageStep \cup FinishStep /\ wk[w].pc # "idle" /\ Moves(w) /\ j \in Job
      /\ Running
  BY <1>1, WorkMoves, StepsDiffer, WorkerHolds
<1>3. /\ \A v \in Worker \ {w} : wk'[v] = wk[v]
      /\ \/ wk'[w] = Idle
         \/ /\ wk'[w].job = wk[w].job /\ wk'[w].page = wk[w].page
            /\ \/ wk[w].pc \in PageStep /\ wk'[w].pc \in PageStep
               \/ wk[w].pc \in FinishStep /\ wk'[w].pc \in FinishStep
  BY <1>1, <1>2, MovesAlone
<1>a. ASSUME NEW step, Goto(w, step)
      PROVE  wk'[w].pc = step
  BY <1>1, <1>2, <1>a, GotoOnly
<1>4. /\ proc' = proc /\ waiting' = waiting /\ active' \subseteq active
      /\ \A i \in Job \ {j} : todo'[i] = todo[i]
  BY <1>2, WorkKeepsQueue DEF TypeOK
<1>5. /\ erred \subseteq erred'
      /\ \A i \in Job : done[i] \subseteq done'[i]
      /\ \A i \in Job \ {j} : done'[i] = done[i]
  <2>1. erred' \in {erred, erred \cup {j}} /\ done' \in {done, [done EXCEPT ![j] = @ \cup {wk[w].page}]}
    BY DEF Work, MarkProcessing, ReadPage, SaveUnit, RecordPage, RecordError, Assemble,
           WriteResult, Commit, UnlinkInput, UndoResult, PopJob, FailLocked, FailRow, FailUnlink,
           PageUnchanged, FinishUnchanged
  <2> QED
    BY <1>2, <2>1 DEF TypeOK
<1>6. wk[w].pc \in PageStep /\ proc = "up" =>
        \/ j \in erred'
        \/ /\ todo' = todo
           /\ \/ wk[w].page \in done'[j]
              \/ wk'[w].job = j /\ wk'[w].page = wk[w].page /\ wk'[w].pc \in PageStep
  <2>1. CASE RecordPage(w)
    BY <1>2, <2>1 DEF RecordPage, PageUnchanged, TypeOK
  <2>2. CASE RecordError(w)
    BY <2>2 DEF RecordError
  <2>3. CASE MarkProcessing(w) \/ ReadPage(w) \/ SaveUnit(w)
    <3>1. wk'[w].pc \in PageStep /\ todo' = todo
      BY <1>a, <2>3 DEF MarkProcessing, ReadPage, SaveUnit, PageUnchanged, PageStep
    <3> QED
      BY <1>3, <3>1, StepsDiffer DEF Idle
  <2>4. CASE wk[w].pc \notin PageStep
    BY <2>4
  <2> QED
    BY <2>1, <2>2, <2>3, <2>4
    DEF Work, At, PageStep, Assemble, WriteResult, Commit, UnlinkInput, UndoResult, PopJob,
        FailLocked, FailRow, FailUnlink
<1>7. wk'[w].pc # "finish" /\ (wk[w].pc \in FinishStep => j \notin waiting \cup active)
  <2>1. wk'[w].pc # "finish"
    BY <1>a, StepsDiffer DEF Work, Rest, Idle, KeepTerminal, MarkProcessing, ReadPage, SaveUnit, RecordPage,
           RecordError, Assemble, WriteResult, Commit, UnlinkInput, UndoResult, PopJob,
           FailLocked, FailRow, FailUnlink, TypeOK
  <2> QED
    BY <1>1, <2>1 DEF Holding
<1> HIDE DEF j
<1>8. NoPageLost'
  <2>1. SUFFICES ASSUME proc \in {"starting", "up"}, NEW i \in waiting \cup active,
                        i \notin erred', NEW p \in Targets[i]
                 PROVE  \/ p \in todo'[i] \cup done'[i]
                        \/ \E v \in Worker :
                             wk'[v].job = i /\ wk'[v].pc \in PageStep /\ wk'[v].page = p
    BY <1>4 DEF NoPageLost
  <2>2. i \in Job /\ proc = "up"
    BY <1>2, <2>1 DEF TypeOK, Running
  <2>3. \/ p \in todo[i] \cup done[i]
        \/ \E v \in Worker : wk[v].job = i /\ wk[v].pc \in PageStep /\ wk[v].page = p
    BY <1>1, <1>5, <2>1 DEF NoPageLost
  <2>4. i = j => wk[w].pc \in PageStep
    BY <1>2, <1>7
  <2>5. todo'[i] = todo[i]
    BY <1>4, <1>6, <2>1, <2>2, <2>4
  <2>6. CASE p \in todo[i] \cup done[i]
    BY <1>5, <2>2, <2>5, <2>6
  <2>7. ASSUME NEW v \in Worker, wk[v].job = i, wk[v].pc \in PageStep, wk[v].page = p
        PROVE  \/ p \in todo'[i] \cup done'[i]
               \/ \E u \in Worker :
                    wk'[u].job = i /\ wk'[u].pc \in PageStep /\ wk'[u].page = p
    <3>1. CASE v # w
      BY <1>3, <2>7, <3>1
    <3>2. CASE v = w
      BY <1>6, <2>1, <2>2, <2>7, <3>2 DEF j
    <3> QED
      BY <3>1, <3>2
  <2> QED
    BY <2>3, <2>6, <2>7
<1>9. Complete'
  <2>1. ASSUME NEW v \in Worker, wk'[v].pc = "finish"
        PROVE  wk'[v].job \in erred' \/ Targets[wk'[v].job] \subseteq done'[wk'[v].job]
    <3>1. v # w /\ wk'[v] = wk[v] /\ wk[v].pc = "finish" /\ wk[v].job \in Job
      BY <1>1, <1>3, <1>7, <2>1, WorkerHolds DEF FinishStep
    <3> QED
      BY <1>1, <1>5, <3>1 DEF Complete
  <2> QED
    BY <2>1 DEF Complete
<1> QED
  BY <1>8, <1>9

LEMMA ExplainedPickFinish ==
  ASSUME TypeOK, Held, Explained, NEW w \in Worker, PickFinish(w)
  PROVE  Explained'
<1> USE DEF pages, WorkerUnchanged, process
<1>1. /\ wk \in [Worker -> WorkerState] /\ Places /\ Blamed /\ NoPageLost /\ Complete
      /\ wk[w].pc = "idle" /\ proc = "up" /\ proc' = proc
      /\ UNCHANGED <<row, terminal, erred, todo, done, faulted>>
  BY DEF TypeOK, Held, Explained, PickFinish, history
<1>2. PICK j \in jobs :
        /\ Finishable(j)
        /\ j \in active \cup waiting
        /\ waiting' \cup active' \subseteq waiting \cup active
        /\ wk' = [wk EXCEPT ![w] = [pc |-> "finish", job |-> j, page |-> NoPage]]
  BY DEF PickFinish, Admitted
<1>3. /\ wk'[w].pc = "finish" /\ wk'[w].job = j
      /\ \A v \in Worker \ {w} : wk'[v] = wk[v]
  BY <1>1, <1>2
<1>4. Blamed'
  BY <1>1, <1>3 DEF Blamed, Reason, HasFault
<1>5. NoPageLost'
  BY <1>1, <1>2, <1>3 DEF NoPageLost, PageStep
<1>6. Complete'
  <2>1. j \in erred \/ Targets[j] \subseteq done[j]
    BY <1>1, <1>2 DEF NoPageLost, Finishable, Inflight
  <2> QED
    BY <1>1, <1>3, <2>1 DEF Complete
<1> QED
  BY <1>4, <1>5, <1>6 DEF Explained

LEMMA ExplainedPickUnit ==
  ASSUME TypeOK, Held, Explained, NEW w \in Worker, PickUnit(w)
  PROVE  Explained'
<1> USE DEF WorkerUnchanged, process, history
<1>1. /\ wk \in [Worker -> WorkerState] /\ Places /\ Blamed /\ NoPageLost /\ Complete
      /\ wk[w].pc = "idle" /\ proc = "up" /\ proc' = proc
      /\ UNCHANGED <<row, terminal, erred, done, faulted>>
      /\ waiting' \cup active' = waiting \cup active
  BY DEF TypeOK, Held, Explained, PickUnit, Admitted
<1>2. PICK j \in active \cup Admitted, p \in Page, step \in {"mark", "read"} :
        /\ todo' = [todo EXCEPT ![j] = @ \ {p}]
        /\ wk' = [wk EXCEPT ![w] = [pc |-> step, job |-> j, page |-> p]]
  <2>1. PICK j \in active \cup Admitted : \E p \in todo[j] :
          /\ todo' = [todo EXCEPT ![j] = @ \ {p}]
          /\ wk' = [wk EXCEPT ![w] =
               [pc |-> IF j \in started THEN "read" ELSE "mark", job |-> j, page |-> p]]
    BY DEF PickUnit
  <2>2. j \in Job
    BY DEF TypeOK, Admitted
  <2> QED
    BY <2>1, <2>2 DEF TypeOK
<1>3. /\ wk'[w].pc = step /\ wk'[w].job = j /\ wk'[w].page = p
      /\ \A v \in Worker \ {w} : wk'[v] = wk[v]
      /\ step \in PageStep /\ "idle" \notin PageStep
  BY <1>1, <1>2 DEF PageStep
<1>4. \A i \in Job : todo'[i] = todo[i] \/ (i = j /\ todo'[i] = todo[i] \ {p})
  BY <1>2 DEF TypeOK
<1>5. Blamed'
  BY <1>1, <1>3 DEF Blamed, Reason, HasFault
<1>6. NoPageLost'
  <2>1. SUFFICES ASSUME NEW i \in waiting \cup active, i \notin erred, NEW q \in Targets[i]
                 PROVE  \/ q \in todo'[i] \cup done[i]
                        \/ \E v \in Worker :
                             wk'[v].job = i /\ wk'[v].pc \in PageStep /\ wk'[v].page = q
    BY <1>1 DEF NoPageLost
  <2>2. \/ q \in todo[i] \cup done[i]
        \/ \E v \in Worker \ {w} :
             wk[v].job = i /\ wk[v].pc \in PageStep /\ wk[v].page = q
    BY <1>1, <1>3, <2>1 DEF NoPageLost
  <2>3. i \in Job
    BY DEF TypeOK
  <2> QED
    BY <1>3, <1>4, <2>2, <2>3
<1>7. Complete'
  BY <1>1, <1>3 DEF Complete
<1> QED
  BY <1>5, <1>6, <1>7 DEF Explained

LEMMA ExplainedSubmit ==
  ASSUME TypeOK, Rows, Held, Explained, faulted \subseteq faulted', NEW j \in Job, Submit(j)
  PROVE  Explained'
<1> USE DEF ledger, SubmitUnchanged, process, queue, pages
<1>1. /\ Places /\ Holding /\ Blamed /\ NoPageLost /\ Complete
      /\ wk' = wk /\ proc' = proc /\ terminal' = terminal /\ erred' = erred
  BY DEF Held, Explained, Submit, Reserve, Refuse, InsertFailed, SpillInput, InsertRow,
         Enqueue, Release, EnqueueLocked
<1>2. Blamed'
  <2>1. \/ row' = row
        \/ row' = [row EXCEPT ![j] = "failed"] /\ j \in Invalid
        \/ row' = [row EXCEPT ![j] = "pending"]
    BY DEF Submit, Reserve, Refuse, InsertFailed, SpillInput, InsertRow, Enqueue, Release,
           InsertLocked
  <2>2. \A i \in Job : row'[i] = "failed" => row[i] = "failed" \/ i \in Invalid
    BY <2>1 DEF TypeOK
  <2> QED
    BY <1>1, <2>2 DEF Blamed, Reason, HasFault
<1>3. CASE Enqueue(j)
  <2>1. /\ sub[j] = "inserted" /\ waiting' = waiting \cup {j} /\ active' = active
        /\ todo' = [todo EXCEPT ![j] = Targets[j]] /\ done' = [done EXCEPT ![j] = {}]
    BY <1>3 DEF Enqueue, EnqueueLocked
  <2>2. /\ todo'[j] = Targets[j]
        /\ \A i \in Job \ {j} : todo'[i] = todo[i] /\ done'[i] = done[i]
    BY <2>1 DEF TypeOK
  <2>3. NoPageLost'
    BY <1>1, <2>1, <2>2 DEF NoPageLost, TypeOK
  <2>4. \A w \in Worker : wk[w].pc = "finish" => wk[w].job \in Job \ {j}
    BY <1>1, <2>1, WorkerHolds DEF Holding, Places, FinishStep, TypeOK
  <2>5. Complete'
    BY <1>1, <2>2, <2>4 DEF Complete
  <2> QED
    BY <1>2, <2>3, <2>5 DEF Explained
<1>4. CASE ~Enqueue(j)
  <2>1. UNCHANGED <<waiting, active, todo, done>>
    BY <1>4 DEF Submit, Reserve, Refuse, InsertFailed, SpillInput, InsertRow, Release
  <2> QED
    BY <1>1, <1>2, <2>1 DEF Explained, NoPageLost, Complete
<1> QED
  BY <1>3, <1>4

LEMMA ExplainedLife ==
  ASSUME TypeOK, Rows, Held, Explained, faulted \subseteq faulted', Life
  PROVE  Explained'
<1> USE DEF ledger, process, queue, pages
<1>1. /\ FreshProcess /\ Blamed /\ NoPageLost /\ Complete
      /\ Idle.pc = "idle" /\ "idle" \notin PageStep
      /\ \A j \in toRecover : row[j] \in Unfinished /\ j \in inputs
  BY DEF Held, Explained, Idle, PageStep, Rows, CoveredRows, InputPresentWhileUnfinished,
         UnfinishedRows
<1>2. ASSUME LoseMemory, proc' = "down",
             \A j \in Job : row'[j] = "failed" => row[j] = "failed" \/ Reason(j)'
      PROVE  Explained'
  <2>1. Blamed'
    BY <1>1, <1>2 DEF LoseMemory, Blamed, Reason, HasFault
  <2> QED
    BY <1>1, <1>2, <2>1 DEF LoseMemory, Explained, NoPageLost, Complete
<1>3. CASE Start \/ StartDone \/ Shutdown
  <2>1. /\ UNCHANGED <<row, wk, waiting, active, terminal, erred, todo, done>>
        /\ proc' \in {"starting", "up"} => proc = "starting" \/ waiting \cup active = {}
    BY <1>1, <1>3 DEF Start, StartDone, Shutdown, FreshProcess, Running
  <2>2. Blamed'
    BY <1>1, <2>1 DEF Blamed, Reason, HasFault
  <2> QED
    BY <1>1, <2>1, <2>2 DEF Explained, NoPageLost, Complete
<1>4. ASSUME NEW j \in Job, RecoverRow(j)
      PROVE  Explained'
  <2>1. /\ waiting' = waiting \cup {j} /\ active' = active
        /\ todo' = [todo EXCEPT ![j] = Targets[j] \ units[j]]
        /\ done' = [done EXCEPT ![j] = units[j]]
        /\ UNCHANGED <<proc, row, terminal, erred, wk>> /\ proc = "starting"
    BY <1>4 DEF RecoverRow, EnqueueLocked
  <2>2. /\ todo'[j] = Targets[j] \ units[j] /\ done'[j] = units[j]
        /\ \A i \in Job \ {j} : todo'[i] = todo[i] /\ done'[i] = done[i]
        /\ \A w \in Worker : wk[w] = Idle
    BY <1>1, <2>1 DEF TypeOK, FreshProcess, Running
  <2>3. Blamed'
    BY <1>1, <2>1 DEF Blamed, Reason, HasFault
  <2>4. NoPageLost'
    BY <1>1, <2>1, <2>2 DEF NoPageLost, TypeOK
  <2> QED
    BY <1>1, <2>1, <2>2, <2>3, <2>4 DEF Explained, Complete
<1>5. ASSUME NEW j \in Job, RecoverFailed(j)
      PROVE  Explained'
  <2>1. /\ row' = [row EXCEPT ![j] = "failed"] /\ Fault(j, "units")
        /\ UNCHANGED <<proc, terminal, erred, wk, waiting, active, todo, done>>
    BY <1>1, <1>5 DEF RecoverFailed, NextRow, OutcomeLocked
  <2>2. j \in Invalid \/ \E k \in FaultKinds : <<j, k>> \in faulted'
    BY <2>1 DEF Fault, Faults
  <2>3. \A i \in Job : row'[i] = "failed" => row[i] = "failed" \/ i = j
    BY <2>1 DEF TypeOK
  <2>4. Blamed'
    BY <1>1, <2>1, <2>2, <2>3 DEF Blamed, Reason, HasFault
  <2> QED
    BY <1>1, <2>1, <2>4 DEF Explained, NoPageLost, Complete
<1>6. ASSUME NEW j \in Job, RecoverAborted(j)
      PROVE  Explained'
  <2>1. \E k \in FaultKinds : <<j, k>> \in faulted'
    BY <1>6 DEF RecoverAborted, Faults
  <2>2. \A i \in Job : row'[i] = "failed" => row[i] = "failed" \/ i = j
    BY <1>6 DEF RecoverAborted, OutcomeLocked, TypeOK
  <2> QED
    BY <1>2, <1>6, <2>1, <2>2 DEF RecoverAborted, Reason, HasFault
<1>7. CASE Exit
  BY <1>2, <1>7 DEF Exit
<1>8. CASE Crash
  BY <1>2, <1>8 DEF Crash
<1> QED
  BY <1>3, <1>4, <1>5, <1>6, <1>7, <1>8 DEF Life

LEMMA ExplainedStep ==
  ASSUME TypeOK, Rows, Held, Settled, Explained, [Next]_vars
  PROVE  Explained'
<1>0. faulted \subseteq faulted' /\ Held'
  BY FaultedGrows, HeldStep
<1>1. ASSUME NEW j \in Job, Submit(j) PROVE Explained'
  BY <1>0, <1>1, ExplainedSubmit
<1>2. ASSUME NEW w \in Worker, Work(w) PROVE Explained'
  BY <1>0, <1>2, BlamedMoves, KeptMoves, ExplainedPickFinish, ExplainedPickUnit DEF Explained
<1>3. CASE Life
  BY <1>0, <1>3, ExplainedLife
<1>4. CASE UNCHANGED vars
  BY <1>4 DEF vars, ledger, process, queue, pages, history, Explained, Blamed, NoPageLost,
              Complete, Reason, HasFault
<1> QED
  BY <1>1, <1>2, <1>3, <1>4 DEF Next

-----------------------------------------------------------------------------
(* No unfinished row is left alone *)

\* A worker that stops settling a job has settled it, or has its failure in memory.
LEMMA RestSettles ==
  ASSUME TypeOK, Rows, Held, NEW w \in Worker, Work(w), wk[w].pc \in FinishStep,
         wk'[w].pc \notin FinishStep, proc = "up"
  PROVE  row'[wk[w].job] \in Outcome \/ wk[w].job \in terminal'
<1> USE DEF WorkerUnchanged, files
<1>1. wk \in [Worker -> WorkerState] /\ wk[w].pc # "idle"
  BY StepsDiffer DEF TypeOK
<1>a. ASSUME NEW step \in FinishStep, Goto(w, step)
      PROVE  FALSE
  BY <1>1, <1>a, GotoOnly
<1>2. CASE PopJob(w)
  <2>1. row[wk[w].job] \in Outcome
    BY <1>2 DEF PopJob, At, Rows, SettledRows
  <2> QED
    BY <1>2, <2>1 DEF PopJob, FinishUnchanged
<1>3. CASE FailRow(w) \/ FailUnlink(w)
  BY <1>a, <1>3 DEF FailRow, FailUnlink, KeepTerminal, FinishStep
<1>4. CASE FailLocked(w)
  BY <1>a, <1>4 DEF FailLocked, FinishStep
<1>5. CASE Assemble(w) \/ WriteResult(w) \/ Commit(w) \/ UnlinkInput(w) \/ UndoResult(w)
  BY <1>a, <1>5 DEF Assemble, WriteResult, Commit, UnlinkInput, UndoResult, FinishStep
<1>6. wk[w].pc \notin {"idle", "mark", "read", "save", "good", "bad"}
  BY StepsDiffer DEF PageStep
<1> QED
  BY <1>2, <1>3, <1>4, <1>5, <1>6
  DEF Work, At, PickFinish, PickUnit, MarkProcessing, ReadPage, SaveUnit, RecordPage, RecordError

LEMMA StrandedWork ==
  ASSUME TypeOK, Rows, Held, NoRowStranded, NEW w \in Worker, Work(w)
  PROVE  NoRowStranded'
<1>1. /\ wk \in [Worker -> WorkerState] /\ Holding
      /\ wk[w].job \in Job \/ wk[w].pc = "idle"
  BY WorkerHolds DEF TypeOK, Held
<1>2. SUFFICES ASSUME proc' = "up", NEW j \in Job, row'[j] \in Unfinished
               PROVE  \/ j \in waiting' \cup active' \cup terminal'
                      \/ \E v \in Worker : wk'[v].job = j /\ wk'[v].pc \in FinishStep
                      \/ sub'[j] = "inserted"
  BY DEF NoRowStranded, UnfinishedRows
<1>3. /\ row[j] \in Unfinished
      /\ \A i \in Job : row'[i] \in Outcome => row'[i] \notin Unfinished
  BY <1>1, <1>2, WorkRow DEF Unfinished, Outcome
<1>4. CASE PickFinish(w)
  <2> USE DEF WorkerUnchanged, process, pages
  <2>1. PICK i \in jobs :
          /\ waiting \cup active \subseteq waiting' \cup active' \cup {i}
          /\ wk' = [wk EXCEPT ![w] = [pc |-> "finish", job |-> i, page |-> NoPage]]
    BY <1>4 DEF PickFinish
  <2>2. /\ wk[w].pc \notin FinishStep /\ proc = "up"
        /\ UNCHANGED <<sub, terminal>>
    BY <1>4, StepsDiffer DEF PickFinish
  <2>3. /\ wk'[w].pc \in FinishStep /\ wk'[w].job = i
        /\ \A v \in Worker \ {w} : wk'[v] = wk[v]
    BY <1>1, <2>1 DEF FinishStep
  <2> QED
    BY <1>2, <1>3, <2>1, <2>2, <2>3 DEF NoRowStranded, UnfinishedRows
<1>5. CASE PickUnit(w)
  <2>1. /\ wk[w].pc \notin FinishStep /\ proc = "up"
        /\ UNCHANGED <<sub, terminal>>
        /\ waiting \cup active \subseteq waiting' \cup active'
    BY <1>5, StepsDiffer DEF PickUnit, WorkerUnchanged, process
  <2>2. \A v \in Worker \ {w} : wk'[v] = wk[v]
    BY <1>1, <1>5 DEF PickUnit
  <2> QED
    BY <1>2, <1>3, <2>1, <2>2 DEF NoRowStranded, UnfinishedRows
<1>6. CASE ~PickFinish(w) /\ ~PickUnit(w)
  <2>1. /\ wk[w].pc \in PageStep \cup FinishStep /\ wk[w].pc # "idle" /\ Moves(w)
    BY <1>6, WorkMoves, StepsDiffer
  <2>2. /\ proc = "up" /\ sub' = sub /\ waiting' = waiting /\ terminal \subseteq terminal'
        /\ active' \in {active, active \ {wk[w].job}}
        /\ active' # active => wk[w].pc \in FinishStep
    BY <1>2, <1>6, WorkKeepsQueue
  <2>3. active' = active
    BY <1>1, <2>2 DEF Holding
  <2>4. /\ \A v \in Worker \ {w} : wk'[v] = wk[v]
        /\ wk'[w].pc \in FinishStep => wk'[w].job = wk[w].job
    BY <1>1, <2>1, MovesAlone, StepsDiffer DEF Idle
  <2>5. wk'[w].pc \in FinishStep => wk'[w].job = wk[w].job
    BY <2>4
  <2>6. wk[w].pc \in FinishStep /\ wk[w].job = j =>
          wk'[w].pc \in FinishStep \/ j \in terminal'
    BY <1>2, <1>3, <2>2, RestSettles
  <2> QED
    BY <1>2, <1>3, <2>2, <2>3, <2>4, <2>5, <2>6 DEF NoRowStranded, UnfinishedRows
<1> QED
  BY <1>4, <1>5, <1>6

LEMMA StrandedStep ==
  ASSUME TypeOK, Rows, Held, NoRowStranded, [Next]_vars
  PROVE  NoRowStranded'
<1> USE DEF ledger, process, queue, pages
<1>1. ASSUME NEW i \in Job, Submit(i)
      PROVE  NoRowStranded'
  <2>1. /\ UNCHANGED <<proc, wk, active, terminal>> /\ waiting \subseteq waiting'
        /\ \A j \in Job \ {i} : row'[j] = row[j] /\ sub'[j] = sub[j]
    BY <1>1 DEF Submit, Reserve, Refuse, InsertFailed, SpillInput, InsertRow, Enqueue, Release,
                InsertLocked, EnqueueLocked, SubmitUnchanged, TypeOK
  <2>2. row'[i] \in Unfinished =>
          \/ row[i] = row'[i] /\ sub[i] # "inserted"
          \/ i \in waiting'
          \/ sub'[i] = "inserted"
    BY <1>1 DEF Submit, Reserve, Refuse, InsertFailed, SpillInput, InsertRow, Enqueue, Release,
                InsertLocked, EnqueueLocked, TypeOK, Unfinished
  <2> QED
    BY <2>1, <2>2 DEF NoRowStranded, UnfinishedRows
<1>2. ASSUME NEW w \in Worker, Work(w) PROVE NoRowStranded'
  BY <1>2, StrandedWork
<1>3. CASE StartDone
  <2>1. UnfinishedRows \subseteq waiting /\ row' = row /\ waiting' = waiting
    BY <1>3 DEF StartDone, Rows, CoveredRows, Held, FreshProcess, Running
  <2> QED
    BY <2>1 DEF NoRowStranded, UnfinishedRows
<1>4. CASE Life /\ ~StartDone
  BY <1>4 DEF Life, Start, RecoverRow, RecoverFailed, RecoverAborted, Shutdown, Exit, Crash,
              NoRowStranded
<1>5. CASE UNCHANGED vars
  BY <1>5 DEF vars, NoRowStranded, UnfinishedRows
<1> QED
  BY <1>1, <1>2, <1>3, <1>4, <1>5 DEF Next

-----------------------------------------------------------------------------
(* Jobs are served in order *)

\* Tickets and row numbers are given out once, in increasing order.
Numbered ==
  /\ \A j \in jobs : ticket[j] < nextTicket
  /\ \A j \in Job : row[j] # "none" => seqno[j] < nextSeq
  /\ \A i, j \in Job : i # j /\ row[i] # "none" /\ row[j] # "none" => seqno[i] # seqno[j]

\* The first jobs in line come before those that stay in line.
LEMMA AdmittedComeFirst ==
  ASSUME TypeOK, NEW i \in Admitted, NEW j \in waiting \ Admitted
  PROVE  ticket[i] < ticket[j]
<1> DEFINE before(k) == {l \in waiting : ticket[l] < ticket[k]}
<1>1. SUFFICES ASSUME ~(ticket[i] < ticket[j]) PROVE FALSE
  OBVIOUS
<1>2. /\ i \in waiting /\ Cardinality(before(i)) < Room
      /\ ~(Cardinality(before(j)) < Room)
  BY DEF Admitted
<1>3. /\ IsFiniteSet(before(i)) /\ IsFiniteSet(active)
      /\ waiting \subseteq Job /\ ticket \in [Job -> Nat]
  BY JobAssumption, FS_Subset DEF TypeOK
<1>4. before(j) \subseteq before(i)
  BY <1>1, <1>2, <1>3
<1>5. /\ Cardinality(before(j)) \in Nat /\ Cardinality(before(i)) \in Nat
      /\ Cardinality(before(j)) <= Cardinality(before(i))
      /\ Room \in Int
  BY <1>3, <1>4, FS_Subset, FS_CardinalityType, LimitAssumption DEF Room
<1> HIDE DEF before
<1> QED
  BY <1>2, <1>5

LEMMA NumberedStep ==
  ASSUME TypeOK, Rows, Held, Numbered, [Next]_vars
  PROVE  Numbered'
<1> USE DEF ledger, process, queue, pages
<1>1. ASSUME NEW j \in Job, Submit(j)
      PROVE  Numbered'
  <2>1. sub[j] \in {"reserved", "spilled"} => row[j] = "none"
    BY DEF Rows, SubmissionOrder
  <2>2. CASE InsertFailed(j) \/ InsertRow(j)
    <3>1. /\ sub[j] \in {"reserved", "spilled"}
          /\ UNCHANGED <<jobs, ticket, nextTicket>>
          /\ UNCHANGED <<row, seqno, nextSeq>>
               \/ InsertLocked(j, "failed") \/ InsertLocked(j, "pending")
      BY <2>2 DEF InsertFailed, InsertRow
    <3> QED
      BY <2>1, <3>1 DEF Numbered, InsertLocked, TypeOK
  <2>3. CASE Enqueue(j)
    BY <2>3 DEF Enqueue, EnqueueLocked, Numbered, TypeOK
  <2> QED
    BY <1>1, <2>2, <2>3 DEF Submit, Reserve, Refuse, SpillInput, Release, Numbered
<1>2. ASSUME NEW w \in Worker, Work(w)
      PROVE  Numbered'
  <2>1. /\ UNCHANGED <<seqno, nextSeq, ticket, nextTicket>> /\ jobs' \subseteq jobs
        /\ \A j \in Job : row'[j] = "none" <=> row[j] = "none"
    BY <1>2, WorkKeepsQueue, WorkKeepsRows DEF PickFinish, PickUnit, WorkerUnchanged
  <2> QED
    BY <2>1 DEF Numbered
<1>3. CASE Life
  <2>1. /\ UNCHANGED <<seqno, nextSeq>>
        /\ \A j \in Job : row'[j] # "none" => row[j] # "none"
    BY <1>3 DEF Life, Start, StartDone, RecoverRow, RecoverFailed, RecoverAborted, Shutdown,
                Exit, Crash, OutcomeLocked, NextRow, Rows, CoveredRows, UnfinishedRows,
                Unfinished, TypeOK
  <2>2. \/ UNCHANGED <<jobs, ticket, nextTicket>>
        \/ jobs' = {}
        \/ \E j \in Job : EnqueueLocked(j, units[j])
    BY <1>3 DEF Life, Start, StartDone, RecoverRow, RecoverFailed, RecoverAborted, Shutdown,
                Exit, Crash, LoseMemory
  <2>3. \A j \in jobs' : ticket'[j] < nextTicket'
    BY <2>2 DEF EnqueueLocked, Numbered, TypeOK
  <2> QED
    BY <2>1, <2>3 DEF Numbered
<1>4. CASE UNCHANGED vars
  BY <1>4 DEF vars, Numbered
<1> QED
  BY <1>1, <1>2, <1>3, <1>4 DEF Next

LEMMA OrderSubmit ==
  ASSUME TypeOK, Rows, Held, Numbered, KeepsOrder, NEW j \in Job, Submit(j)
  PROVE  KeepsOrder'
<1> USE DEF process, queue, pages
<1>1. proc' = proc /\ proc # "starting"
  BY DEF Submit, Reserve, Refuse, InsertFailed, SpillInput, InsertRow, Enqueue, Release,
         SubmitUnchanged, Running
<1>2. CASE Enqueue(j)
  <2>1. /\ active' = active /\ waiting' = waiting \cup {j} /\ j \notin jobs
        /\ ticket' = [ticket EXCEPT ![j] = nextTicket]
        /\ active \subseteq jobs /\ waiting \subseteq jobs /\ jobs \subseteq Job
    BY <1>2 DEF Enqueue, EnqueueLocked, Held, Places, TypeOK
  <2>2. AdmittedInOrder'
    BY <2>1 DEF AdmittedInOrder, KeepsOrder, Numbered, TypeOK
  <2> QED
    BY <1>1, <2>2 DEF KeepsOrder, RecoveredInLedgerOrder
<1>3. CASE ~Enqueue(j)
  <2>1. UNCHANGED <<active, waiting, ticket>>
    BY <1>3 DEF Submit, Reserve, Refuse, InsertFailed, SpillInput, InsertRow, Release
  <2> QED
    BY <1>1, <2>1 DEF KeepsOrder, AdmittedInOrder, RecoveredInLedgerOrder
<1> QED
  BY <1>2, <1>3

LEMMA OrderWork ==
  ASSUME TypeOK, Held, KeepsOrder, NEW w \in Worker, Work(w)
  PROVE  KeepsOrder'
<1>1. /\ ticket' = ticket /\ proc' = proc /\ proc # "starting"
  BY WorkKeepsQueue, WorkMoves DEF PickFinish, PickUnit, WorkerUnchanged, process, Running
<1>2. \/ waiting' = waiting /\ active' \subseteq active
      \/ waiting' = waiting \ Admitted /\ active' \subseteq active \cup Admitted
  BY WorkKeepsQueue DEF PickFinish, PickUnit
<1>3. AdmittedInOrder'
  BY <1>1, <1>2, AdmittedComeFirst DEF AdmittedInOrder, KeepsOrder, Admitted
<1> QED
  BY <1>1, <1>3 DEF KeepsOrder, RecoveredInLedgerOrder

LEMMA OrderLife ==
  ASSUME TypeOK, Rows, Held, Numbered, KeepsOrder, Life
  PROVE  KeepsOrder'
<1> USE DEF ledger, process, queue, pages
<1>1. ASSUME NEW j \in Job, RecoverRow(j)
      PROVE  KeepsOrder'
  <2>1. /\ jobs' = jobs \cup {j} /\ waiting' = waiting \cup {j} /\ active' = active
        /\ ticket' = [ticket EXCEPT ![j] = nextTicket]
        /\ seqno' = seqno /\ proc' = proc /\ toRecover' = toRecover \ {j}
        /\ proc = "starting" /\ j \in toRecover /\ \A i \in toRecover : seqno[j] <= seqno[i]
    BY <1>1 DEF RecoverRow, NextRow, EnqueueLocked
  <2>2. /\ active = {} /\ jobs \cap toRecover = {} /\ j \notin jobs
        /\ \A i \in jobs : ticket[i] < nextTicket
        /\ \A i \in jobs : seqno[i] < seqno[j]
        /\ \A i, k \in jobs : seqno[i] < seqno[k] => ticket[i] < ticket[k]
        /\ \A i \in jobs, k \in toRecover : seqno[i] < seqno[k]
    BY <2>1 DEF Held, FreshProcess, Running, Numbered, KeepsOrder, RecoveredInLedgerOrder
  <2>3. \A k \in toRecover \ {j} : seqno[j] < seqno[k]
    <3>1. \A k \in toRecover : row[k] # "none" /\ k \in Job
      BY DEF Rows, CoveredRows, UnfinishedRows, Unfinished
    <3> QED
      BY <2>1, <3>1 DEF Numbered, TypeOK
  <2>4. \A i, k \in jobs \cup {j} : seqno[i] < seqno[k] => ticket'[i] < ticket'[k]
    <3>1. ticket'[j] = nextTicket /\ \A i \in jobs : ticket'[i] = ticket[i]
      BY <2>1, <2>2 DEF TypeOK
    <3>2. \A i \in jobs \cup {j} : seqno[i] \in Nat
      BY DEF TypeOK
    <3> QED
      BY <2>2, <3>1, <3>2
  <2> QED
    BY <2>1, <2>2, <2>3, <2>4 DEF KeepsOrder, AdmittedInOrder, RecoveredInLedgerOrder
<1>2. ASSUME NEW j \in Job, RecoverFailed(j)
      PROVE  KeepsOrder'
  BY <1>2 DEF RecoverFailed, KeepsOrder, AdmittedInOrder, RecoveredInLedgerOrder
<1>3. ASSUME LoseMemory, proc' = "down"
      PROVE  KeepsOrder'
  BY <1>3 DEF LoseMemory, KeepsOrder, AdmittedInOrder, RecoveredInLedgerOrder
<1>4. CASE Start
  <2>1. jobs = {} /\ jobs' = jobs /\ active' = active /\ active = {}
    BY <1>4 DEF Start, Held, FreshProcess, Running
  <2> QED
    BY <2>1 DEF KeepsOrder, AdmittedInOrder, RecoveredInLedgerOrder
<1>5. CASE StartDone \/ Shutdown
  BY <1>5 DEF StartDone, Shutdown, KeepsOrder, AdmittedInOrder, RecoveredInLedgerOrder
<1> QED
  BY <1>1, <1>2, <1>3, <1>4, <1>5 DEF Life, RecoverAborted, Exit, Crash

LEMMA OrderStep ==
  ASSUME TypeOK, Rows, Held, Numbered, KeepsOrder, [Next]_vars
  PROVE  KeepsOrder'
<1>1. ASSUME NEW j \in Job, Submit(j) PROVE KeepsOrder'
  BY <1>1, OrderSubmit
<1>2. ASSUME NEW w \in Worker, Work(w) PROVE KeepsOrder'
  BY <1>2, OrderWork
<1>3. CASE Life
  BY <1>3, OrderLife
<1>4. CASE UNCHANGED vars
  BY <1>4 DEF vars, ledger, process, queue, KeepsOrder, AdmittedInOrder, RecoveredInLedgerOrder
<1> QED
  BY <1>1, <1>2, <1>3, <1>4 DEF Next

-----------------------------------------------------------------------------
(* The invariant of the service, and what follows from it *)

Service ==
  /\ IInv
  /\ Held /\ Paged /\ InUse
  /\ Settled /\ Explained
  /\ NoRowStranded /\ Numbered /\ KeepsOrder

\* The ledger, the queue, the workers and the decrypted documents agree at every
\* instant, for any number of jobs, pages, workers, errors and restarts.
THEOREM ServiceInvariant == Spec => []Service
<1>1. Init => Service
  <2>1. Init => NoRowStranded /\ Numbered /\ KeepsOrder
    BY DEF Init, NoRowStranded, Numbered, KeepsOrder, RecoveredInLedgerOrder, AdmittedInOrder
  <2> QED
    BY <2>1, TypeInit, RowsInit, BoundedInit, HeldInit, PagedInit, InUseInit, SettledInit,
       ExplainedInit
    DEF Service, IInv, Rows
<1>2. Service /\ [Next]_vars => Service'
  <2>1. SUFFICES ASSUME Service, [Next]_vars PROVE Service'
    OBVIOUS
  <2>2. IInv' /\ TypeOK /\ Rows
    BY <2>1, TypeStep, RowsStep, BoundedStep DEF Service, IInv, Rows
  <2>3. Held' /\ Paged' /\ InUse' /\ Settled' /\ Explained'
    BY <2>1, <2>2, HeldStep, PagedStep, InUseStep, SettledStep, ExplainedStep DEF Service
  <2>4. NoRowStranded' /\ Numbered' /\ KeepsOrder'
    BY <2>1, <2>2, StrandedStep, NumberedStep, OrderStep DEF Service
  <2> QED
    BY <2>2, <2>3, <2>4 DEF Service
<1> QED
  BY <1>1, <1>2, PTL DEF Spec

\* A page is at one place, done means checkpointed, and a decrypted document is in
\* memory only while a worker may use it (the critical sections of _run_and_record and
\* _finish).
THEOREM WorkIsAccounted == Spec => []WorkAccounted
<1>1. Service => WorkAccounted
  BY DEF Service, Paged, InUse, WorkAccounted
<1> QED
  BY <1>1, ServiceInvariant, PTL

\* A job fails for a reason only: nothing but an invalid request or an I/O error that
\* was raised makes a row, a worker or the memory say failed.
LEMMA FailureHasReason ==
  ASSUME Blamed
  PROVE  NoSpuriousFailure
BY DEF Blamed, Reason, NoSpuriousFailure

\* An unfinished row is being worked on, a failed one had a reason, a completed one has
\* its result, whatever raised or died on the way (complete, fail, _finish, start).
THEOREM RowsAreAccounted == Spec => []EveryRowAccounted
<1>1. Service => EveryRowAccounted
  BY FailureHasReason DEF Service, Settled, Explained, EveryRowAccounted
<1> QED
  BY <1>1, ServiceInvariant, PTL

\* No job overtakes an earlier one, and a restart serves the recovered jobs in their
\* ledger order, before any new one (_next_unit_locked, unfinished, start).
THEOREM OrderIsKept == Spec => []KeepsOrder
<1>1. Service => KeepsOrder
  BY DEF Service
<1> QED
  BY <1>1, ServiceInvariant, PTL

\* A recorded outcome never changes, but for a result taken back after the unlink of
\* its input raised (complete's except clause); no restart revisits a finished row.
THEOREM OutcomeStays == Spec => OutcomeIsFinal
<1> DEFINE Final ==
      \A j \in Job : row[j] \in Outcome =>
        \/ row'[j] = row[j]
        \/ row[j] = "completed" /\ row'[j] = "failed" /\ HasFault(j, {"unlink"})
<1>1. Service /\ [Next]_vars => [Final]_vars
  BY FinalStep DEF Service, IInv, Rows
<1> QED
  BY <1>1, ServiceInvariant, PTL DEF Spec, OutcomeIsFinal

-----------------------------------------------------------------------------
(* What the polls see, when no unlink of a file raises *)

\* A failure is kept in memory only when the ledger does not have it.
Unrecorded == \A j \in terminal : row[j] \in Unfinished

\* Nobody works on a row before its submission has put it into the queue.
PendingUntilQueued == \A j \in Job : sub[j] = "inserted" => row[j] = "pending"

Polled == Service /\ Unrecorded /\ PendingUntilQueued

\* Without an error of that kind, nothing is excused by one.
LEMMA NoUnlinkFault ==
  ASSUME "unlink" \notin FaultKinds, TypeOK
  PROVE  \A j : ~HasFault(j, {"unlink"})
BY DEF TypeOK, HasFault

LEMMA UnrecordedStep ==
  ASSUME "unlink" \notin FaultKinds, Service, Unrecorded, [Next]_vars
  PROVE  Unrecorded'
<1> USE DEF ledger, process, queue, pages
<1>1. /\ TypeOK /\ Rows /\ Held /\ Settled /\ Places /\ Holding /\ FreshProcess
      /\ \A j : ~HasFault(j, {"unlink"})
  BY NoUnlinkFault DEF Service, IInv, Rows, Held
<1>2. ASSUME NEW i \in Job, Submit(i)
      PROVE  Unrecorded'
  <2>1. /\ terminal' = terminal
        /\ row' = row \/ (row[i] = "none" /\ \A j \in Job \ {i} : row'[j] = row[j])
    BY <1>1, <1>2 DEF Submit, Reserve, Refuse, InsertFailed, SpillInput, InsertRow, Enqueue,
                      Release, InsertLocked, EnqueueLocked, Rows, SubmissionOrder, TypeOK
  <2> QED
    BY <1>1, <2>1 DEF Unrecorded, Places, TypeOK
<1>3. ASSUME NEW w \in Worker, Work(w)
      PROVE  Unrecorded'
  <2>1. CASE PickFinish(w) \/ PickUnit(w)
    BY <2>1 DEF PickFinish, PickUnit, Unrecorded
  <2>2. CASE ~PickFinish(w) /\ ~PickUnit(w)
    <3>1. /\ wk[w].pc \in PageStep \cup FinishStep /\ wk[w].pc # "idle"
          /\ wk[w].job \in Job
      BY <1>1, <1>3, <2>2, WorkMoves, StepsDiffer, WorkerHolds DEF TypeOK
    <3>2. wk[w].job \notin terminal
      BY <1>1, <3>1 DEF Holding, Places
    <3>3. \A j \in terminal : row'[j] = row[j] /\ j \in Job
      BY <1>1, <1>3, <3>2, WorkKeepsRows DEF Unrecorded, TypeOK
    <3>4. CASE terminal' = terminal
      BY <3>3, <3>4 DEF Unrecorded
    <3>5. CASE terminal' # terminal
      <4>1. ~FailUnlink(w) \/ terminal' = terminal
        BY <1>1 DEF FailUnlink, Fault, Faults
      <4>2. FailRow(w) /\ terminal' = terminal \cup {wk[w].job} /\ row' = row
        BY <1>3, <2>2, <3>5, <4>1
        DEF Work, FailRow, KeepTerminal, MarkProcessing, ReadPage, SaveUnit, RecordPage,
            RecordError, Assemble, WriteResult, Commit, UnlinkInput, UndoResult, PopJob,
            FailLocked, PageUnchanged, FinishUnchanged
      <4>3. row[wk[w].job] \in Unfinished
        BY <1>1, <4>2 DEF FailRow, At, Settled, RowFits
      <4> QED
        BY <4>2, <4>3 DEF Unrecorded
    <3> QED
      BY <3>4, <3>5
  <2> QED
    BY <2>1, <2>2
<1>4. CASE Life
  <2>1. \/ row' = row /\ terminal' = terminal
        \/ terminal' = {}
    BY <1>1, <1>4 DEF Life, Start, StartDone, RecoverRow, RecoverFailed, RecoverAborted, Shutdown,
                Exit, Crash, LoseMemory, EnqueueLocked, FreshProcess, Running
  <2> QED
    BY <2>1 DEF Unrecorded
<1>5. CASE UNCHANGED vars
  BY <1>5 DEF vars, Unrecorded
<1> QED
  BY <1>2, <1>3, <1>4, <1>5 DEF Next

LEMMA PendingStep ==
  ASSUME Service, PendingUntilQueued, [Next]_vars
  PROVE  PendingUntilQueued'
<1> USE DEF ledger, process
<1>1. TypeOK /\ Rows /\ Held /\ Places /\ Holding
  BY DEF Service, IInv, Rows, Held
<1>2. ASSUME NEW i \in Job, Submit(i)
      PROVE  PendingUntilQueued'
  BY <1>1, <1>2 DEF Submit, Reserve, Refuse, InsertFailed, SpillInput, InsertRow, Enqueue,
                    Release, InsertLocked, TypeOK, PendingUntilQueued
<1>3. ASSUME NEW w \in Worker, Work(w)
      PROVE  PendingUntilQueued'
  <2>1. sub' = sub
    BY <1>3, WorkKeepsQueue DEF PickFinish, PickUnit, WorkerUnchanged
  <2>2. CASE wk[w].pc = "idle"
    <3>1. row' = row
      BY <1>1, <1>3, <2>2, WorkRow
    <3> QED
      BY <2>1, <3>1 DEF PendingUntilQueued
  <2>3. CASE wk[w].pc # "idle"
    <3>1. wk[w].job \in jobs
      BY <1>1, <2>3, IdleHasNoJob DEF Holding, Places, TypeOK
    <3>2. \A j \in Job : sub[j] = "inserted" => row'[j] = row[j]
      BY <1>1, <1>3, <3>1, WorkKeepsRows DEF Places
    <3> QED
      BY <2>1, <3>2 DEF PendingUntilQueued
  <2> QED
    BY <2>2, <2>3
<1>4. CASE Life
  <2>1. ~Running => \A j \in Job : sub[j] # "inserted"
    BY <1>1 DEF Rows, SubmissionOrder, Submitting
  <2>2. \/ row' = row /\ sub' = sub
        \/ sub' = sub /\ ~Running
        \/ Hangup
    BY <1>4 DEF Life, Start, StartDone, RecoverRow, RecoverFailed, RecoverAborted, Shutdown,
                Exit, Crash, LoseMemory, Running
  <2> QED
    BY <2>1, <2>2 DEF PendingUntilQueued, Hangup
<1>5. CASE UNCHANGED vars
  BY <1>5 DEF vars, PendingUntilQueued
<1> QED
  BY <1>2, <1>3, <1>4, <1>5 DEF Next

View == [j \in Job |-> Status(j)]
Recorded == {j \in Job : row[j] \in Outcome}

\* A poll is answered by the queue while it knows the job, else by the ledger.
LEMMA Answers ==
  ASSUME "unlink" \notin FaultKinds, Polled, NEW j \in Job
  PROVE  /\ Running /\ j \in jobs => row[j] # "none"
         /\ Running /\ j \in jobs \cap terminal => Status(j) = "failed" /\ row[j] \in Unfinished
         /\ Running /\ j \in jobs \ terminal =>
              Status(j) = IF j \in started THEN "processing" ELSE "pending"
         /\ ~(Running /\ j \in jobs) =>
              Status(j) = IF row[j] = "none" THEN "unknown" ELSE row[j]
         /\ row[j] \in Unfinished \cup Outcome \cup {"none"}
<1>1. row[j] = "completed" => j \in results
  BY NoUnlinkFault DEF Polled, Service, IInv, Settled, CompletedHasResult
<1> QED
  BY <1>1 DEF Polled, Unrecorded, Service, IInv, TypeOK, Held, Places, Status, StatusOfRow, Unfinished, Outcome

\* One task is polled differently, the others as before.
LEMMA OneView ==
  ASSUME NEW j \in Job, \A i \in Job \ {j} : Status(i)' = Status(i)
  PROVE  View' = [View EXCEPT ![j] = Status(j)']
BY DEF View

LEMMA SameView ==
  ASSUME \A i \in Job : Status(i)' = Status(i)
  PROVE  View' = View
BY DEF View

ContractStep == [Promise!ContractNext]_(Promise!contractVars)

\* A step that no poll can tell.
LEMMA Unseen ==
  ASSUME View' = View, Recorded' = Recorded
  PROVE  ContractStep
BY DEF ContractStep, View, Recorded, Promise!contractVars

LEMMA ContractSubmit ==
  ASSUME "unlink" \notin FaultKinds, Polled, NEW j \in Job, Submit(j)
  PROVE  ContractStep
<1> USE DEF ledger, files, process, queue, pages, SubmitUnchanged
<1>1. /\ TypeOK /\ Places /\ SubmissionOrder /\ Running /\ Running' = Running
  BY DEF Polled, Service, IInv, Held, Submit, Reserve, Refuse, InsertFailed, SpillInput,
         InsertRow, Enqueue, Release, Running
<1>2. /\ UNCHANGED <<terminal, started, results>>
      /\ \A i \in Job \ {j} : row'[i] = row[i] /\ (i \in jobs' <=> i \in jobs)
  BY <1>1 DEF Submit, Reserve, Refuse, InsertFailed, SpillInput, InsertRow, Enqueue, Release,
              InsertLocked, EnqueueLocked, TypeOK
<1>3. \A i \in Job \ {j} : Status(i)' = Status(i)
  BY <1>1, <1>2 DEF Status, StatusOfRow
<1>4. View' = [View EXCEPT ![j] = Status(j)']
  BY <1>3, OneView
<1>5. ASSUME row'[j] # row[j]
      PROVE  /\ row[j] = "none" /\ jobs' = jobs /\ j \notin jobs
             /\ row'[j] \in {"pending", "failed"}
  BY <1>1, <1>5 DEF Submit, Reserve, Refuse, InsertFailed, SpillInput, InsertRow, Enqueue,
                    Release, InsertLocked, EnqueueLocked, TypeOK, SubmissionOrder, Places
<1>6. CASE row'[j] # row[j]
  <2>1. /\ Status(j) = "unknown" /\ Status(j)' = row'[j]
    BY <1>5, <1>6 DEF Status, StatusOfRow
  <2>2. View[j] = "unknown" /\ View' = [View EXCEPT ![j] = row'[j]]
    BY <1>4, <2>1 DEF View
  <2>3. CASE row'[j] = "pending"
    <3>1. Recorded' = Recorded
      BY <1>2, <1>5, <1>6, <2>3 DEF Recorded, Outcome
    <3>2. Promise!Accept(j)
      BY <2>2, <2>3, <3>1 DEF Promise!Accept, View, Recorded
    <3> QED
      BY <3>2 DEF ContractStep, Promise!ContractNext
  <2>4. CASE row'[j] = "failed"
    <3>1. Recorded' = Recorded \cup {j}
      BY <1>2, <2>4 DEF Recorded, Outcome
    <3>2. Promise!Reject(j)
      BY <2>2, <2>4, <3>1 DEF Promise!Reject, View, Recorded
    <3> QED
      BY <3>2 DEF ContractStep, Promise!ContractNext
  <2> QED
    BY <1>5, <1>6, <2>3, <2>4
<1>7. CASE row'[j] = row[j]
  <2>1. Recorded' = Recorded
    BY <1>2, <1>7 DEF Recorded
  <2>2. Status(j)' = Status(j)
    <3>1. CASE Enqueue(j)
      <4>1. row[j] = "pending" /\ j \notin jobs \cup started \cup terminal /\ j \in jobs'
        BY <1>1, <3>1 DEF Enqueue, EnqueueLocked, Places, Polled, PendingUntilQueued
      <4> QED
        BY <1>1, <1>2, <1>7, <4>1 DEF Status, StatusOfRow
    <3>2. CASE ~Enqueue(j)
      <4>1. jobs' = jobs
        BY <3>2 DEF Submit, Reserve, Refuse, InsertFailed, SpillInput, InsertRow, Release
      <4> QED
        BY <1>1, <1>2, <1>7, <4>1 DEF Status, StatusOfRow
    <3> QED
      BY <3>1, <3>2
  <2>3. View' = View
    BY <1>3, <2>2, SameView
  <2> QED
    BY <2>1, <2>3, Unseen
<1> QED
  BY <1>6, <1>7

\* A poll sees a worker when it records a failure in memory or hands a job over to the
\* ledger, and the ledger when the outcome is committed.
LEMMA ContractMoves ==
  ASSUME "unlink" \notin FaultKinds, Polled, NEW w \in Worker, Work(w),
         ~PickFinish(w), ~PickUnit(w), NEW j \in Job, j = wk[w].job
  PROVE  ContractStep
<1> USE DEF ledger, files, process, WorkerUnchanged
<1>0. /\ TypeOK /\ Rows /\ Held /\ Places /\ Holding /\ Settled
      /\ wk \in [Worker -> WorkerState]
      /\ \A i : ~HasFault(i, {"unlink"})
  BY NoUnlinkFault DEF Polled, Service, IInv, Rows, Held, TypeOK
<1>1. /\ wk[w].pc \in PageStep \cup FinishStep /\ wk[w].pc # "idle" /\ Running
      /\ j \in Job /\ j \in jobs \ terminal
  BY <1>0, WorkMoves, StepsDiffer, WorkerHolds DEF Holding, Places
<1>2. /\ started' = started /\ Running' = Running
      /\ \A i \in Job \ {j} : /\ row'[i] = row[i]
                              /\ i \in results' <=> i \in results
                              /\ i \in jobs' <=> i \in jobs
                              /\ i \in terminal' <=> i \in terminal
  BY <1>0, <1>1, WorkKeepsQueue, WorkResults, WorkRow DEF Running
<1>3. Status(j) \in Unfinished
  BY <1>1, Answers DEF Unfinished
<1>4. /\ \A i \in Job \ {j} : Status(i)' = Status(i)
      /\ View' = [View EXCEPT ![j] = Status(j)']
      /\ View[j] = Status(j)
  <2>1. \A i \in Job \ {j} : Status(i)' = Status(i)
    BY <1>2 DEF Status, StatusOfRow
  <2> QED
    BY <1>1, <2>1, OneView DEF View
<1>5. ASSUME jobs' = jobs, terminal' = terminal
      PROVE  View' = View
  <2>1. Status(j)' = Status(j)
    BY <1>1, <1>2, <1>5 DEF Status
  <2> QED
    BY <1>4, <2>1, SameView
<1>6. CASE Recorded' = Recorded /\ jobs' = jobs /\ terminal' = terminal
  BY <1>5, <1>6, Unseen
<1>7. CASE Recorded' # Recorded
  <2>1. /\ jobs' = jobs /\ terminal' = terminal
        /\ row[j] \in Unfinished /\ row'[j] \in Outcome
    <3>1. wk[w].pc \in {"commit", "failrow"} /\ row'[j] \in Outcome
      BY <1>0, <1>1, <1>7, WorkRow DEF Recorded, Unfinished, Outcome, TypeOK
    <3>2. row[j] \in Unfinished
      BY <1>0, <3>1 DEF Settled, RowFits
    <3>3. Commit(w) \/ (FailRow(w) /\ row' # row)
      BY <1>7, <3>1
      DEF Work, At, MarkProcessing, ReadPage, SaveUnit, RecordPage, RecordError, Assemble,
          WriteResult, UnlinkInput, UndoResult, PopJob, FailLocked, FailUnlink, Recorded, FailRow
    <3> QED
      BY <3>1, <3>2, <3>3 DEF Commit, FailRow, FinishUnchanged, queue
  <2>2. j \notin Recorded /\ Recorded' = Recorded \cup {j}
    BY <1>1, <1>2, <2>1 DEF Recorded, Unfinished, Outcome
  <2>3. Promise!Record(j)
    BY <1>3, <1>4, <1>5, <2>1, <2>2 DEF Promise!Record, Promise!Unfinished, Unfinished, View, Recorded
  <2> QED
    BY <1>1, <2>3 DEF ContractStep, Promise!ContractNext
<1>8. CASE PopJob(w)
  <2>1. /\ row' = row /\ results' = results /\ jobs' = jobs \ {j}
        /\ row[j] \in Outcome /\ (row[j] = "completed" => j \in results)
    BY <1>0, <1>8 DEF PopJob, At, FinishUnchanged, Settled, RowFits, ResultFits
  <2>2. Status(j)' \in Outcome /\ j \in Recorded /\ Recorded' = Recorded
    BY <1>1, <2>1 DEF Status, StatusOfRow, Outcome, Recorded
  <2>3. Promise!Report(j)
    BY <1>3, <1>4, <2>2
    DEF Promise!Report, Promise!Unfinished, Promise!Outcome, Unfinished, Outcome, View, Recorded
  <2> QED
    BY <1>1, <2>3 DEF ContractStep, Promise!ContractNext
<1>9. CASE terminal' # terminal
  <2>1. FailRow(w) /\ terminal' = terminal \cup {j} /\ row' = row /\ jobs' = jobs
    <3>1. ~FailUnlink(w) \/ terminal' = terminal
      BY <1>0 DEF FailUnlink, Fault, Faults
    <3> QED
      BY <1>9, <3>1
      DEF Work, FailRow, KeepTerminal, MarkProcessing, ReadPage, SaveUnit, RecordPage,
          RecordError, Assemble, WriteResult, Commit, UnlinkInput, UndoResult, PopJob,
          FailLocked, PageUnchanged, FinishUnchanged, queue
  <2>2. row[j] \in Unfinished
    BY <1>0, <2>1 DEF FailRow, At, Settled, RowFits
  <2>3. Status(j)' = "failed" /\ j \notin Recorded /\ Recorded' = Recorded
    BY <1>1, <1>2, <2>1, <2>2 DEF Status, Recorded, Unfinished, Outcome
  <2>4. Promise!Report(j)
    BY <1>3, <1>4, <2>3 DEF Promise!Report, Promise!Unfinished, Unfinished, View, Recorded
  <2> QED
    BY <1>1, <2>4 DEF ContractStep, Promise!ContractNext
<1>10. jobs' # jobs => PopJob(w)
  BY DEF Work, FailRow, FailUnlink, MarkProcessing, ReadPage, SaveUnit, RecordPage,
          RecordError, Assemble, WriteResult, Commit, UnlinkInput, UndoResult,
          FailLocked, PageUnchanged, FinishUnchanged, queue
<1> QED
  BY <1>6, <1>7, <1>8, <1>9, <1>10

LEMMA ContractWork ==
  ASSUME "unlink" \notin FaultKinds, Polled, NEW w \in Worker, Work(w)
  PROVE  ContractStep
<1> USE DEF ledger, files, process, WorkerUnchanged
<1>1. /\ TypeOK /\ Rows /\ Held /\ Places /\ Holding /\ Settled
      /\ wk \in [Worker -> WorkerState]
      /\ \A i : ~HasFault(i, {"unlink"})
  BY NoUnlinkFault DEF Polled, Service, IInv, Rows, Held, TypeOK
<1>2. CASE PickFinish(w)
  <2>1. UNCHANGED <<row, results, proc, jobs, terminal, started>>
    BY <1>2 DEF PickFinish, pages
  <2>2. View' = View /\ Recorded' = Recorded
    BY <2>1 DEF View, Recorded, Status, StatusOfRow, Running
  <2> QED
    BY <2>2, Unseen
<1>3. CASE PickUnit(w)
  <2>1. PICK i \in active \cup Admitted : started' = started \cup {i}
    BY <1>3 DEF PickUnit
  <2>2. /\ UNCHANGED <<row, results, proc, jobs, terminal>>
        /\ Running /\ Running' /\ i \in jobs \ terminal /\ i \in Job
    BY <1>1, <1>3, <2>1 DEF PickUnit, Admitted, Places, Running, TypeOK
  <2>3. \A k \in Job \ {i} : Status(k)' = Status(k)
    BY <2>1, <2>2 DEF Status, StatusOfRow, Running
  <2>4. /\ Status(i) = IF i \in started THEN "processing" ELSE "pending"
        /\ Status(i)' = "processing"
    BY <2>1, <2>2 DEF Status
  <2>5. View' = [View EXCEPT ![i] = "processing"] /\ Recorded' = Recorded
    BY <2>2, <2>3, <2>4, OneView DEF Recorded
  <2>6. CASE i \in started
    <3>1. View' = View
      BY <2>3, <2>4, <2>6, SameView
    <3> QED
      BY <2>5, <3>1, Unseen
  <2>7. CASE i \notin started
    <3>1. Promise!Begin(i)
      BY <2>2, <2>4, <2>5, <2>7 DEF Promise!Begin, View, Recorded
    <3> QED
      BY <2>2, <3>1 DEF ContractStep, Promise!ContractNext
  <2> QED
    BY <2>6, <2>7
<1>4. CASE ~PickFinish(w) /\ ~PickUnit(w)
  <2>1. wk[w].job \in Job
    BY <1>1, <1>4, WorkMoves, StepsDiffer, WorkerHolds
  <2> QED
    BY <1>4, <2>1, ContractMoves
<1> QED
  BY <1>2, <1>3, <1>4

\* Whatever a process that starts, stops or dies forgets, an outcome in the ledger
\* shows, and a task without one is unfinished.
LEMMA Restarted ==
  ASSUME "unlink" \notin FaultKinds, Polled, Recorded' = Recorded,
         \A j \in Job :
           \/ Status(j)' = IF row[j] = "none" THEN "unknown" ELSE row[j]
           \/ row[j] \in Unfinished /\ Status(j)' \in Unfinished
  PROVE  ContractStep
<1> USE DEF Unfinished, Outcome
<1>1. ASSUME NEW j \in Job
      PROVE  /\ View[j] = "unknown" => View'[j] = "unknown"
             /\ View[j] # "unknown" /\ j \notin Recorded => View'[j] \in Unfinished
             /\ j \in Recorded /\ View[j] \in Outcome => View'[j] = View[j]
             /\ j \in Recorded /\ View[j] \in Unfinished => View'[j] \in Outcome
             /\ View[j] \in Unfinished \cup Outcome \cup {"unknown"}
             /\ View'[j] \in Unfinished \cup Outcome \cup {"unknown"}
  <2>1. View[j] = Status(j) /\ View'[j] = Status(j)'
    BY DEF View
  <2>2. j \in Recorded <=> row[j] \in Outcome
    BY DEF Recorded
  <2> QED
    BY <2>1, <2>2, Answers
<1>2. View' \in [Job -> Unfinished \cup Outcome \cup {"unknown"}]
  <2>1. View' = [j \in Job |-> View'[j]]
    BY DEF View
  <2> QED
    BY <1>1, <2>1
<1>3. ASSUME NEW j \in Job
      PROVE  CASE View[j] = "unknown" -> View'[j] = "unknown"
               [] View[j] # "unknown" /\ j \notin Recorded -> View'[j] \in Unfinished
               [] j \in Recorded /\ View[j] \in Outcome -> View'[j] = View[j]
               [] j \in Recorded /\ View[j] \in Unfinished -> View'[j] \in Outcome
  BY <1>1
<1>4. Promise!Restart
  BY <1>2, <1>3 DEF Promise!Restart, Promise!Unfinished, Promise!Outcome, View, Recorded
<1> QED
  BY <1>4 DEF ContractStep, Promise!ContractNext

LEMMA ContractLife ==
  ASSUME "unlink" \notin FaultKinds, Polled, Life
  PROVE  ContractStep
<1> USE DEF ledger, files, process, queue, pages
<1>1. /\ TypeOK /\ Rows /\ FreshProcess /\ Places
      /\ toRecover \subseteq UnfinishedRows
  BY DEF Polled, Service, IInv, Rows, Held, CoveredRows
<1>2. ASSUME LoseMemory, proc' = "down", row' = row, results' = results
      PROVE  ContractStep
  <2>1. Recorded' = Recorded
    BY <1>2 DEF Recorded
  <2>2. \A j \in Job : Status(j)' = IF row[j] = "none" THEN "unknown" ELSE row[j]
    <3>1. \A j \in Job : row[j] = "completed" => j \in results
      BY NoUnlinkFault DEF Polled, Service, IInv, Settled, CompletedHasResult
    <3> QED
      BY <1>2, <3>1 DEF Status, StatusOfRow, Running
  <2> QED
    BY <2>1, <2>2, Restarted
<1>3. CASE Exit \/ Crash
  BY <1>2, <1>3 DEF Exit, Crash
<1>4. CASE Start
  <2>1. /\ row' = row /\ proc = "down" /\ proc' = "starting"
        /\ \A j \in results : row[j] = "completed" => j \in results'
        /\ results' \subseteq results
    BY <1>4 DEF Start
  <2>2. \A j \in Job : Status(j)' = Status(j)
    BY <2>1 DEF Status, StatusOfRow, Running
  <2>3. Recorded' = Recorded /\ View' = View
    BY <2>1, <2>2, SameView DEF Recorded
  <2> QED
    BY <2>3, Unseen
<1>5. CASE StartDone
  <2>1. /\ UNCHANGED <<row, results, jobs, terminal, started>>
        /\ ~Running /\ Running' /\ terminal = {} /\ started = {} /\ waiting = jobs
    BY <1>1, <1>5 DEF StartDone, FreshProcess, Running
  <2>2. ASSUME NEW j \in Job
        PROVE  \/ Status(j)' = IF row[j] = "none" THEN "unknown" ELSE row[j]
               \/ row[j] \in Unfinished /\ Status(j)' \in Unfinished
    <3>1. CASE j \in jobs
      BY <1>1, <2>1, <3>1 DEF Places, Status, Unfinished
    <3>2. CASE j \notin jobs
      <4>1. Status(j)' = Status(j)
        BY <2>1, <3>2 DEF Status, StatusOfRow
      <4> QED
        BY <2>1, <4>1, Answers
    <3> QED
      BY <3>1, <3>2
  <2>3. Recorded' = Recorded
    BY <2>1 DEF Recorded
  <2> QED
    BY <2>2, <2>3, Restarted
<1>6. ASSUME NEW j \in Job, RecoverRow(j)
      PROVE  ContractStep
  <2>1. UNCHANGED <<row, results, proc>> /\ ~Running
    BY <1>6 DEF RecoverRow, Running
  <2>2. \A i \in Job : Status(i)' = Status(i)
    BY <2>1 DEF Status, StatusOfRow, Running
  <2>3. Recorded' = Recorded /\ View' = View
    BY <2>1, <2>2, SameView DEF Recorded
  <2> QED
    BY <2>3, Unseen
<1>7. ASSUME NEW j \in Job, RecoverFailed(j)
      PROVE  ContractStep
  <2>1. /\ row' = [row EXCEPT ![j] = "failed"] /\ results' = results /\ proc' = proc
        /\ ~Running /\ ~Running' /\ row[j] \in Unfinished
    BY <1>1, <1>7 DEF RecoverFailed, OutcomeLocked, NextRow, UnfinishedRows, Running
  <2>2. row'[j] = "failed" /\ \A i \in Job \ {j} : row'[i] = row[i]
    BY <1>1, <2>1 DEF TypeOK
  <2>3. /\ Status(j) \in Unfinished /\ Status(j)' = "failed"
        /\ \A i \in Job \ {j} : Status(i)' = Status(i)
    BY <2>1, <2>2 DEF Status, StatusOfRow, Unfinished
  <2>4. View' = [View EXCEPT ![j] = "failed"] /\ View[j] \in Unfinished
    BY <2>3, OneView DEF View
  <2>5. j \notin Recorded /\ Recorded' = Recorded \cup {j}
    BY <2>1, <2>2 DEF Recorded, Unfinished, Outcome
  <2>6. Promise!Record(j)
    BY <2>4, <2>5
    DEF Promise!Record, Promise!Unfinished, Promise!Outcome, Unfinished, View, Recorded
  <2> QED
    BY <2>6 DEF ContractStep, Promise!ContractNext
<1>8. ASSUME NEW j \in Job, RecoverAborted(j)
      PROVE  ContractStep
  <2>1. LoseMemory /\ proc' = "down" /\ row' = row /\ results' = results
    BY <1>8 DEF RecoverAborted, Faults
  <2> QED
    BY <1>2, <2>1
<1>9. CASE Shutdown
  <2>1. /\ UNCHANGED <<row, results, jobs, terminal, started>> /\ Running /\ Running'
    BY <1>9 DEF Shutdown, Running
  <2>2. View' = View /\ Recorded' = Recorded
    BY <2>1 DEF View, Recorded, Status, StatusOfRow
  <2> QED
    BY <2>2, Unseen
<1> QED
  BY <1>3, <1>4, <1>5, <1>6, <1>7, <1>8, <1>9 DEF Life

\* Where no unlink of a file raises, the polls of every client see what OcrTask promises,
\* across any restarts: no task is forgotten, no outcome changes, none but a failure the
\* ledger could not take is shown before it is recorded (status, over the whole of
\* OcrQueue).
THEOREM ContractIsKept ==
  ASSUME "unlink" \notin FaultKinds
  PROVE  Spec => ClientContract
<1>1. Init => Unrecorded /\ PendingUntilQueued
  BY DEF Init, Unrecorded, PendingUntilQueued
<1>2. Service /\ Unrecorded /\ PendingUntilQueued /\ [Next]_vars
        => Unrecorded' /\ PendingUntilQueued'
  BY UnrecordedStep, PendingStep
<1>3. Init => Promise!ContractInit
  BY DEF Init, Promise!ContractInit, Status, StatusOfRow, Running, Outcome
<1>4. Service /\ Unrecorded /\ PendingUntilQueued /\ [Next]_vars
        => [Promise!ContractNext]_(Promise!contractVars)
  <2>1. SUFFICES ASSUME Polled, [Next]_vars PROVE ContractStep
    BY DEF Polled, ContractStep
  <2>2. ASSUME NEW j \in Job, Submit(j) PROVE ContractStep
    BY <2>1, <2>2, ContractSubmit
  <2>3. ASSUME NEW w \in Worker, Work(w) PROVE ContractStep
    BY <2>1, <2>3, ContractWork
  <2>4. CASE Life
    BY <2>1, <2>4, ContractLife
  <2>5. CASE UNCHANGED vars
    <3>1. View' = View /\ Recorded' = Recorded
      BY <2>5 DEF vars, ledger, files, process, queue, pages, View, Recorded, Status,
                  StatusOfRow, Running
    <3> QED
      BY <3>1, Unseen
  <2> QED
    BY <2>1, <2>2, <2>3, <2>4, <2>5 DEF Next
<1> QED
  BY <1>1, <1>2, <1>3, <1>4, ServiceInvariant, PTL DEF Spec, ClientContract, Promise!Contract

=============================================================================
