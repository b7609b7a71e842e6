--------------------------- MODULE OcrStoreProofs ---------------------------
(* Theorems about OcrStore: whatever the sweep has listed, selected or       *)
(* checked before, it takes no file that is still to be read or served.      *)
EXTENDS OcrStore, TLAPS

-----------------------------------------------------------------------------
(* The paths *)

LEMMA PathsDiffer ==
  ASSUME NEW j \in Job, NEW k \in Job
  PROVE  /\ Input(j) \in Path /\ Result(j) \in Path
         /\ Tmp(Input(j)) \in Path /\ Tmp(Result(j)) \in Path
         /\ ~Input(j).tmp /\ ~Result(j).tmp
         /\ Input(j) # Result(k) /\ Tmp(Input(j)) # Tmp(Result(k))
         /\ Tmp(Input(j)) # Input(k) /\ Tmp(Input(j)) # Result(k)
         /\ Tmp(Result(j)) # Input(k) /\ Tmp(Result(j)) # Result(k)
         /\ j # k => /\ Input(j) # Input(k) /\ Result(j) # Result(k)
                     /\ Tmp(Input(j)) # Tmp(Input(k)) /\ Tmp(Result(j)) # Tmp(Result(k))
BY DEF Path, Input, Result, Tmp

\* The paths of a submission or a completion in progress.
LEMMA InHandPaths ==
  ASSUME NEW j \in Job
  PROVE  InHand(j) \subseteq Path
BY PathsDiffer DEF InHand

-----------------------------------------------------------------------------
(* Types *)

FileType == [Path -> 0..(Stale + 1) \cup {Absent}]
SweepType ==
  [pc : {"idle", "prune", "delete", "clock", "list", "look", "recheck", "unlink"},
   doomed : SUBSET Job, job : Job \cup {NoJob}, referenced : SUBSET Path,
   old : SUBSET Path, folder : {"inputs", "results"}, left : SUBSET Path,
   path : Path \cup {NoPath}]
ListedHere == \A p \in sweep.left : p.folder = sweep.folder

LEMMA TypeInit == Init => TypeOK
<1> SUFFICES ASSUME Init PROVE TypeOK
  OBVIOUS
<1>1. file \in FileType /\ sweep \in SweepType /\ ListedHere
  BY StoreAssumption DEF Init, FileType, SweepType, ListedHere, NoSweep
<1>2. 0 \in 0..(Ttl + 1) /\ 0 \in 0..MaxFaults /\ 0 \in 0..MaxCrashes
  BY StoreAssumption
<1> QED
  BY <1>1, <1>2 DEF Init, TypeOK, FileType, SweepType, ListedHere, NoReader

LEMMA WriteTyped ==
  ASSUME TypeOK, NEW p \in Path, Write(p)
  PROVE  file' \in FileType /\ sweep' \in SweepType /\ ListedHere'
<1>1. 0 \in 0..(Stale + 1)
  BY StoreAssumption
<1> QED
  BY <1>1 DEF TypeOK, Write, FileType, SweepType, ListedHere

LEMMA ReplaceTyped ==
  ASSUME TypeOK, NEW p \in Path, Tmp(p) \in Path, Replace(p)
  PROVE  file' \in FileType /\ sweep' \in SweepType /\ ListedHere'
BY DEF TypeOK, Replace, FileType, SweepType, ListedHere

LEMMA UnlinkTyped ==
  ASSUME TypeOK, NEW p, Unlink(p)
  PROVE  file' \in FileType
BY DEF TypeOK, Unlink, FileType

LEMMA TypeStep ==
  ASSUME TypeOK, [Next]_vars
  PROVE  TypeOK'
<1> USE DEF ledger, life, At, Goto, OnlySweep, OnlyReader, Sweeping
<1>1. /\ file \in FileType /\ sweep \in SweepType /\ ListedHere
      /\ 0 \in 0..(Ttl + 1)
  BY StoreAssumption DEF TypeOK, FileType, SweepType, ListedHere
<1>2. Raises => faults' \in 0..MaxFaults
  BY StoreAssumption DEF TypeOK, Raises
<1>3. ASSUME NEW j \in Job, Submission(j) \/ Completion(j)
      PROVE  TypeOK'
  <2>1. file' \in FileType /\ sweep' \in SweepType /\ ListedHere'
    BY <1>1, <1>3, PathsDiffer, WriteTyped, ReplaceTyped, UnlinkTyped
    DEF Submission, Completion, SubmitInvalid, WriteInput, RenameInput, Insert, WriteResult,
        JobFails, RenameResult, Commit, UndoResult, Fail, UnlinkInput, ListedHere
  <2>2. /\ row' \in [Job -> {"none", "unfinished", "completed", "failed", "deleted"}]
        /\ ended' \in [Job -> 0..(Ttl + 1)]
    BY <1>1, <1>3
    DEF Submission, Completion, SubmitInvalid, WriteInput, RenameInput, Insert, WriteResult,
        JobFails, RenameResult, Commit, UndoResult, Fail, UnlinkInput, SetRow, TypeOK
  <2>3. /\ writer' \in [Job -> {"new", "spilling", "inserting", "queued", "writing",
                                "committing", "undoing", "failing", "unlinking", "over"}]
        /\ faults' \in 0..MaxFaults
        /\ UNCHANGED <<interrupted, reader, proc, crashes>>
    BY <1>2, <1>3
    DEF Submission, Completion, SubmitInvalid, WriteInput, RenameInput, Insert, WriteResult,
        JobFails, RenameResult, Commit, UndoResult, Fail, UnlinkInput, TypeOK
  <2> QED
    BY <2>1, <2>2, <2>3 DEF TypeOK, FileType, SweepType, ListedHere
<1>4. CASE Sweep
  <2>1. file' \in FileType
    BY <1>1, <1>4, UnlinkTyped
    DEF Sweep, SelectExpired, PruneResult, PruneRow, SelectReferenced, ReadClock, ListFolder,
        Look, Recheck, UnlinkStray, NextFolder, EndSweep
  <2>2. Referenced \subseteq Path /\ Doomed \subseteq Job /\ Listed \subseteq Path
    BY PathsDiffer DEF Referenced, Doomed, Listed
  <2>3. sweep' \in SweepType /\ ListedHere'
    <3>0. NoSweep \in SweepType /\ NoSweep.left = {}
      BY DEF NoSweep, SweepType
    <3>1. CASE SelectExpired \/ EndSweep
      BY <2>2, <3>0, <3>1 DEF SelectExpired, EndSweep, SweepType, ListedHere
    <3>2. CASE PruneRow
      <4>1. /\ sweep' = [sweep EXCEPT !.pc = "prune", !.doomed = @ \ {sweep.job}, !.job = NoJob]
            /\ sweep.doomed \ {sweep.job} \in SUBSET Job
        BY <1>1, <3>2 DEF PruneRow, SweepType
      <4>2. sweep' \in SweepType
        BY <1>1, <4>1 DEF SweepType
      <4>3. sweep'.left = sweep.left /\ sweep'.folder = sweep.folder
        BY <1>1, <4>1 DEF SweepType
      <4> QED
        BY <1>1, <4>2, <4>3 DEF ListedHere
    <3>7. CASE SelectReferenced
      BY <1>1, <2>2, <3>7 DEF SelectReferenced, SweepType, ListedHere
    <3>10. CASE ReadClock
      BY <1>1, <3>10 DEF ReadClock, SweepType, ListedHere
    <3>8. CASE Recheck
      BY <1>1, <3>8 DEF Recheck, SweepType, ListedHere
    <3>9. CASE UnlinkStray
      BY <1>1, <3>9 DEF UnlinkStray, SweepType, ListedHere
    <3>3. CASE ListFolder
      BY <1>1, <2>2, <3>3 DEF ListFolder, Listed, SweepType, ListedHere
    <3>6. CASE NextFolder
      BY <1>1, <3>6 DEF NextFolder, SweepType, ListedHere
    <3>4. ASSUME NEW j \in Job, PruneResult(j)
          PROVE  sweep' \in SweepType /\ ListedHere'
      BY <1>1, <3>4 DEF PruneResult, SweepType, ListedHere
    <3>5. ASSUME NEW p \in Path, Look(p)
          PROVE  sweep' \in SweepType /\ ListedHere'
      BY <1>1, <3>5 DEF Look, SweepType, ListedHere
    <3> QED
      BY <1>4, <3>1, <3>2, <3>3, <3>4, <3>5, <3>6, <3>7, <3>8, <3>9, <3>10 DEF Sweep
  <2>4. UNCHANGED <<interrupted, reader, faults, crashes>>
    BY <1>4
    DEF Sweep, SelectExpired, PruneResult, PruneRow, SelectReferenced, ReadClock, ListFolder,
        Look, Recheck, UnlinkStray, NextFolder, EndSweep
  <2>5. /\ row' \in [Job -> {"none", "unfinished", "completed", "failed", "deleted"}]
        /\ ended' \in [Job -> 0..(Ttl + 1)]
        /\ writer' \in [Job -> {"new", "spilling", "inserting", "queued", "writing",
                                "committing", "undoing", "failing", "unlinking", "over"}]
        /\ proc' \in {"down", "starting", "up"}
    <3>1. CASE EndSweep
      BY <1>1, <3>1 DEF EndSweep, TypeOK
    <3>2. CASE PruneRow
      BY <3>2 DEF PruneRow, TypeOK
    <3>3. CASE ~EndSweep /\ ~PruneRow
      BY <1>4, <3>3
      DEF Sweep, SelectExpired, PruneResult, SelectReferenced, ReadClock, ListFolder,
          Look, Recheck, UnlinkStray, NextFolder, TypeOK
    <3> QED
      BY <3>1, <3>2, <3>3
  <2> QED
    BY <2>1, <2>3, <2>4, <2>5 DEF TypeOK, FileType, SweepType, ListedHere
<1>5. CASE Read
  <2> DEFINE R == [pc : {"idle", "polling", "reusing"}, job : Job \cup {NoJob},
                   answer : {"none", "unknown"}]
  <2>1. reader' = NoReader \/ \E j \in Job \cup {NoJob} :
          reader' \in {[NoReader EXCEPT !.job = j, !.answer = "unknown"],
                       [NoReader EXCEPT !.pc = "polling", !.job = j],
                       [NoReader EXCEPT !.pc = "reusing", !.job = j]}
    <3>1. CASE ReadResult
      BY <3>1 DEF ReadResult, Answer, TypeOK
    <3>2. CASE LookUpEarlier
      BY <3>2 DEF LookUpEarlier
    <3>3. ASSUME NEW j \in Job, Poll(j)
          PROVE  \/ reader' = NoReader
                 \/ reader' = [NoReader EXCEPT !.job = j, !.answer = "unknown"]
                 \/ reader' = [NoReader EXCEPT !.pc = "polling", !.job = j]
      BY <3>3 DEF Poll, Answer
    <3> QED
      BY <1>5, <3>1, <3>2, <3>3 DEF Read
  <2>2. ASSUME NEW j \in Job \cup {NoJob}
        PROVE  /\ NoReader \in R
               /\ [NoReader EXCEPT !.job = j, !.answer = "unknown"] \in R
               /\ [NoReader EXCEPT !.pc = "polling", !.job = j] \in R
               /\ [NoReader EXCEPT !.pc = "reusing", !.job = j] \in R
    BY DEF NoReader
  <2>3. reader' \in R
    BY <2>1, <2>2
  <2>4. OnlyReader
    BY <1>5 DEF Read, LookUpEarlier, ReadResult, Poll
  <2> QED
    BY <2>3, <2>4 DEF TypeOK
<1>6. CASE Tick
  <2>1. file' \in FileType /\ ended' \in [Job -> 0..(Ttl + 1)]
    BY <1>1, <1>6, StoreAssumption DEF Tick, Older, TypeOK, FileType
  <2> QED
    BY <1>6, <2>1 DEF Tick, TypeOK, FileType
<1>7. CASE Start
  BY <1>7 DEF Start, TypeOK
<1>8. CASE Crash
  <2>1. sweep' \in SweepType /\ ListedHere' /\ crashes' \in 0..MaxCrashes
    BY <1>8, StoreAssumption DEF Crash, NoSweep, SweepType, ListedHere, TypeOK
  <2> QED
    BY <1>8, <2>1 DEF Crash, NoReader, TypeOK, SweepType, ListedHere
<1>9. CASE UNCHANGED vars
  BY <1>9 DEF vars, TypeOK
<1> QED
  BY <1>3, <1>4, <1>5, <1>6, <1>7, <1>8, <1>9 DEF Next

\* Every variable of the store keeps its type, for any number of jobs and any ages.
THEOREM TypeCorrect == Spec => []TypeOK
<1> QED
  BY TypeInit, TypeStep, PTL DEF Spec

-----------------------------------------------------------------------------
(* The strengthening *)

\* How far a job's submission or completion is, and its row, go together; nobody works
\* on a job before start() is through.
WriterFits ==
  \A j \in Job :
    /\ writer[j] \in {"new", "spilling", "inserting"} => row[j] = "none"
    /\ writer[j] \in {"queued", "writing", "committing", "undoing", "failing"} =>
         row[j] = "unfinished"
    /\ writer[j] = "unlinking" => row[j] \in {"completed", "failed", "deleted"}
    /\ proc # "up" => writer[j] \in {"new", "over"}

\* A file that is being written is young: the sweep has not seen it to be old.
Young ==
  \A j \in Job : \A p \in InHand(j) :
    /\ Exists(p) => file[p] <= Stale
    /\ p \notin sweep.old

\* The sweep knows old files only after it has read the clock, has a path in hand only
\* while it decides on it, and the rows it has selected stay expired.
SweepFits ==
  /\ sweep.pc \in {"idle", "prune", "delete", "clock"} => sweep.old = {}
  /\ sweep.pc \in {"recheck", "unlink"} <=> sweep.path # NoPath
  /\ sweep.pc = "recheck" => ~sweep.path.tmp
  /\ \A j \in sweep.doomed : Expired(j)
  /\ sweep.pc = "delete" =>
       /\ sweep.job \in Job /\ Expired(sweep.job)
       /\ row[sweep.job] = "completed" => ~Exists(Result(sweep.job))

\* An input that may yet get its row is not one the sweep is after; what the sweep is
\* about to unlink is no input of an unfinished row and never will be.
InputFits ==
  \A j \in Job :
    /\ writer[j] \in {"new", "spilling", "inserting"} =>
         Input(j) \notin sweep.old /\ sweep.path # Input(j)
    /\ writer[j] \in {"new", "spilling"} => ~Exists(Input(j))
    /\ writer[j] = "inserting" => Exists(Input(j))
    /\ sweep.pc = "unlink" /\ sweep.path = Input(j) => row[j] # "unfinished"

\* Unless a completion was interrupted, a result is there only for a row that is or is
\* about to be completed, and the sweep is not after it.
ResultFits ==
  \A j \in Job \ interrupted :
    /\ Exists(Result(j)) => writer[j] \in {"committing", "undoing"} \/ row[j] = "completed"
    /\ writer[j] = "committing" => Exists(Result(j))
    /\ Result(j) \in sweep.old => row[j] = "completed"
    /\ sweep.path = Result(j) => row[j] = "completed" /\ sweep.pc = "recheck"

\* A reader found its job completed.
ReaderFits ==
  /\ reader.pc # "idle" => reader.job \in Job /\ row[reader.job] \in {"completed", "deleted"}
  /\ reader.answer = "unknown" => reader.job \in Job

Kept ==
  /\ WriterFits /\ Young /\ SweepFits
  /\ InputFits /\ InputStays
  /\ ResultFits /\ ResultStaysReadable
  /\ ReaderFits /\ UnknownMeansExpired

LEMMA KeptInit == Init => Kept
<1> SUFFICES ASSUME Init PROVE Kept
  OBVIOUS
<1>1. ASSUME NEW j \in Job
      PROVE  /\ ~Exists(Input(j))
             /\ Exists(Result(j)) <=> j \in Finished
  <2>1. Input(j) \in Path /\ Result(j) \in Path
    BY PathsDiffer
  <2>2. \A k \in Finished : Input(j) # Result(k) /\ (Result(j) = Result(k) => j = k)
    BY PathsDiffer, StoreAssumption
  <2> QED
    BY <2>1, <2>2, StoreAssumption DEF Init, Exists
<1>2. /\ WriterFits /\ Young /\ SweepFits /\ ReaderFits /\ UnknownMeansExpired
  BY DEF Init, WriterFits, Young, InHand, SweepFits, ReaderFits, UnknownMeansExpired, NoSweep,
         NoReader
<1>3. sweep.pc = "idle" /\ sweep.path = NoPath /\ sweep.old = {}
  BY DEF Init, NoSweep
<1>4. \A j \in Job : Input(j) # NoPath /\ Result(j) # NoPath
  BY PathsDiffer, NoPathAssumption
<1>5. \A j \in Job : /\ row[j] = IF j \in Finished THEN "completed" ELSE "none"
                     /\ writer[j] = IF j \in Finished THEN "over" ELSE "new"
  BY DEF Init
<1>6. InputFits /\ InputStays
  BY <1>1, <1>3, <1>4, <1>5 DEF InputFits, InputStays
<1>7. ResultFits /\ ResultStaysReadable
  BY <1>1, <1>3, <1>4, <1>5 DEF ResultFits, ResultStaysReadable
<1> QED
  BY <1>2, <1>6, <1>7 DEF Kept

-----------------------------------------------------------------------------
(* What a step of a submission or a completion touches *)

JobSteps(j) ==
  \/ writer[j] = "new" /\ writer'[j] = "over" /\ row'[j] = "failed"
  \/ writer[j] = "new" /\ writer'[j] = "spilling" /\ row'[j] = row[j]
  \/ writer[j] = "spilling" /\ writer'[j] \in {"inserting", "over"} /\ row'[j] = row[j]
  \/ writer[j] = "inserting" /\ writer'[j] = "queued" /\ row'[j] = "unfinished"
  \/ writer[j] = "inserting" /\ writer'[j] = "over" /\ row'[j] = row[j]
  \/ writer[j] = "queued" /\ writer'[j] \in {"writing", "failing"} /\ row'[j] = row[j]
  \/ writer[j] = "writing" /\ writer'[j] \in {"committing", "failing"} /\ row'[j] = row[j]
  \/ writer[j] = "committing" /\ writer'[j] = "unlinking" /\ row'[j] = "completed"
  \/ writer[j] = "committing" /\ writer'[j] = "undoing" /\ row'[j] = row[j]
  \/ writer[j] = "undoing" /\ writer'[j] = "failing" /\ row'[j] = row[j]
  \/ writer[j] = "failing" /\ writer'[j] = "unlinking" /\ row'[j] = "failed"
  \/ writer[j] = "failing" /\ writer'[j] = "over" /\ row'[j] = row[j]
  \/ writer[j] = "unlinking" /\ writer'[j] = "over" /\ row'[j] = row[j]

LEMMA JobStepRows ==
  ASSUME TypeOK, WriterFits, NEW j \in Job, Submission(j) \/ Completion(j)
  PROVE  /\ JobSteps(j)
         /\ proc = "up" /\ UNCHANGED <<interrupted, reader, proc>>
         /\ \A k \in Job \ {j} : row'[k] = row[k] /\ ended'[k] = ended[k] /\ writer'[k] = writer[k]
         /\ ended'[j] = IF row'[j] = row[j] THEN ended[j] ELSE 0
<1> USE DEF At, Goto, ledger, life, SetRow
<1>1. CASE Submission(j)
  <2>1. JobSteps(j)
    BY <1>1 DEF TypeOK, JobSteps, Submission, SubmitInvalid, WriteInput, RenameInput, Insert
  <2>2. proc = "up" /\ UNCHANGED <<interrupted, reader, proc>>
    BY <1>1 DEF Submission, SubmitInvalid, WriteInput, RenameInput, Insert
  <2>3. \A k \in Job \ {j} : row'[k] = row[k] /\ ended'[k] = ended[k] /\ writer'[k] = writer[k]
    BY <1>1 DEF TypeOK, Submission, SubmitInvalid, WriteInput, RenameInput, Insert
  <2>4. ended'[j] = IF row'[j] = row[j] THEN ended[j] ELSE 0
    BY <1>1 DEF TypeOK, WriterFits, Submission, SubmitInvalid, WriteInput, RenameInput, Insert
  <2> QED
    BY <2>1, <2>2, <2>3, <2>4
<1>2. CASE Completion(j)
  <2>1. JobSteps(j)
    BY <1>2 DEF TypeOK, JobSteps, Completion, WriteResult, JobFails, RenameResult, Commit,
                UndoResult, Fail, UnlinkInput
  <2>2. proc = "up" /\ UNCHANGED <<interrupted, reader, proc>>
    BY <1>2 DEF Completion, WriteResult, JobFails, RenameResult, Commit, UndoResult, Fail,
                UnlinkInput
  <2>3. \A k \in Job \ {j} : row'[k] = row[k] /\ ended'[k] = ended[k] /\ writer'[k] = writer[k]
    BY <1>2 DEF TypeOK, Completion, WriteResult, JobFails, RenameResult, Commit, UndoResult,
                Fail, UnlinkInput
  <2>4. ended'[j] = IF row'[j] = row[j] THEN ended[j] ELSE 0
    BY <1>2 DEF TypeOK, WriterFits, Completion, WriteResult, JobFails, RenameResult, Commit,
                UndoResult, Fail, UnlinkInput
  <2> QED
    BY <2>1, <2>2, <2>3, <2>4
<1> QED
  BY <1>1, <1>2

\* What it does to the files, and to what the sweep has seen to be old.
LEMMA JobStepFiles ==
  ASSUME TypeOK, NEW j \in Job, Submission(j) \/ Completion(j)
  PROVE  /\ \A p \in Path : p \notin {Input(j), Result(j), Tmp(Input(j)), Tmp(Result(j))} =>
              file'[p] = file[p]
         /\ \/ file'[Input(j)] = file[Input(j)] /\ writer'[j] # "inserting"
            \/ writer[j] = "inserting" /\ writer'[j] = "over" /\ file'[Input(j)] = Absent
            \/ writer[j] = "unlinking" /\ file'[Input(j)] = Absent
            \/ /\ writer[j] = "spilling" /\ writer'[j] = "inserting"
               /\ Exists(Tmp(Input(j))) /\ file'[Input(j)] = file[Tmp(Input(j))]
               /\ Input(j) \notin sweep'.old
         /\ \/ /\ writer[j] # "undoing" /\ writer'[j] # "committing"
               /\ file'[Result(j)] = file[Result(j)]
            \/ writer[j] = "undoing" /\ file'[Result(j)] = Absent
            \/ /\ writer[j] = "writing" /\ writer'[j] = "committing"
               /\ Exists(Tmp(Result(j))) /\ file'[Result(j)] = file[Tmp(Result(j))]
               /\ Result(j) \notin sweep'.old
         /\ writer'[j] = "spilling" =>
              file'[Tmp(Input(j))] = 0 /\ Tmp(Input(j)) \notin sweep'.old
         /\ writer'[j] = "writing" =>
              file'[Tmp(Result(j))] = 0 /\ Tmp(Result(j)) \notin sweep'.old
         /\ sweep'.old \subseteq sweep.old
         /\ sweep' = [sweep EXCEPT !.old = sweep'.old]
<1>1. /\ file \in [Path -> 0..(Stale + 1) \cup {Absent}]
      /\ sweep = [sweep EXCEPT !.old = sweep.old]
  BY DEF TypeOK
<1> QED
  BY <1>1, PathsDiffer
  DEF Submission, Completion, At, Goto, SubmitInvalid, WriteInput, RenameInput,
      Insert, WriteResult, JobFails, RenameResult, Commit, UndoResult, Fail, UnlinkInput,
      Write, Replace, Unlink, TypeOK

LEMMA JobStepOthers ==
  ASSUME TypeOK, NEW j \in Job, Submission(j) \/ Completion(j)
  PROVE  /\ \A k \in Job \ {j} :
              /\ file'[Input(k)] = file[Input(k)] /\ file'[Result(k)] = file[Result(k)]
              /\ file'[Tmp(Input(k))] = file[Tmp(Input(k))]
              /\ file'[Tmp(Result(k))] = file[Tmp(Result(k))]
         /\ sweep'.pc = sweep.pc /\ sweep'.job = sweep.job /\ sweep'.path = sweep.path
         /\ sweep'.doomed = sweep.doomed /\ sweep'.old \subseteq sweep.old
<1>1. \A p \in Path : p \notin {Input(j), Result(j), Tmp(Input(j)), Tmp(Result(j))} =>
        file'[p] = file[p]
  BY JobStepFiles
<1>2. sweep' = [sweep EXCEPT !.old = sweep'.old] /\ sweep'.old \subseteq sweep.old
  BY JobStepFiles
<1>3. /\ sweep'.pc = sweep.pc /\ sweep'.job = sweep.job /\ sweep'.path = sweep.path
      /\ sweep'.doomed = sweep.doomed
  BY <1>2 DEF TypeOK
<1> QED
  BY <1>1, <1>2, <1>3, PathsDiffer

\* A step of a submission or a completion.
LEMMA JobKeeps ==
  ASSUME TypeOK, Kept, NEW j \in Job, Submission(j) \/ Completion(j)
  PROVE  Kept'
<1> USE DEF Exists
<1>1. /\ JobSteps(j)
      /\ proc = "up" /\ UNCHANGED <<interrupted, reader, proc>>
      /\ \A k \in Job \ {j} : row'[k] = row[k] /\ ended'[k] = ended[k] /\ writer'[k] = writer[k]
      /\ ended'[j] = IF row'[j] = row[j] THEN ended[j] ELSE 0
  BY JobStepRows DEF Kept
<1>2. WriterFits'
  BY <1>1 DEF Kept, WriterFits, JobSteps
<1>3. Young'
  <2> SUFFICES ASSUME NEW k \in Job, NEW p \in InHand(k)'
               PROVE  (file'[p] # Absent => file'[p] <= Stale) /\ p \notin sweep'.old
    BY DEF Young
  <2>1. CASE k # j
    <3>1. InHand(k)' = InHand(k)
      BY <1>1, <2>1 DEF InHand
    <3>2. p \in {Input(k), Result(k), Tmp(Input(k)), Tmp(Result(k))}
      BY <3>1 DEF InHand
    <3> QED
      BY <2>1, <3>1, <3>2, JobStepOthers DEF Kept, Young
  <2>2. CASE k = j
    <3>1. 0 <= Stale
      BY StoreAssumption
    <3>2. CASE writer'[j] \in {"spilling", "writing"}
      <4>1. p = IF writer'[j] = "spilling" THEN Tmp(Input(j)) ELSE Tmp(Result(j))
        BY <2>2, <3>2 DEF InHand
      <4> QED
        BY <3>1, <3>2, <4>1, JobStepFiles
    <3>3. CASE writer'[j] = "inserting"
      <4>1. p = Input(j)
        BY <2>2, <3>3 DEF InHand
      <4>2. writer[j] = "spilling"
        BY <1>1, <3>3 DEF JobSteps
      <4>3. Tmp(Input(j)) \in InHand(j)
        BY <4>2 DEF InHand
      <4> QED
        BY <3>3, <4>1, <4>2, <4>3, JobStepFiles, StoreAssumption DEF Kept, Young, InputFits
    <3>4. CASE writer'[j] = "committing"
      <4>1. p = Result(j)
        BY <2>2, <3>4 DEF InHand
      <4>2. writer[j] = "writing"
        BY <1>1, <3>4 DEF JobSteps
      <4>3. Tmp(Result(j)) \in InHand(j)
        BY <4>2 DEF InHand
      <4> QED
        BY <3>4, <4>1, <4>2, <4>3, JobStepFiles DEF Kept, Young
    <3>5. CASE writer'[j] = "undoing"
      <4>1. p = Result(j)
        BY <2>2, <3>5 DEF InHand
      <4>2. writer[j] = "committing"
        BY <1>1, <3>5 DEF JobSteps
      <4>3. Result(j) \in InHand(j)
        BY <4>2 DEF InHand
      <4> QED
        BY <3>5, <4>1, <4>2, <4>3, JobStepFiles DEF Kept, Young
    <3>6. writer'[j] \in {"spilling", "writing", "inserting", "committing", "undoing"}
      BY <2>2 DEF InHand
    <3> QED
      BY <3>2, <3>3, <3>4, <3>5, <3>6
  <2> QED
    BY <2>1, <2>2

<1>4. /\ sweep'.pc = sweep.pc /\ sweep'.job = sweep.job /\ sweep'.path = sweep.path
      /\ sweep'.doomed = sweep.doomed /\ sweep'.old \subseteq sweep.old
      /\ \A k \in Job \ {j} : /\ file'[Input(k)] = file[Input(k)]
                              /\ file'[Result(k)] = file[Result(k)]
  BY JobStepOthers
<1>5. \A k \in Job : Expired(k) => Expired(k)' /\ row'[k] = row[k]
  <2>1. ASSUME Expired(j)
        PROVE  row'[j] = row[j]
    BY <1>1, <2>1 DEF Expired, JobSteps, Kept, WriterFits
  <2> QED
    BY <1>1, <2>1 DEF Expired
<1>6. SweepFits'
  <2>1. /\ sweep'.pc \in {"idle", "prune", "delete", "clock"} => sweep'.old = {}
        /\ sweep'.pc \in {"recheck", "unlink"} <=> sweep'.path # NoPath
        /\ sweep'.pc = "recheck" => ~sweep'.path.tmp
    BY <1>4 DEF Kept, SweepFits
  <2>2. \A k \in sweep'.doomed : Expired(k)'
    BY <1>4, <1>5 DEF Kept, SweepFits, TypeOK
  <2>3. ASSUME sweep'.pc = "delete"
        PROVE  /\ sweep'.job \in Job /\ Expired(sweep.job)'
               /\ row'[sweep.job] = "completed" => file'[Result(sweep.job)] = Absent
    <3>1. /\ sweep.job \in Job /\ Expired(sweep.job)
          /\ row[sweep.job] = "completed" => file[Result(sweep.job)] = Absent
      BY <1>4, <2>3 DEF Kept, SweepFits
    <3>2. sweep.job = j => writer[j] \in {"new", "spilling", "inserting", "unlinking", "over"}
      BY <3>1 DEF Kept, WriterFits, Expired, TypeOK
    <3>3. sweep.job = j /\ row[j] = "completed" => file'[Result(j)] = file[Result(j)]
      BY <3>2, JobStepFiles
    <3> QED
      BY <1>4, <1>5, <3>1, <3>3
  <2> QED
    BY <1>4, <2>1, <2>2, <2>3 DEF SweepFits
<1>7. InputFits' /\ InputStays'
  <2> SUFFICES ASSUME NEW k \in Job
               PROVE  /\ writer'[k] \in {"new", "spilling", "inserting"} =>
                           Input(k) \notin sweep'.old /\ sweep'.path # Input(k)
                      /\ writer'[k] \in {"new", "spilling"} => file'[Input(k)] = Absent
                      /\ writer'[k] = "inserting" => file'[Input(k)] # Absent
                      /\ sweep'.pc = "unlink" /\ sweep'.path = Input(k) => row'[k] # "unfinished"
                      /\ row'[k] = "unfinished" => file'[Input(k)] # Absent
    BY DEF InputFits, InputStays
  <2>1. CASE k # j
    BY <1>1, <1>4, <2>1 DEF Kept, InputFits, InputStays
  <2>2. CASE k = j
    BY <1>1, <1>4, <2>2, JobStepFiles DEF JobSteps, Kept, WriterFits, InputFits, InputStays
  <2> QED
    BY <2>1, <2>2
<1>8. ResultFits' /\ ResultStaysReadable'
  <2> SUFFICES ASSUME NEW k \in Job \ interrupted
               PROVE  /\ file'[Result(k)] # Absent =>
                           writer'[k] \in {"committing", "undoing"} \/ row'[k] = "completed"
                      /\ writer'[k] = "committing" => file'[Result(k)] # Absent
                      /\ Result(k) \in sweep'.old => row'[k] = "completed"
                      /\ sweep'.path = Result(k) => row'[k] = "completed" /\ sweep'.pc = "recheck"
                      /\ row'[k] = "completed" /\ ~Expired(k)' => file'[Result(k)] # Absent
    BY <1>1 DEF ResultFits, ResultStaysReadable
  <2>1. CASE k # j
    BY <1>1, <1>4, <2>1 DEF Kept, ResultFits, ResultStaysReadable, Expired
  <2>2. CASE k = j
    BY <1>1, <1>4, <1>5, <2>2, JobStepFiles
    DEF JobSteps, Kept, WriterFits, ResultFits, ResultStaysReadable
  <2> QED
    BY <2>1, <2>2
<1>9. ReaderFits' /\ UnknownMeansExpired'
  <2>1. ASSUME NEW k \in Job, row[k] \in {"completed", "deleted"}
        PROVE  row'[k] = row[k]
    BY <1>1, <2>1 DEF JobSteps, Kept, WriterFits
  <2>2. reader.pc # "idle" => reader.job \in Job /\ row'[reader.job] \in {"completed", "deleted"}
    BY <2>1 DEF Kept, ReaderFits
  <2>3. reader.answer = "unknown" =>
          reader.job \in Job /\ (row'[reader.job] = "deleted" \/ Expired(reader.job)'
                                 \/ reader.job \in interrupted)
    BY <1>1, <1>5, <2>1 DEF Kept, ReaderFits, UnknownMeansExpired
  <2>4. reader' = reader /\ interrupted' = interrupted
    BY <1>1
  <2>5. ReaderFits'
    BY <2>2, <2>3, <2>4 DEF ReaderFits
  <2>6. ASSUME NEW k, k = reader.job, Expired(k)'
        PROVE  Expired(reader.job)'
    BY <2>4, <2>6
  <2> QED
    BY <2>3, <2>4, <2>5, <2>6 DEF UnknownMeansExpired
<1> QED
  BY <1>2, <1>3, <1>6, <1>7, <1>8, <1>9 DEF Kept

-----------------------------------------------------------------------------
(* What a step of the sweep touches *)

\* A step that only reads.
SweepReads ==
  \/ SelectExpired \/ SelectReferenced \/ ReadClock \/ ListFolder \/ Recheck \/ NextFolder
  \/ \E p \in Path : Look(p)

\* It has a path in hand because the path was seen to be old, and takes it away because it
\* is a temporary or has no row at the second look.
LEMMA SweepReadsWhat ==
  ASSUME TypeOK, Kept, SweepReads
  PROVE  /\ UNCHANGED file /\ OnlySweep
         /\ sweep'.old \subseteq sweep.old \/ sweep'.old = {p \in Path : IsOld(p)}
         /\ sweep'.pc \in {"idle", "prune", "delete", "clock"} => sweep'.old = {}
         /\ sweep'.pc # "delete"
         /\ sweep'.doomed \subseteq sweep.doomed \cup Doomed
         /\ \/ sweep'.path = NoPath /\ sweep'.pc \notin {"recheck", "unlink"}
            \/ /\ sweep'.path \in sweep.old
               /\ sweep'.pc = IF sweep'.path.tmp THEN "unlink" ELSE "recheck"
            \/ /\ sweep'.path = sweep.path /\ sweep.pc = "recheck" /\ sweep'.pc = "unlink"
               /\ sweep.path \notin Referenced
<1> USE DEF OnlySweep, Sweeping, TypeOK
<1>0. /\ sweep.pc \in {"idle", "prune", "delete", "clock"} => sweep.old = {}
      /\ sweep.pc \in {"recheck", "unlink"} <=> sweep.path # NoPath
  BY DEF Kept, SweepFits
<1>1. CASE SelectExpired
  BY <1>1 DEF SelectExpired, NoSweep
<1>2. CASE SelectReferenced
  BY <1>0, <1>2 DEF SelectReferenced
<1>3. CASE ReadClock
  BY <1>0, <1>3 DEF ReadClock
<1>4. CASE ListFolder
  BY <1>0, <1>4 DEF ListFolder
<1>5. CASE Recheck
  BY <1>0, <1>5 DEF Recheck
<1>6. CASE NextFolder
  BY <1>0, <1>6 DEF NextFolder
<1>7. ASSUME NEW p \in Path, Look(p)
      PROVE  /\ UNCHANGED file /\ OnlySweep
             /\ sweep'.old = sweep.old /\ sweep'.doomed = sweep.doomed
             /\ sweep'.pc \in {"look", "unlink", "recheck"}
             /\ \/ sweep'.path = NoPath /\ sweep'.pc \notin {"recheck", "unlink"}
                \/ /\ sweep'.path \in sweep.old
                   /\ sweep'.pc = IF sweep'.path.tmp THEN "unlink" ELSE "recheck"
  BY <1>7 DEF Look, Stat
<1> QED
  BY <1>1, <1>2, <1>3, <1>4, <1>5, <1>6, <1>7 DEF SweepReads

\* A file that is old is not one being written.
LEMMA OldIsNotInHand ==
  ASSUME TypeOK, Kept, SweepReads
  PROVE  /\ \A j \in Job : \A p \in InHand(j) : p \notin sweep'.old
         /\ \A p \in sweep'.old : p \in sweep.old \/ Exists(p)
<1>1. sweep'.old \subseteq sweep.old \/ sweep'.old = {p \in Path : IsOld(p)}
  BY SweepReadsWhat
<1>2. ASSUME NEW j \in Job, NEW p \in InHand(j)
      PROVE  ~IsOld(p) /\ p \notin sweep.old
  <2>1. p \in Path
    BY InHandPaths
  <2>2. file[p] \in 0..(Stale + 1) \cup {Absent} /\ Stale \in Nat
    BY <2>1, StoreAssumption DEF TypeOK
  <2> QED
    BY <2>2 DEF Kept, Young, IsOld, Exists
<1> QED
  BY <1>1, <1>2 DEF IsOld

LEMMA SweepReadsKeeps ==
  ASSUME TypeOK, Kept, SweepReads
  PROVE  Kept'
<1>1. UNCHANGED <<file, row, ended, writer, interrupted, reader, proc>>
  BY SweepReadsWhat DEF OnlySweep, ledger, life
<1>2. \A j \in Job : Expired(j)' = Expired(j) /\ InHand(j)' = InHand(j)
  BY <1>1 DEF Expired, InHand
<1>3. WriterFits' /\ InputStays' /\ ResultStaysReadable' /\ ReaderFits' /\ UnknownMeansExpired'
  BY <1>1 DEF Kept, WriterFits, InputStays, ResultStaysReadable, ReaderFits,
              UnknownMeansExpired, Exists, Expired
<1>4. Young'
  BY <1>1, <1>2, OldIsNotInHand DEF Kept, Young, Exists
<1>5. SweepFits'
  <2>1. \A j \in sweep'.doomed : Expired(j)'
    BY <1>2, SweepReadsWhat DEF Kept, SweepFits, Doomed, TypeOK
  <2>2. /\ sweep'.pc \in {"recheck", "unlink"} <=> sweep'.path # NoPath
        /\ sweep'.pc = "recheck" => ~sweep'.path.tmp
    BY SweepReadsWhat, NoPathAssumption DEF Kept, SweepFits, TypeOK
  <2>3. /\ sweep'.pc \in {"idle", "prune", "delete", "clock"} => sweep'.old = {}
        /\ sweep'.pc # "delete"
    BY SweepReadsWhat
  <2> QED
    BY <2>1, <2>2, <2>3 DEF SweepFits
<1>6. InputFits'
  <2> SUFFICES ASSUME NEW j \in Job
               PROVE  /\ writer[j] \in {"new", "spilling", "inserting"} =>
                           Input(j) \notin sweep'.old /\ sweep'.path # Input(j)
                      /\ sweep'.pc = "unlink" /\ sweep'.path = Input(j) => row[j] # "unfinished"
    BY <1>1 DEF Kept, InputFits, Exists
  <2>1. Input(j) # NoPath /\ ~Input(j).tmp
    BY PathsDiffer, NoPathAssumption
  <2>2. ASSUME writer[j] \in {"new", "spilling", "inserting"}
        PROVE  Input(j) \notin sweep'.old /\ sweep'.path # Input(j)
    <3>1. writer[j] = "inserting" => Input(j) \in InHand(j)
      BY DEF InHand
    <3>2. Input(j) \notin sweep'.old
      BY <2>2, <3>1, OldIsNotInHand DEF Kept, InputFits
    <3>3. sweep'.path # Input(j)
      BY <2>1, <2>2, SweepReadsWhat DEF Kept, InputFits
    <3> QED
      BY <3>2, <3>3
  <2>3. ASSUME sweep'.pc = "unlink", sweep'.path = Input(j), row[j] = "unfinished"
        PROVE  FALSE
    BY <2>1, <2>3, SweepReadsWhat DEF Referenced
  <2> QED
    BY <2>2, <2>3
<1>7. ResultFits'
  <2> SUFFICES ASSUME NEW j \in Job \ interrupted
               PROVE  /\ Result(j) \in sweep'.old => row[j] = "completed"
                      /\ sweep'.path = Result(j) => row[j] = "completed" /\ sweep'.pc = "recheck"
    BY <1>1 DEF Kept, ResultFits, Exists
  <2>1. Result(j) # NoPath /\ ~Result(j).tmp
    BY PathsDiffer, NoPathAssumption
  <2>2. writer[j] \in {"committing", "undoing"} => Result(j) \in InHand(j)
    BY DEF InHand
  <2>3. Result(j) \in sweep'.old => row[j] = "completed"
    BY <2>2, OldIsNotInHand DEF Kept, ResultFits
  <2>4. row[j] = "completed" => Result(j) \in Referenced
    BY DEF Referenced
  <2>5. sweep'.path = Result(j) => row[j] = "completed" /\ sweep'.pc = "recheck"
    BY <2>1, <2>4, SweepReadsWhat DEF Kept, ResultFits
  <2> QED
    BY <2>3, <2>5
<1> QED
  BY <1>3, <1>4, <1>5, <1>6, <1>7 DEF Kept

-----------------------------------------------------------------------------
(* The steps of the sweep that write *)

\* The result of an expired job goes.
LEMMA PruneResultKeeps ==
  ASSUME TypeOK, Kept, NEW j \in Job, PruneResult(j)
  PROVE  Kept'
<1> USE DEF Exists
<1>1. /\ UNCHANGED <<row, ended, writer, interrupted, reader, proc>>
      /\ sweep.pc = "prune" /\ j \in sweep.doomed
      /\ sweep' = [sweep EXCEPT !.pc = "delete", !.job = j]
      /\ IF row[j] = "completed" THEN Unlink(Result(j)) ELSE UNCHANGED file
  BY DEF PruneResult, OnlySweep, Sweeping, ledger, life
<1>2. /\ sweep'.pc = "delete" /\ sweep'.job = j /\ sweep'.path = NoPath
      /\ sweep'.doomed = sweep.doomed /\ sweep'.old = {} /\ sweep.old = {} /\ sweep.path = NoPath
  BY <1>1 DEF TypeOK, Kept, SweepFits
<1>3. Expired(j)
  BY <1>1 DEF Kept, SweepFits
<1>4. \A p \in Path : file'[p] = IF p = Result(j) /\ row[j] = "completed" THEN Absent ELSE file[p]
  BY <1>1 DEF TypeOK, Unlink
<1>5. \A k \in Job : /\ InHand(k)' = InHand(k)
                     /\ Expired(k)' = Expired(k)
  BY <1>1 DEF InHand, Expired
<1>6. WriterFits' /\ ReaderFits' /\ UnknownMeansExpired'
  BY <1>1 DEF Kept, WriterFits, ReaderFits, UnknownMeansExpired, Expired
<1>7. Young'
  BY <1>2, <1>4, <1>5, InHandPaths DEF Kept, Young
<1>8. SweepFits'
  <2>1. row'[j] = "completed" => file'[Result(j)] = Absent
    BY <1>1, <1>4, PathsDiffer
  <2>2. sweep.doomed \subseteq Job
    BY DEF TypeOK
  <2>3. \A k \in sweep'.doomed : Expired(k)'
    BY <1>2, <1>5, <2>2 DEF Kept, SweepFits
  <2>4. sweep'.job \in Job /\ Expired(sweep.job)'
    BY <1>1, <1>2, <1>3 DEF Expired
  <2> QED
    BY <1>2, <2>1, <2>3, <2>4 DEF SweepFits
<1>9. InputFits' /\ InputStays'
  <2>1. \A k \in Job : file'[Input(k)] = file[Input(k)] /\ Input(k) # NoPath
    BY <1>4, PathsDiffer, NoPathAssumption
  <2> QED
    BY <1>1, <1>2, <2>1 DEF Kept, InputFits, InputStays
<1>10. ResultFits' /\ ResultStaysReadable'
  <2>1. \A k \in Job : Result(k) # NoPath /\ (k # j => file'[Result(k)] = file[Result(k)])
    BY <1>4, PathsDiffer, NoPathAssumption
  <2>2. row[j] = "completed" => file'[Result(j)] = Absent
    BY <1>4, PathsDiffer
  <2>3. row[j] # "completed" => file'[Result(j)] = file[Result(j)]
    BY <1>4, PathsDiffer
  <2>4. writer[j] = "committing" => row[j] = "unfinished"
    BY DEF Kept, WriterFits
  <2> QED
    BY <1>1, <1>2, <1>3, <1>5, <2>1, <2>2, <2>3, <2>4 DEF Kept, ResultFits, ResultStaysReadable
<1> QED
  BY <1>6, <1>7, <1>8, <1>9, <1>10 DEF Kept

\* Its row goes after the result.
LEMMA PruneRowKeeps ==
  ASSUME TypeOK, Kept, PruneRow
  PROVE  Kept'
<1> USE DEF Exists
<1>1. /\ UNCHANGED <<file, ended, writer, interrupted, reader, proc>>
      /\ sweep.pc = "delete"
      /\ row' = [row EXCEPT ![sweep.job] = "deleted"]
      /\ sweep' = [sweep EXCEPT !.pc = "prune", !.doomed = @ \ {sweep.job}, !.job = NoJob]
  BY DEF PruneRow, Sweeping, life
<1>2. /\ sweep'.pc = "prune" /\ sweep'.doomed = sweep.doomed \ {sweep.job}
      /\ sweep'.old = {} /\ sweep.old = {} /\ sweep'.path = NoPath
  BY <1>1 DEF TypeOK, Kept, SweepFits
<1>3. /\ sweep.job \in Job /\ Expired(sweep.job)
      /\ row[sweep.job] = "completed" => file[Result(sweep.job)] = Absent
  BY <1>1 DEF Kept, SweepFits
<1>4. \A k \in Job : row'[k] = IF k = sweep.job THEN "deleted" ELSE row[k]
  BY <1>1 DEF TypeOK
<1>5. \A k \in Job : k # sweep.job /\ Expired(k) => Expired(k)'
  BY <1>1, <1>4 DEF Expired
<1>6. \A k \in Job : k # sweep.job => Expired(k)' = Expired(k)
  BY <1>1, <1>4 DEF Expired
<1>7. row[sweep.job] \in {"completed", "failed"}
  BY <1>3 DEF Expired
<1>8. WriterFits'
  BY <1>1, <1>4, <1>7 DEF Kept, WriterFits
<1>9. Young'
  <2>1. \A k \in Job : InHand(k)' = InHand(k)
    BY <1>1 DEF InHand
  <2> QED
    BY <1>1, <1>2, <2>1 DEF Kept, Young
<1>10. SweepFits'
  <2>1. sweep.doomed \subseteq Job
    BY DEF TypeOK
  <2> QED
    BY <1>2, <1>5, <2>1 DEF Kept, SweepFits
<1>11. InputFits' /\ InputStays'
  <2>1. \A k \in Job : Input(k) # NoPath
    BY PathsDiffer, NoPathAssumption
  <2> QED
    BY <1>1, <1>2, <1>4, <2>1 DEF Kept, InputFits, InputStays
<1>12. ResultFits' /\ ResultStaysReadable'
  <2>1. \A k \in Job : Result(k) # NoPath
    BY PathsDiffer, NoPathAssumption
  <2> QED
    BY <1>1, <1>2, <1>3, <1>4, <1>6, <1>7, <2>1
    DEF Kept, WriterFits, ResultFits, ResultStaysReadable
<1>13. ReaderFits'
  <2>1. \A k \in Job : row[k] \in {"completed", "deleted"} => row'[k] \in {"completed", "deleted"}
    BY <1>4
  <2> QED
    BY <1>1, <2>1 DEF Kept, ReaderFits
<1>14. UnknownMeansExpired'
  <2>1. \A k \in Job : (row[k] = "deleted" \/ Expired(k)) => (row'[k] = "deleted" \/ Expired(k)')
    BY <1>4, <1>5
  <2>2. \A k \in Job : k = reader.job => Expired(k)' = Expired(reader.job)'
    BY <1>1
  <2> QED
    BY <1>1, <2>1, <2>2 DEF Kept, ReaderFits, UnknownMeansExpired
<1> QED
  BY <1>8, <1>9, <1>10, <1>11, <1>12, <1>13, <1>14 DEF Kept

\* A file without a row goes.
LEMMA UnlinkStrayKeeps ==
  ASSUME TypeOK, Kept, UnlinkStray
  PROVE  Kept'
<1> USE DEF Exists
<1>1. /\ UNCHANGED <<row, ended, writer, interrupted, reader, proc>>
      /\ sweep.pc = "unlink" /\ Unlink(sweep.path)
      /\ sweep' = [sweep EXCEPT !.pc = "look", !.path = NoPath]
  BY DEF UnlinkStray, OnlySweep, Sweeping, ledger, life
<1>2. /\ sweep'.pc = "look" /\ sweep'.doomed = sweep.doomed
      /\ sweep'.old = sweep.old /\ sweep'.path = NoPath
  BY <1>1 DEF TypeOK
<1>3. \A p \in Path : file'[p] = IF p = sweep.path THEN Absent ELSE file[p]
  BY <1>1 DEF TypeOK, Unlink
<1>4. \A k \in Job : /\ InHand(k)' = InHand(k)
                     /\ Expired(k)' = Expired(k)
  BY <1>1 DEF InHand, Expired
<1>5. WriterFits' /\ ReaderFits' /\ UnknownMeansExpired'
  BY <1>1 DEF Kept, WriterFits, ReaderFits, UnknownMeansExpired, Expired
<1>6. Young'
  BY <1>2, <1>3, <1>4, InHandPaths DEF Kept, Young
<1>7. SweepFits'
  <2>1. sweep.doomed \subseteq Job
    BY DEF TypeOK
  <2> QED
    BY <1>2, <1>4, <2>1 DEF Kept, SweepFits
<1>8. InputFits' /\ InputStays'
  <2>1. \A k \in Job : Input(k) \in Path /\ Input(k) # NoPath
    BY PathsDiffer, NoPathAssumption
  <2> QED
    BY <1>1, <1>2, <1>3, <2>1 DEF Kept, InputFits, InputStays
<1>9. ResultFits' /\ ResultStaysReadable'
  <2>1. \A k \in Job : Result(k) \in Path /\ Result(k) # NoPath
    BY PathsDiffer, NoPathAssumption
  <2>2. \A k \in Job \ interrupted : sweep.path # Result(k)
    BY <1>1 DEF Kept, ResultFits
  <2> QED
    BY <1>1, <1>2, <1>3, <1>4, <2>1, <2>2 DEF Kept, ResultFits, ResultStaysReadable
<1> QED
  BY <1>5, <1>6, <1>7, <1>8, <1>9 DEF Kept

\* The end of the sweep; the one of start() finds every unfinished job's input.
LEMMA EndSweepKeeps ==
  ASSUME TypeOK, Kept, EndSweep
  PROVE  Kept'
<1> USE DEF Exists
<1>1. UNCHANGED <<file, interrupted, reader>> /\ sweep' = NoSweep
  BY DEF EndSweep
<1>2. ASSUME NEW j \in Job
      PROVE  /\ row'[j] = row[j] /\ ended'[j] = ended[j]
             /\ writer'[j] = IF proc = "starting" /\ row[j] = "unfinished" THEN "queued" ELSE writer[j]
  BY DEF EndSweep, Kept, InputStays, ledger
<1>3. proc' = IF proc = "starting" THEN "up" ELSE proc
  BY DEF EndSweep
<1>4. /\ sweep'.pc = "idle" /\ sweep'.doomed = {} /\ sweep'.old = {} /\ sweep'.path = NoPath
  BY <1>1 DEF NoSweep
<1>5. \A j \in Job : /\ Input(j) # NoPath /\ Result(j) # NoPath
                     /\ Expired(j)' = Expired(j)
  BY <1>2, PathsDiffer, NoPathAssumption DEF Expired
<1>6. WriterFits'
  BY <1>2, <1>3 DEF Kept, WriterFits
<1>7. Young'
  <2>1. \A j \in Job : InHand(j)' \subseteq InHand(j)
    BY <1>2 DEF InHand
  <2> QED
    BY <1>1, <1>4, <2>1 DEF Kept, Young
<1>8. SweepFits'
  BY <1>4 DEF SweepFits
<1>9. InputFits' /\ InputStays'
  BY <1>1, <1>2, <1>4, <1>5 DEF Kept, InputFits, InputStays
<1>10. ResultFits' /\ ResultStaysReadable'
  <2>1. \A j \in Job : proc = "starting" => writer[j] \notin {"committing", "undoing"}
    BY DEF Kept, WriterFits
  <2> QED
    BY <1>1, <1>2, <1>4, <1>5, <2>1 DEF Kept, ResultFits, ResultStaysReadable
<1>11. ReaderFits'
  BY <1>1, <1>2 DEF Kept, ReaderFits
<1>12. UnknownMeansExpired'
  <2>1. \A k \in Job : k = reader.job => Expired(k)' = Expired(reader.job)'
    BY <1>1
  <2> QED
    BY <1>1, <1>2, <1>5, <2>1 DEF Kept, ReaderFits, UnknownMeansExpired
<1> QED
  BY <1>6, <1>7, <1>8, <1>9, <1>10, <1>11, <1>12 DEF Kept

-----------------------------------------------------------------------------
(* Readers, time and the process *)

LEMMA ReadKeeps ==
  ASSUME TypeOK, Kept, Read
  PROVE  Kept'
<1>1. OnlyReader
  BY DEF Read, LookUpEarlier, ReadResult, Poll
<1>2. UNCHANGED <<file, row, ended, writer, interrupted, sweep, proc>>
  BY <1>1 DEF OnlyReader, ledger, life
<1>3. /\ WriterFits' /\ Young' /\ SweepFits' /\ InputFits' /\ InputStays' /\ ResultFits'
      /\ ResultStaysReadable'
  BY <1>2 DEF Kept, WriterFits, Young, SweepFits, InputFits, InputStays, ResultFits,
              ResultStaysReadable, InHand, Exists, Expired
<1>4. \/ reader'.pc = "idle" /\ reader'.answer = "none"
      \/ /\ reader'.pc # "idle" /\ reader'.answer = "none"
         /\ reader'.job \in Job /\ row[reader'.job] = "completed"
      \/ /\ reader'.pc = "idle" /\ reader'.job \in Job
         /\ row[reader'.job] = "deleted" \/ Expired(reader'.job) \/ reader'.job \in interrupted
  <2>1. ASSUME NEW j \in Job, Poll(j)
        PROVE  \/ reader' = NoReader
               \/ reader' = [NoReader EXCEPT !.pc = "polling", !.job = j] /\ row[j] = "completed"
               \/ /\ reader' = [NoReader EXCEPT !.job = j, !.answer = "unknown"]
                  /\ row[j] = "deleted" \/ Expired(j)
    <3>1. row[j] # "unknown"
      BY DEF TypeOK
    <3>2. CASE row[j] = "deleted" \/ Expired(j)
      BY <2>1, <3>2 DEF Poll, Answer
    <3>3. CASE row[j] = "completed" /\ ~Expired(j)
      BY <2>1, <3>3 DEF Poll
    <3>4. CASE row[j] # "completed" /\ row[j] # "deleted" /\ ~Expired(j)
      BY <2>1, <3>1, <3>4 DEF Poll, Answer
    <3> QED
      BY <3>2, <3>3, <3>4
  <2>2. ASSUME LookUpEarlier
        PROVE  \E j \in Job : /\ reader' = [NoReader EXCEPT !.pc = "reusing", !.job = j]
                              /\ row[j] = "completed"
    BY <2>2 DEF LookUpEarlier
  <2>3. ASSUME ReadResult
        PROVE  \/ reader' = NoReader
               \/ \E j \in Job :
                    /\ reader' = [NoReader EXCEPT !.job = j, !.answer = "unknown"]
                    /\ row[j] = "deleted" \/ Expired(j) \/ j \in interrupted
    <3> DEFINE j == reader.job
    <3>1. j \in Job /\ row[j] \in {"completed", "deleted"}
      BY <2>3 DEF ReadResult, Kept, ReaderFits
    <3>2. row[j] = "completed" /\ ~Expired(j) /\ j \notin interrupted => Exists(Result(j))
      BY <3>1 DEF Kept, ResultStaysReadable
    <3>3. \/ reader' = NoReader
          \/ reader' = [NoReader EXCEPT !.job = j, !.answer = "unknown"] /\ ~Exists(Result(j))
      BY <2>3 DEF ReadResult, Answer
    <3> QED
      BY <3>1, <3>2, <3>3
  <2>4. ASSUME NEW j \in Job
        PROVE  /\ reader' = [NoReader EXCEPT !.job = j, !.answer = "unknown"] =>
                    reader'.pc = "idle" /\ reader'.job = j
               /\ reader' \in {[NoReader EXCEPT !.pc = "polling", !.job = j],
                               [NoReader EXCEPT !.pc = "reusing", !.job = j]} =>
                    reader'.pc # "idle" /\ reader'.answer = "none" /\ reader'.job = j
    BY DEF NoReader
  <2>5. reader' = NoReader => reader'.pc = "idle" /\ reader'.answer = "none"
    BY DEF NoReader
  <2>6. CASE \E j \in Job : Poll(j)
    <3>1. PICK j \in Job : Poll(j)
      BY <2>6
    <3> QED
      BY <2>1, <2>4, <2>5, <3>1
  <2>7. CASE LookUpEarlier
    <3>1. PICK j \in Job : /\ reader' = [NoReader EXCEPT !.pc = "reusing", !.job = j]
                           /\ row[j] = "completed"
      BY <2>2, <2>7
    <3> QED
      BY <2>4, <3>1
  <2>8. CASE ReadResult
    BY <2>3, <2>4, <2>5, <2>8
  <2> QED
    BY <2>6, <2>7, <2>8 DEF Read
<1>5. reader' \in [pc : {"idle", "polling", "reusing"}, job : Job \cup {NoJob},
                   answer : {"none", "unknown"}]
  BY TypeStep DEF Next, TypeOK
<1>6. ReaderFits'
  BY <1>2, <1>4, <1>5 DEF ReaderFits
<1>7. UnknownMeansExpired'
  <2>1. \A k \in Job : Expired(k)' = Expired(k)
    BY <1>2 DEF Expired
  <2>2. reader'.answer = "unknown" => \/ row'[reader'.job] = "deleted" \/ Expired(reader.job)'
                                      \/ reader'.job \in interrupted'
    BY <1>2, <1>4 DEF Expired
  <2> QED
    BY <2>2 DEF UnknownMeansExpired
<1> QED
  BY <1>3, <1>6, <1>7 DEF Kept

\* Files and rows grow old, and what is being written is renamed and entered in time.
LEMMA TickKeeps ==
  ASSUME TypeOK, Kept, Tick
  PROVE  Kept'
<1>1. UNCHANGED <<row, writer, interrupted, sweep, reader, proc>>
  BY DEF Tick, life
<1>2. ASSUME NEW p \in Path
      PROVE  Exists(p)' = Exists(p)
  <2>1. file[p] \in Nat \cup {Absent} /\ file'[p] = Older(file[p], Stale)
    BY StoreAssumption DEF Tick, TypeOK
  <2> QED
    BY <2>1, StoreAssumption DEF Exists, Older
<1>3. ASSUME NEW j \in Job, Expired(j)
      PROVE  Expired(j)'
  <2>1. ended[j] \in Nat /\ ended[j] > Ttl /\ ended'[j] = Older(ended[j], Ttl)
    BY <1>3 DEF Tick, TypeOK, Expired
  <2>2. ended'[j] = ended[j]
    BY <2>1 DEF Older
  <2> QED
    BY <1>1, <1>3, <2>2 DEF Expired
<1>4. \A j \in Job : /\ InHand(j)' = InHand(j) /\ InHand(j) \subseteq Path
                     /\ Input(j) \in Path /\ Result(j) \in Path
  BY <1>1, InHandPaths, PathsDiffer DEF InHand
<1>5. WriterFits'
  BY <1>1 DEF Kept, WriterFits
<1>6. Young'
  <2>1. ASSUME NEW j \in Job, NEW p \in InHand(j), Exists(p)
        PROVE  file'[p] <= Stale
    <3>1. file[p] \in Nat /\ file[p] < Stale /\ file'[p] = Older(file[p], Stale)
      BY <1>4, <2>1, StoreAssumption DEF Tick, TypeOK, Exists
    <3> QED
      BY <3>1, StoreAssumption DEF Older
  <2> QED
    BY <1>1, <1>2, <1>4, <2>1 DEF Kept, Young
<1>7. SweepFits'
  <2>1. sweep.doomed \subseteq Job
    BY DEF TypeOK
  <2>2. \A j \in sweep.doomed : Expired(j)'
    BY <1>3, <2>1 DEF Kept, SweepFits
  <2>3. sweep.pc = "delete" => /\ sweep.job \in Job
                               /\ row[sweep.job] = "completed" => ~Exists(Result(sweep.job))'
    BY <1>1, <1>2, <1>4 DEF Kept, SweepFits, Exists
  <2>4. sweep.pc = "delete" => Expired(sweep.job)'
    BY <1>1, <1>3 DEF Kept, SweepFits, Expired
  <2> QED
    BY <1>1, <2>2, <2>3, <2>4 DEF Kept, SweepFits
<1>8. InputFits' /\ InputStays'
  BY <1>1, <1>2, <1>4 DEF Kept, InputFits, InputStays
<1>9. ResultFits' /\ ResultStaysReadable'
  BY <1>1, <1>2, <1>3, <1>4 DEF Kept, ResultFits, ResultStaysReadable
<1>10. ReaderFits' /\ UnknownMeansExpired'
  <2>1. reader.answer = "unknown" /\ Expired(reader.job) => Expired(reader.job)'
    BY <1>1, <1>3 DEF Kept, ReaderFits, Expired
  <2> QED
    BY <1>1, <2>1 DEF Kept, ReaderFits, UnknownMeansExpired
<1> QED
  BY <1>5, <1>6, <1>7, <1>8, <1>9, <1>10 DEF Kept

\* Rows and files outlive the process; a completion it did not survive is remembered.
LEMMA LifeKeeps ==
  ASSUME TypeOK, Kept, Start \/ Crash
  PROVE  Kept'
<1>1. CASE Start
  BY <1>1 DEF Start, ledger, Kept, WriterFits, Young, SweepFits, InputFits, InputStays, ResultFits,
              ResultStaysReadable, ReaderFits, UnknownMeansExpired, InHand, Exists, Expired
<1>2. CASE Crash
  <2>1. /\ UNCHANGED <<file, row, ended>> /\ sweep' = NoSweep /\ reader' = NoReader
        /\ proc' = "down"
        /\ \A j \in Job : writer'[j] = IF writer[j] = "new" THEN "new" ELSE "over"
        /\ interrupted' = interrupted \cup
             {j \in Job : writer[j] \in {"writing", "committing", "undoing"}}
    BY <1>2 DEF Crash, ledger
  <2>2. /\ sweep'.pc = "idle" /\ sweep'.doomed = {} /\ sweep'.old = {} /\ sweep'.path = NoPath
        /\ reader'.pc = "idle" /\ reader'.answer = "none"
    BY <2>1 DEF NoSweep, NoReader
  <2>3. \A j \in Job : /\ Input(j) # NoPath /\ Result(j) # NoPath
                       /\ Expired(j)' = Expired(j) /\ InHand(j)' = {}
    BY <2>1, PathsDiffer, NoPathAssumption DEF Expired, InHand
  <2>4. WriterFits' /\ Young' /\ SweepFits' /\ ReaderFits' /\ UnknownMeansExpired'
    BY <2>1, <2>2, <2>3 DEF Kept, WriterFits, Young, SweepFits, ReaderFits, UnknownMeansExpired
  <2>5. InputFits' /\ InputStays'
    BY <2>1, <2>2, <2>3 DEF Kept, InputFits, InputStays, Exists
  <2>6. ResultFits' /\ ResultStaysReadable'
    BY <2>1, <2>2, <2>3 DEF Kept, ResultFits, ResultStaysReadable, Exists
  <2> QED
    BY <2>4, <2>5, <2>6 DEF Kept
<1> QED
  BY <1>1, <1>2

LEMMA KeptStep ==
  ASSUME TypeOK, Kept, [Next]_vars
  PROVE  Kept'
<1>1. CASE \E j \in Job : Submission(j) \/ Completion(j)
  BY <1>1, JobKeeps
<1>2. CASE Sweep
  BY <1>2, SweepReadsKeeps, PruneResultKeeps, PruneRowKeeps, UnlinkStrayKeeps, EndSweepKeeps
  DEF Sweep, SweepReads
<1>3. CASE UNCHANGED vars
  BY <1>3 DEF vars, Kept, WriterFits, Young, SweepFits, InputFits, InputStays, ResultFits,
              ResultStaysReadable, ReaderFits, UnknownMeansExpired, InHand, Exists, Expired
<1> QED
  BY <1>1, <1>2, <1>3, ReadKeeps, TickKeeps, LifeKeeps DEF Next

\* For any number of jobs and of crashes, any ages, and whatever the interleaving of
\* writers, sweeper and clients: no sweep takes the input of a job that is still to be
\* read, a completed result stays readable until it expires unless its completion was
\* interrupted, and unknown is answered of no other job (ocr_queue.py:377-418, 737-768).
THEOREM NothingInUseIsTaken == Spec => []Inv
<1>1. Init => TypeOK /\ Kept
  BY TypeInit, KeptInit
<1>2. TypeOK /\ Kept /\ [Next]_vars => (TypeOK /\ Kept)'
  BY TypeStep, KeptStep
<1>3. TypeOK /\ Kept => Inv
  BY DEF Kept, Inv
<1> QED
  BY <1>1, <1>2, <1>3, PTL DEF Spec

=============================================================================
