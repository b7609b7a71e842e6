------------------------------- MODULE OcrTask -------------------------------
(***************************************************************************)
(* What the OCR queue promises to a client that polls GET /tasks/{id}.     *)
(*                                                                         *)
(* A task is unknown until its submission is accepted.  An accepted task   *)
(* is pending, then processing, and ends completed or failed.  An engine   *)
(* restart may put a task that has no recorded outcome back to pending,    *)
(* even one reported as failed when the ledger could not record the        *)
(* failure.  An outcome recorded in the ledger is final, and an accepted   *)
(* task never becomes unknown again (retention is in OcrStore).            *)
(***************************************************************************)

CONSTANT Job

VARIABLES
  task,      \* what a poll of each task answers
  recorded   \* the tasks whose outcome is in the ledger

contractVars == <<task, recorded>>

Unfinished == {"pending", "processing"}
Outcome == {"completed", "failed"}

ContractTypeOK ==
  /\ task \in [Job -> Unfinished \cup Outcome \cup {"unknown"}]
  /\ recorded \in SUBSET Job

ContractInit ==
  /\ task = [j \in Job |-> "unknown"]
  /\ recorded = {}

Accept(j) ==
  /\ task[j] = "unknown"
  /\ task' = [task EXCEPT ![j] = "pending"]
  /\ UNCHANGED recorded

\* A request whose pages or parameters cannot be planned fails its own task.
Reject(j) ==
  /\ task[j] = "unknown"
  /\ task' = [task EXCEPT ![j] = "failed"]
  /\ recorded' = recorded \cup {j}

Begin(j) ==
  /\ task[j] = "pending"
  /\ task' = [task EXCEPT ![j] = "processing"]
  /\ UNCHANGED recorded

\* The outcome reaches the ledger before the poll can see it.
Record(j) ==
  /\ j \notin recorded
  /\ task[j] \in Unfinished
  /\ recorded' = recorded \cup {j}
  /\ \/ UNCHANGED task
     \/ \E o \in Outcome : task' = [task EXCEPT ![j] = o]

Report(j) ==
  /\ task[j] \in Unfinished
  /\ \/ j \in recorded /\ \E o \in Outcome : task' = [task EXCEPT ![j] = o]
     \/ j \notin recorded /\ task' = [task EXCEPT ![j] = "failed"]
  /\ UNCHANGED recorded

\* The process dies or comes back: unrecorded tasks are polled from the ledger,
\* then from a fresh queue; a recorded one shows its outcome at once.
Restart ==
  /\ UNCHANGED recorded
  /\ \E view \in [Job -> Unfinished \cup Outcome \cup {"unknown"}] :
       /\ \A j \in Job :
            CASE task[j] = "unknown" -> view[j] = "unknown"
              [] task[j] # "unknown" /\ j \notin recorded -> view[j] \in Unfinished
              [] j \in recorded /\ task[j] \in Outcome -> view[j] = task[j]
              [] j \in recorded /\ task[j] \in Unfinished -> view[j] \in Outcome
       /\ task' = view

ContractNext ==
  \/ \E j \in Job : Accept(j) \/ Reject(j) \/ Begin(j) \/ Record(j) \/ Report(j)
  \/ Restart

Contract == ContractInit /\ [][ContractNext]_contractVars

=============================================================================
