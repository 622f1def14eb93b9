----------------------------- MODULE JobRegistry -----------------------------
(* The job registry of the studio server (job-registry.ts).  A job's task   *)
(* starts in the microtask after it is enqueued, before any other request,  *)
(* timer or completion is handled: "queued" is over before the next step.   *)
(* Cancelling aborts a signal; the task goes on until it looks at it, and   *)
(* its end is handled whatever became of the entry meanwhile.  Progress,    *)
(* stages and priorities are left out.                                      *)
EXTENDS Naturals

CONSTANT Jobs

VARIABLES
  status, \* of each job's entry; "absent" when the registry has none
  task    \* "none", "running", or "aborted": running, but its signal is aborted

jobVars == <<status, task>>

Terminal == {"completed", "failed", "cancelled"}

JobInit ==
  /\ status = [j \in Jobs |-> "absent"]
  /\ task = [j \in Jobs |-> "none"]

(* A job gets an entry and its task runs; an id is not used while an earlier *)
(* task of that id goes on (ids are random).                                 *)
Enqueue(j) ==
  /\ status[j] = "absent" /\ task[j] = "none"
  /\ status' = [status EXCEPT ![j] = "running"]
  /\ task' = [task EXCEPT ![j] = "running"]

X_TaskReturns(j) ==  \* a result is a result
  /\ task[j] \in {"running", "aborted"}
  /\ task' = [task EXCEPT ![j] = "none"]
  /\ status' = [status EXCEPT ![j] = "completed"]

(* The task returns: that completes the job, unless it was aborted. *)
TaskReturns(j) ==
  /\ task[j] \in {"running", "aborted"}
  /\ task' = [task EXCEPT ![j] = "none"]
  /\ status' = IF task[j] = "aborted" THEN status
               ELSE [status EXCEPT ![j] = "completed"]

(* The task throws: a failure, or a late sign of the cancellation, which is *)
(* written to the entry even if that has been cleared from the registry.    *)
TaskThrows(j) ==
  /\ task[j] \in {"running", "aborted"}
  /\ task' = [task EXCEPT ![j] = "none"]
  /\ status' = IF task[j] = "aborted" THEN status
               ELSE [status EXCEPT ![j] = "failed"]

(* Cancelling one or more jobs; those that are not running stay as they are. *)
Cancel(js) ==
  LET running == {j \in js : status[j] = "running"} IN
  /\ status' = [j \in Jobs |-> IF j \in running THEN "cancelled" ELSE status[j]]
  /\ task' = [j \in Jobs |-> IF j \in running THEN "aborted" ELSE task[j]]

(* Completed and cancelled entries are removed, even if the task of a       *)
(* cancelled one is still running; failed ones are kept.                    *)
ClearCompleted ==
  /\ status' = [j \in Jobs |->
       IF status[j] \in {"completed", "cancelled"} THEN "absent" ELSE status[j]]
  /\ UNCHANGED task

JobTypeOK ==
  /\ status \in [Jobs -> {"absent", "running"} \cup Terminal]
  /\ task \in [Jobs -> {"none", "running", "aborted"}]
  /\ \A j \in Jobs : status[j] = "running" <=> task[j] = "running"

(* A job that has ended, or was cancelled, stays what it is until its entry *)
(* is cleared: late completions and failures of its task change nothing.    *)
TerminalIsFinal ==
  [][\A j \in Jobs : status[j] \in Terminal =>
       status'[j] \in {status[j], "absent"}]_jobVars
=============================================================================
