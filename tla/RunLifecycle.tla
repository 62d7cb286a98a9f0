---------------------------- MODULE RunLifecycle ----------------------------
(***************************************************************************)
(* What one workflow run promises to whoever reads its row, whatever graph *)
(* it executes: the status column of workflow_runs (workflow_run.py:20-21) *)
(* seen together with the fact that a segment of the run is in progress.   *)
(* A segment is one call of Executor.run or Executor.resume.               *)
(*                                                                         *)
(* The promise: a status other than "running" is never overwritten behind  *)
(* the reader's back.  It changes only when a new segment begins, or when  *)
(* the segment that wrote it withdraws it because its question or its      *)
(* answer could not be delivered (the except clause, executor.py:158-164). *)
(***************************************************************************)

CONSTANTS
  Runs,
  Lossy    \* TRUE: the process may stop, or the database refuse a write

VARIABLES
  status,   \* status[r]: workflow_runs.status, "absent" when there is no row
  open      \* open[r]: a segment of r has written "running" and not returned

lifecycle == <<status, open>>

Settled == {"waiting_human", "completed", "failed"}

Init ==
  /\ status = [r \in Runs |-> "absent"]
  /\ open = [r \in Runs |-> FALSE]

Accept(r) ==
  /\ status[r] = "absent"
  /\ ~open[r]
  /\ status' = [status EXCEPT ![r] = "pending"]
  /\ UNCHANGED open

\* A segment begins: whatever the row said before, it now says "running".  The
\* row may be gone, and then there is nothing to write.
Begin(r) ==
  /\ ~open[r]
  /\ open' = [open EXCEPT ![r] = TRUE]
  /\ status' = [status EXCEPT ![r] = IF @ = "absent" THEN @ ELSE "running"]

Settle(r) ==
  /\ open[r]
  /\ status[r] = "running"
  /\ \E s \in Settled : status' = [status EXCEPT ![r] = s]
  /\ UNCHANGED open

Withdraw(r) ==
  /\ open[r]
  /\ status[r] \in {"waiting_human", "completed"}
  /\ status' = [status EXCEPT ![r] = "failed"]
  /\ UNCHANGED open

\* The segment returns.  A row may be left at "running" only by a segment that
\* was lost with its process, or could not write its outcome.
Close(r) ==
  /\ open[r]
  /\ status[r] = "running" => Lossy
  /\ open' = [open EXCEPT ![r] = FALSE]
  /\ UNCHANGED status

\* The process stops, and every segment with it.
Stop ==
  /\ Lossy
  /\ open' = [r \in Runs |-> FALSE]
  /\ UNCHANGED status

\* A workflow is deleted and takes its runs along.
Remove(r) ==
  /\ status[r] # "absent"
  /\ status' = [status EXCEPT ![r] = "absent"]
  /\ UNCHANGED open

Next ==
  \/ \E r \in Runs :
       Accept(r) \/ Begin(r) \/ Settle(r) \/ Withdraw(r) \/ Close(r) \/ Remove(r)
  \/ Stop

Safety == Init /\ [][Next]_lifecycle

\* A segment that began returns.  This is what the recursion limit is for: the
\* graph itself may contain cycles.
Returns == \A r \in Runs : open[r] ~> ~open[r]

Spec == Safety /\ Returns
=============================================================================
