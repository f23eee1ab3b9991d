----------------------------- MODULE RunStates -----------------------------
(***************************************************************************)
(* The status vocabulary of a backup run and the transition relation that  *)
(* every status write of the server is supposed to follow                  *)
(* (server/internal/models/backup_run.go).                                 *)
(***************************************************************************)

\* A claimed run its agent is working on: what the stale-run sweep looks at.
ClaimedStatus == {"RUNNING", "UPLOADING", "VERIFYING"}

\* A run that counts as in flight for the scheduler's and RunNow's guard.
InFlightStatus == {"PENDING"} \cup ClaimedStatus

\* The states CanTransition gives no way out of.
TerminalStatus == {"COMPLETED", "FAILED", "CANCELLED"}

BackupRunStatus == InFlightStatus \cup TerminalStatus

CanTransition(from, to) ==
  \/ from = "PENDING"   /\ to \in {"RUNNING", "CANCELLED"}
  \/ from = "RUNNING"   /\ to \in {"UPLOADING", "FAILED", "CANCELLED"}
  \/ from = "UPLOADING" /\ to \in {"VERIFYING", "FAILED", "CANCELLED"}
  \/ from = "VERIFYING" /\ to \in {"COMPLETED", "FAILED", "CANCELLED"}

\* What a row's status column shows to a query: no row has been inserted yet,
\* or gorm's soft delete (models/base.go) hides it from every statement.
NoRow   == "NO_ROW"
Deleted == "DELETED"

RowStatus == BackupRunStatus \cup {NoRow, Deleted}
=============================================================================
