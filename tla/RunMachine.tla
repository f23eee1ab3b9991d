----------------------------- MODULE RunMachine -----------------------------
(***************************************************************************)
(* What the server promises about the status of its backup runs, seen from *)
(* outside: the abstract specification that the modules of the handlers    *)
(* (RunLifecycle) and of the agent's execution (AgentRun) implement.       *)
(*                                                                         *)
(* A run is inserted PENDING, moves along CanTransition, and is hidden by  *)
(* the retention job once it is terminal.  The one step that is not in     *)
(* CanTransition is LateCancel: Cancel writes the status it decided on     *)
(* without looking at the row again, so a settled run may still turn       *)
(* CANCELLED.  Nothing else leaves a terminal state.                       *)
(***************************************************************************)
EXTENDS RunStates

CONSTANT Runs      \* identities of backup_runs rows

VARIABLE status    \* status[r]: the status column, or NoRow / Deleted

Init == status = [r \in Runs |-> NoRow]

MoveTo(r, to) == status' = [status EXCEPT ![r] = to]

Create(r) == status[r] = NoRow /\ MoveTo(r, "PENDING")

Transition(r) ==
  \E to \in BackupRunStatus : CanTransition(status[r], to) /\ MoveTo(r, to)

LateCancel(r) == status[r] \in {"COMPLETED", "FAILED"} /\ MoveTo(r, "CANCELLED")

Expire(r) == status[r] \in TerminalStatus /\ MoveTo(r, Deleted)

Next == \E r \in Runs : Create(r) \/ Transition(r) \/ LateCancel(r) \/ Expire(r)

Spec == Init /\ [][Next]_status
=============================================================================
