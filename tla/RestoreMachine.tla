--------------------------- MODULE RestoreMachine ---------------------------
(***************************************************************************)
(* What the server promises of restores (server/internal/models/restore.go, *)
(* CanRestoreTransition; the index idx_restores_pending_dedupe): one at a   *)
(* time waits for a destination, and each goes through its states in order. *)
(***************************************************************************)
CONSTANTS Restores, None

VARIABLES status, to

States == {"PENDING", "RUNNING", "COMPLETED", "FAILED"}

Init ==
  /\ status = [r \in Restores |-> "none"]
  /\ to = [r \in Restores |-> None]

Insert(r, d) ==
  /\ status[r] = "none"
  /\ \A o \in Restores : to[o] = d => status[o] # "PENDING"
  /\ status' = [status EXCEPT ![r] = "PENDING"]
  /\ to' = [to EXCEPT ![r] = d]

CanRestoreTransition(from, next) ==
  \/ from = "PENDING" /\ next \in {"RUNNING", "FAILED"}
  \/ from = "RUNNING" /\ next \in {"COMPLETED", "FAILED"}

Move(r) ==
  /\ \E next \in States : /\ CanRestoreTransition(status[r], next)
                           /\ status' = [status EXCEPT ![r] = next]
  /\ UNCHANGED to

Next == \E r \in Restores : Insert(r, to'[r]) \/ Move(r)

Spec == Init /\ [][Next]_<<status, to>>
=============================================================================
