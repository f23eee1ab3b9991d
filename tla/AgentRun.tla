------------------------------ MODULE AgentRun ------------------------------
(***************************************************************************)
(* The agent's execution of backup runs, end to end: the runner's poll,    *)
(* claim, dump, upload, HEAD check and status reports                      *)
(* (agent/internal/agent/runner.go), the socket that carries cancels       *)
(* (agent/internal/agent/realtime.go), the objects in storage, and the     *)
(* server's rows as the agent's requests change them.                      *)
(*                                                                         *)
(* The server's UpdateStatus is one action here; what its reads and writes *)
(* do to each other is module RunLifecycle.  Cancel keeps its two steps    *)
(* for the unclaimed run, where they matter to the agent.                  *)
(***************************************************************************)
EXTENDS RunStates

CONSTANTS
  Runs,
  NoRun,    \* the runner has no run at hand
  Faults    \* what may go wrong, of the kinds below

\* loss:    a request or its answer is lost (timeouts included)
\* crash:   the agent process dies and is started again
\* storage: a storage call fails
\* work:    the dump fails, or the job cannot be started
FaultKinds == {"loss", "crash", "storage", "work"}

ASSUME NoRunAssumption == NoRun \notin Runs
ASSUME FaultsAssumption == Faults \subseteq FaultKinds

VARIABLES
  row,        \* backup_runs
  fresh,      \* last_seen_at is younger than agentGoneAfter
  cancelling, \* Cancel requests that have read PENDING and not yet written
  wire,       \* cancel events sent to the agent's socket
  cancelled,  \* WSClient.cancelled
  pc, cur,    \* where the runner is, and with which run
  cancelSeen, \* executeBackup's local of that name
  late,       \* reports the runner has given up on, still on their way
  stored,     \* runs whose object is in storage
  verified    \* runs whose object has passed the HEAD check (history)

server == <<row, fresh, cancelling, late>>
runner == <<pc, cur, cancelSeen>>
socket == <<wire, cancelled>>
storage == <<stored, verified>>
vars == <<server, runner, socket, storage>>

Row == [status : RowStatus, cancel : BOOLEAN,
        recent : BOOLEAN]   \* updated_at is younger than staleRunAfter

\* The statuses executeBackup walks through once the object is stored.
Stage == {"UPLOADING", "VERIFYING", "COMPLETED"}

RunnerPc == {"idle", "claimed", "working", "upload", "head", "drop",
             "reportCancelled", "reportFailed"} \cup Stage

\* Beyond the types: the server writes the flag before it tells the agent
\* (handlers/backup_run.go:116-130), so whatever the socket brings can be read
\* in the row as well, and a cancel whose event is lost is not lost.
TypeOK ==
  /\ row \in [Runs -> Row]
  /\ fresh \in BOOLEAN
  /\ cancelling \subseteq Runs
  /\ wire \subseteq Runs
  /\ cancelled \subseteq Runs
  /\ pc \in RunnerPc
  /\ cur \in Runs \cup {NoRun}
  /\ pc = "idle" <=> cur = NoRun
  /\ cancelSeen \in BOOLEAN
  /\ \A r \in wire \cup cancelled : row[r].cancel
  /\ late \subseteq [run : Runs, to : BackupRunStatus]
  /\ stored \subseteq Runs
  /\ verified \subseteq Runs

Init ==
  /\ row = [r \in Runs |-> [status |-> NoRow, cancel |-> FALSE, recent |-> FALSE]]
  /\ fresh = TRUE
  /\ cancelling = {} /\ wire = {} /\ cancelled = {} /\ late = {}
  /\ pc = "idle" /\ cur = NoRun /\ cancelSeen = FALSE
  /\ stored = {} /\ verified = {}

-----------------------------------------------------------------------------
(* The server, without the agent. *)

SetStatus(r, to) == row' = [row EXCEPT ![r].status = to, ![r].recent = TRUE]

CreateRun(r) ==
  /\ row[r].status = NoRow
  /\ SetStatus(r, "PENDING")
  /\ UNCHANGED <<fresh, cancelling, late, runner, socket, storage>>

\* The event to the agent's socket is dropped when there is no connection or
\* its buffer is full.
SendCancel(r) == wire' \in {wire, wire \cup {r}} /\ UNCHANGED cancelled

CancelRead(r) ==
  /\ row[r].status = "PENDING"
  /\ cancelling' = cancelling \cup {r}
  /\ UNCHANGED <<row, fresh, late, runner, socket, storage>>

\* The handler goes by the status it has read: it tells the socket of claimed
\* runs only, though this one may have been claimed meanwhile.
CancelWrite(r) ==
  /\ r \in cancelling
  /\ cancelling' = cancelling \ {r}
  /\ row' = [row EXCEPT ![r] = [status |-> "CANCELLED", cancel |-> TRUE,
                                recent |-> TRUE]]
  /\ UNCHANGED <<fresh, late, runner, socket, storage>>

\* Mutant: the agent is told, and the flag not set.
CancelClaimedUnset(r) ==
  /\ row[r].status \in ClaimedStatus
  /\ row' = [row EXCEPT ![r].recent = TRUE]
  /\ SendCancel(r)
  /\ UNCHANGED <<fresh, cancelling, late, runner, storage>>

CancelClaimed(r) ==
  /\ row[r].status \in ClaimedStatus
  /\ row' = [row EXCEPT ![r].cancel = TRUE, ![r].recent = TRUE]
  /\ SendCancel(r)
  /\ UNCHANGED <<fresh, cancelling, late, runner, storage>>

\* Mutant: runs that were never claimed are failed as well.
SweepRunInFlight(r) ==
  /\ row[r].status \in InFlightStatus /\ ~row[r].recent /\ ~fresh
  /\ SetStatus(r, IF row[r].cancel THEN "CANCELLED" ELSE "FAILED")
  /\ UNCHANGED <<fresh, cancelling, late, runner, socket, storage>>

SweepRun(r) ==
  /\ row[r].status \in ClaimedStatus /\ ~row[r].recent /\ ~fresh
  /\ SetStatus(r, IF row[r].cancel THEN "CANCELLED" ELSE "FAILED")
  /\ UNCHANGED <<fresh, cancelling, late, runner, socket, storage>>

\* Three minutes pass, or fifteen.
TimePasses ==
  /\ fresh' = FALSE
  /\ \/ UNCHANGED row
     \/ row' = [r \in Runs |-> [row[r] EXCEPT !.recent = FALSE]]
  /\ UNCHANGED <<cancelling, late, runner, socket, storage>>

-----------------------------------------------------------------------------
(* The socket. *)

Deliver(r) ==
  /\ r \in wire
  /\ wire' = wire \ {r}
  /\ cancelled' = cancelled \cup {r}
  /\ UNCHANGED <<server, runner, storage>>

\* cancelledByUser, with the flag of the report it follows.
CancelledByUser(flag) == flag \/ cur \in cancelled

Goto(at) == pc' = at /\ UNCHANGED <<cur, cancelSeen>>

Return == pc' = "idle" /\ cur' = NoRun /\ cancelSeen' = FALSE

-----------------------------------------------------------------------------
(* pollOnce. *)

Heartbeat ==
  /\ pc = "idle"
  /\ fresh' = TRUE
  /\ UNCHANGED <<row, cancelling, late, runner, socket, storage>>

ClaimRun(r) ==
  /\ pc = "idle"
  /\ row[r].status = "PENDING"
  /\ SetStatus(r, "RUNNING")
  /\ fresh' = TRUE
  /\ pc' = "claimed" /\ cur' = r /\ UNCHANGED cancelSeen
  /\ UNCHANGED <<cancelling, late, socket, storage>>

\* The handler reads the row again for its answer; a cancel that landed on
\* the way, or that came by the socket, stops the run before it starts.
ClaimAnswered ==
  /\ pc = "claimed"
  /\ Goto(IF CancelledByUser(row[cur].cancel) THEN "reportCancelled"
          ELSE "working")
  /\ UNCHANGED <<server, socket, storage>>

\* An error other than 409 is logged and the run is not looked at again: the
\* next poll lists PENDING runs only.
ClaimAnswerLost ==
  /\ "loss" \in Faults
  /\ pc = "claimed"
  /\ Return
  /\ UNCHANGED <<server, socket, storage>>

-----------------------------------------------------------------------------
(* executeBackup. *)

WorkFails ==
  /\ "work" \in Faults
  /\ pc = "working"
  /\ Goto("reportFailed")
  /\ UNCHANGED <<server, socket, storage>>

\* A RUNNING report of a RUNNING run updates counters, and its answer has no
\* cancel_requested; of any other run it is refused, and the error ignored.
Progress ==
  /\ pc = "working"
  /\ row' = IF row[cur].status = "RUNNING"
            THEN [row EXCEPT ![cur].recent = TRUE] ELSE row
  /\ cancelSeen' = (cancelSeen \/ CancelledByUser(FALSE))
  /\ UNCHANGED <<fresh, cancelling, late, pc, cur, socket, storage>>

PayloadReady ==
  /\ pc = "working"
  /\ Goto(IF CancelledByUser(cancelSeen) THEN "reportCancelled" ELSE "upload")
  /\ UNCHANGED <<server, socket, storage>>

\* Mutant: the stored object is taken for granted.
UploadUnverified ==
  /\ pc = "upload"
  /\ stored' = stored \cup {cur} /\ Goto("UPLOADING")
  /\ UNCHANGED <<server, socket, verified>>

Upload ==
  /\ pc = "upload"
  /\ \/ stored' = stored \cup {cur} /\ Goto("head")
     \/ "storage" \in Faults /\ UNCHANGED stored /\ Goto("reportFailed")
  /\ UNCHANGED <<server, socket, verified>>

\* store.Delete, its error ignored.
DeleteObject ==
  \/ stored' = stored \ {cur}
  \/ "storage" \in Faults /\ UNCHANGED stored

HeadMatches ==
  /\ pc = "head" /\ cur \in stored
  /\ verified' = verified \cup {cur}
  /\ Goto("UPLOADING")
  /\ UNCHANGED <<server, socket, stored>>

\* Mutant: the failure is not reported.
HeadFailsSilently ==
  /\ "storage" \in Faults
  /\ pc = "head"
  /\ Return
  /\ UNCHANGED <<server, socket, storage>>

HeadFails ==
  /\ pc = "head"
  /\ cur \notin stored \/ "storage" \in Faults
  /\ UNCHANGED stored \/ DeleteObject    \* no answer, or a mismatch
  /\ Goto("reportFailed")
  /\ UNCHANGED <<server, socket, verified>>

\* Mutant: VERIFYING is skipped.
NextStageSkips == [UPLOADING |-> "COMPLETED", VERIFYING |-> "COMPLETED"]

NextStage == [UPLOADING |-> "VERIFYING", VERIFYING |-> "COMPLETED"]

\* The answer carries the flag as it is after the write.  Any error, a
\* refusal included, ends the walk with nothing undone.
ReportStage ==
  /\ pc \in Stage
  /\ CanTransition(row[cur].status, pc)
  /\ SetStatus(cur, pc)
  /\ IF CancelledByUser(row[cur].cancel)
     THEN Goto("drop") /\ UNCHANGED cancelled
     ELSE IF pc = "COMPLETED"
          THEN Return /\ cancelled' = cancelled \ {cur}
          ELSE Goto(NextStage[pc]) /\ UNCHANGED cancelled
  /\ UNCHANGED <<fresh, cancelling, late, wire, storage>>

ReportRefused ==
  /\ pc \in Stage
  /\ ~CanTransition(row[cur].status, pc)
  /\ Return
  /\ UNCHANGED <<server, socket, storage>>

Drop ==
  /\ pc = "drop"
  /\ DeleteObject
  /\ Goto("reportCancelled")
  /\ UNCHANGED <<server, socket, verified>>

\* failRun and cancelRun: one report, whose error is only logged.
LastReport(at, to) ==
  /\ pc = at
  /\ row' = IF CanTransition(row[cur].status, to)
            THEN [row EXCEPT ![cur].status = to, ![cur].recent = TRUE] ELSE row
  /\ Return
  /\ UNCHANGED <<fresh, cancelling, late, wire, storage>>

ReportFailed == LastReport("reportFailed", "FAILED") /\ UNCHANGED cancelled
ReportCancelled ==
  LastReport("reportCancelled", "CANCELLED") /\ cancelled' = cancelled \ {cur}

\* A report gets no answer in time: the runner returns, and the report is
\* lost or handled later.
ReportLost ==
  /\ "loss" \in Faults
  /\ pc \in Stage \cup {"reportFailed", "reportCancelled"}
  /\ LET to == CASE pc = "reportFailed"    -> "FAILED"
                 [] pc = "reportCancelled" -> "CANCELLED"
                 [] OTHER                  -> pc
     IN  late' \in {late, late \cup {[run |-> cur, to |-> to]}}
  /\ cancelled' = IF pc = "reportCancelled" THEN cancelled \ {cur} ELSE cancelled
  /\ Return
  /\ UNCHANGED <<row, fresh, cancelling, wire, storage>>

LateReport(m) ==
  /\ m \in late
  /\ late' = late \ {m}
  /\ \/ CanTransition(row[m.run].status, m.to) /\ SetStatus(m.run, m.to)
     \/ ~CanTransition(row[m.run].status, m.to) /\ UNCHANGED row
  /\ UNCHANGED <<fresh, cancelling, runner, socket, storage>>

\* The process dies and is started again: no trace of the run at hand.
AgentRestart ==
  /\ "crash" \in Faults
  /\ Return
  /\ cancelled' = {}
  /\ UNCHANGED <<server, wire, storage>>

-----------------------------------------------------------------------------
ServerStep(r) ==
  \/ CreateRun(r)
  \/ CancelRead(r)
  \/ CancelWrite(r)
  \/ CancelClaimed(r)
  \/ SweepRun(r)

Execute ==
  \/ ClaimAnswered
  \/ ClaimAnswerLost
  \/ WorkFails
  \/ PayloadReady
  \/ Upload
  \/ HeadMatches
  \/ HeadFails
  \/ ReportStage
  \/ ReportRefused
  \/ ReportLost
  \/ Drop
  \/ ReportFailed
  \/ ReportCancelled

Next ==
  \/ \E r \in Runs : ServerStep(r) \/ Deliver(r) \/ ClaimRun(r)
  \/ \E m \in late : LateReport(m)
  \/ Execute
  \/ Progress
  \/ Heartbeat
  \/ TimePasses
  \/ AgentRestart

Spec == Init /\ [][Next]_vars

\* The runner keeps polling and finishes what it has begun: AGENT_JOB_TIMEOUT
\* bounds the dump and the upload, the HTTP client's 60 s every request.  The
\* sweep runs whenever it has something to do for long enough.
FairSpec ==
  /\ Spec
  /\ WF_vars(Execute)
  /\ WF_vars(Heartbeat)
  /\ \A r \in Runs : WF_vars(ClaimRun(r)) /\ WF_vars(SweepRun(r))

-----------------------------------------------------------------------------
(* What holds of runs and objects, whatever fails when. *)

\* A run becomes COMPLETED only while its object is in storage and has passed
\* the HEAD check, whichever requests are lost, cancelled or swept meanwhile.
CompletedWhenStored ==
  [][\A r \in Runs :
        row[r].status # "COMPLETED" /\ row'[r].status = "COMPLETED" =>
          r \in stored /\ r \in verified]_vars

\* The runner and the row walk in step: before each report the row is where
\* the runner thinks it is, or somebody else has ended the run.  A refused
\* report therefore always means that, and never that a report was skipped
\* or sent twice.
Expected == [claimed |-> "RUNNING", working |-> "RUNNING", upload |-> "RUNNING",
             head |-> "RUNNING", UPLOADING |-> "RUNNING",
             VERIFYING |-> "UPLOADING", COMPLETED |-> "VERIFYING",
             reportFailed |-> "RUNNING"]

StageInStep ==
  pc \in DOMAIN Expected =>
    row[cur].status \in {Expected[pc], "FAILED", "CANCELLED"}

\* A run that is claimed is settled: its agent sees to it, or the sweep does.
ClaimedRunSettles ==
  \A r \in Runs : row[r].status \in ClaimedStatus ~> row[r].status \in TerminalStatus

\* The statuses follow the abstract machine.
Machine == INSTANCE RunMachine WITH status <- [r \in Runs |-> row[r].status]
ImplementsRunMachine == Machine!Spec

-----------------------------------------------------------------------------
(* What comments in the code say of it, and the code does not do: the README *)
(* tells the counterexample of each.                                        *)

\* handlers/backup_run.go:281: COMPLETED is reported after the agent's own
\* verification of the stored object, so that "retention, restore
\* eligibility, and the UI can rely on persisted state": a COMPLETED run has
\* its object.
CompletedHasObject ==
  \A r \in Runs : row[r].status = "COMPLETED" => r \in stored

\* agent/internal/agent/runner.go:676, "so a cancelled run leaves no orphan
\* behind": a cancelled run the runner is done with has no object.
CancelledHasNoObject ==
  \A r \in Runs : row[r].status = "CANCELLED" /\ cur # r => r \notin stored

\* agent/internal/agent/runner.go:447, "the server answers every report with
\* the current cancel_requested flag": a progress report of a run that is to
\* be cancelled tells the runner so.
ProgressTellsCancel ==
  [][Progress /\ row[cur].status = "RUNNING" /\ row[cur].cancel => cancelSeen']_vars
=============================================================================
