---------------------------- MODULE RunLifecycle ----------------------------
(***************************************************************************)
(* The server's handlers and background jobs that write backup_runs rows:  *)
(* ClaimRun (handlers/agent_work.go), Cancel and UpdateStatus              *)
(* (handlers/backup_run.go), and the health monitor's checkAgents,         *)
(* checkStaleRuns and enforceRetention (services/health_monitor.go).       *)
(*                                                                         *)
(* No handler runs in a transaction.  A handler that reads the row and     *)
(* decides before it writes is two actions here, and anything may happen   *)
(* in between; the request it serves keeps what it read in req[q].  A      *)
(* handler that is one conditional UPDATE is one action.                   *)
(*                                                                         *)
(* Time: the code compares updated_at, completed_at and last_seen_at with  *)
(* now and a threshold, never with each other, so each is modelled by its  *)
(* age, which stops growing at the threshold.                              *)
(***************************************************************************)
EXTENDS RunStates, Integers

CONSTANTS
  Runs,          \* rows that may be inserted
  Agents,
  AgentOf,       \* AgentOf[r]: the run's agent_id
  Reqs,          \* handler goroutines that may be in flight at once
  Counters,      \* values of a report's byte counters
  StaleAfter,    \* staleRunAfter (15 min), in ticks
  GoneAfter,     \* agentGoneAfter (3 min), in ticks
  OfflineAfter,  \* orgThresholds.offlineAfter (default 3 min), in ticks
  RetainFor,     \* BackupJob.RetentionDays, in ticks
  MaxRestarts    \* bound: how often the server restarts

ASSUME AgentOfAssumption == AgentOf \in [Runs -> Agents]
ASSUME ThresholdAssumption ==
  {StaleAfter, GoneAfter, OfflineAfter, RetainFor} \subseteq Nat \ {0}
ASSUME MaxRestartsAssumption == MaxRestarts \in Nat
ASSUME CountersAssumption == 0 \in Counters

VARIABLES
  run,      \* the backup_runs table
  agent,    \* the agents table, and whether the agent process is up
  req,      \* requests being handled, with what their handler has read
  sweep,    \* rows checkStaleRuns has listed and not yet handled
  lost,     \* runs the sweep has raised its BACKUP_FAILED alert for
  restarts

vars == <<run, agent, req, sweep, lost, restarts>>

NoTime == -1                      \* a NULL timestamp

QuietCap == IF GoneAfter >= OfflineAfter THEN GoneAfter ELSE OfflineAfter

Row == [ status   : RowStatus,
         cancel   : BOOLEAN,               \* cancel_requested
         started  : BOOLEAN,               \* started_at is set
         idle     : 0..StaleAfter,         \* age of updated_at
         ended    : {NoTime} \cup (0..RetainFor),   \* age of completed_at
         counters : Counters ]             \* bytes_read and its siblings

AgentRow == [ quiet   : 0..QuietCap,       \* age of last_seen_at
              online  : BOOLEAN,           \* status column ONLINE / OFFLINE
              deleted : BOOLEAN,           \* soft-deleted by the dashboard
              up      : BOOLEAN ]          \* the process, not a column

Idle == [op |-> "idle"]

\* A handler between its read and its write.
Request ==
       [op : {"cancel"}, run : Runs, read : InFlightStatus]
  \cup [op : {"report"}, run : Runs, read : ClaimedStatus,
        to : BackupRunStatus, counters : Counters]
  \cup [op : {"progress"}, run : Runs, counters : Counters]

Snapshot == [run : Runs, read : ClaimedStatus, cancel : BOOLEAN]

TypeOK ==
  /\ run \in [Runs -> Row]
  /\ agent \in [Agents -> AgentRow]
  /\ req \in [Reqs -> Request \cup {Idle}]
  /\ sweep \subseteq Snapshot
  /\ lost \subseteq Runs
  /\ restarts \in 0..MaxRestarts

Init ==
  /\ run = [r \in Runs |-> [status |-> NoRow, cancel |-> FALSE,
              started |-> FALSE, idle |-> 0, ended |-> NoTime, counters |-> 0]]
  /\ agent = [a \in Agents |-> [quiet |-> 0, online |-> TRUE,
                                deleted |-> FALSE, up |-> TRUE]]
  /\ req = [q \in Reqs |-> Idle]
  /\ sweep = {}
  /\ lost = {}
  /\ restarts = 0

-----------------------------------------------------------------------------
Visible(r)  == run[r].status \in BackupRunStatus
Claimed(r)  == run[r].status \in ClaimedStatus
Terminal(r) == run[r].status \in TerminalStatus

\* Every request of an agent passes AgentAuth: a deleted agent is not found.
CanCall(a) == agent[a].up /\ ~agent[a].deleted

\* The scheduler or RunNow inserts a row (module Scheduling has the guard).
CreateRun(r) ==
  /\ run[r].status = NoRow
  /\ run' = [run EXCEPT ![r].status = "PENDING"]
  /\ UNCHANGED <<agent, req, sweep, lost, restarts>>

Touched(a) == [agent EXCEPT ![a].quiet = 0, ![a].online = TRUE]

\* Heartbeat, PendingRuns, PendingRestores: touch() and nothing else.
Heartbeat(a) ==
  /\ CanCall(a)
  /\ agent' = Touched(a)
  /\ UNCHANGED <<run, req, sweep, lost, restarts>>

\* Mutants: started_at is left NULL; a claim that forgets the status.
ClaimRunNotStarted(r) ==
  /\ CanCall(AgentOf[r])
  /\ run[r].status = "PENDING"
  /\ run' = [run EXCEPT ![r].status = "RUNNING", ![r].idle = 0]
  /\ UNCHANGED <<agent, req, sweep, lost, restarts>>

ClaimRunAnyStatus(r) ==
  /\ CanCall(AgentOf[r])
  /\ Visible(r)
  /\ run' = [run EXCEPT ![r].status = "RUNNING", ![r].started = TRUE]
  /\ UNCHANGED <<agent, req, sweep, lost, restarts>>

\* One conditional UPDATE; the row count tells the winner.
ClaimRun(r) ==
  /\ CanCall(AgentOf[r])
  /\ agent' = Touched(AgentOf[r])
  /\ run[r].status = "PENDING"
  /\ run' = [run EXCEPT ![r].status = "RUNNING", ![r].started = TRUE,
                        ![r].idle = 0]
  /\ UNCHANGED <<req, sweep, lost, restarts>>

-----------------------------------------------------------------------------
(* Cancel: reads the row, then updates it by primary key alone. *)

\* Mutant: a settled run may be cancelled too.
CancelReadAnyStatus(q, r) ==
  /\ req[q] = Idle
  /\ Visible(r)
  /\ req' = [req EXCEPT ![q] = [op |-> "cancel", run |-> r,
                                read |-> run[r].status]]
  /\ UNCHANGED <<run, agent, sweep, lost, restarts>>

CancelRead(q, r) ==
  /\ req[q] = Idle
  /\ Visible(r)
  /\ CanTransition(run[r].status, "CANCELLED")
  /\ req' = [req EXCEPT ![q] = [op |-> "cancel", run |-> r,
                                read |-> run[r].status]]
  /\ UNCHANGED <<run, agent, sweep, lost, restarts>>

CancelWrite(q) ==
  /\ req[q].op = "cancel"
  /\ LET r == req[q].run
     IN  run' = IF Visible(r)
                THEN [run EXCEPT ![r].cancel = TRUE, ![r].idle = 0,
                        ![r].status = IF req[q].read = "PENDING"
                                      THEN "CANCELLED" ELSE @]
                ELSE run
  /\ req' = [req EXCEPT ![q] = Idle]
  /\ UNCHANGED <<agent, sweep, lost, restarts>>

(* UpdateStatus: the agent's report of a run it has claimed. *)

ReportRead(q, r, to, n) ==
  /\ req[q] = Idle
  /\ CanCall(AgentOf[r])
  /\ Visible(r) /\ run[r].started
  /\ \/ /\ CanTransition(run[r].status, to)
        /\ req' = [req EXCEPT ![q] = [op |-> "report", run |-> r,
                     read |-> run[r].status, to |-> to, counters |-> n]]
     \/ /\ to = run[r].status /\ Claimed(r)
        /\ req' = [req EXCEPT ![q] = [op |-> "progress", run |-> r,
                                      counters |-> n]]
  /\ UNCHANGED <<run, agent, sweep, lost, restarts>>

\* Mutant: failures get no completed_at.
EndsIfCompleted(to) == to = "COMPLETED"

Ends(to) == to \in {"COMPLETED", "FAILED"}

\* Mutant: the write is by primary key alone.
ReportWriteByKey(q) ==
  /\ req[q].op = "report"
  /\ run' = [run EXCEPT ![req[q].run].status = req[q].to]
  /\ req' = [req EXCEPT ![q] = Idle]
  /\ UNCHANGED <<agent, sweep, lost, restarts>>

\* The write is conditional on the status that was read; 409 otherwise.
ReportWrite(q) ==
  /\ req[q].op = "report"
  /\ LET r == req[q].run
     IN  run' = IF run[r].status = req[q].read
                THEN [run EXCEPT ![r].status = req[q].to, ![r].idle = 0,
                        ![r].ended = IF Ends(req[q].to) THEN 0 ELSE @,
                        ![r].counters = req[q].counters]
                ELSE run
  /\ req' = [req EXCEPT ![q] = Idle]
  /\ UNCHANGED <<agent, sweep, lost, restarts>>

\* A same-status report of a claimed run: counters, by primary key alone.
ProgressWrite(q) ==
  /\ req[q].op = "progress"
  /\ LET r == req[q].run
     IN  run' = IF Visible(r)
                THEN [run EXCEPT ![r].idle = 0, ![r].counters = req[q].counters]
                ELSE run
  /\ req' = [req EXCEPT ![q] = Idle]
  /\ UNCHANGED <<agent, sweep, lost, restarts>>

-----------------------------------------------------------------------------
(* The health monitor: one goroutine, one check after the other. *)

MarkOffline(a) ==
  /\ ~agent[a].deleted
  /\ agent[a].quiet >= OfflineAfter
  /\ agent[a].online
  /\ agent' = [agent EXCEPT ![a].online = FALSE]
  /\ UNCHANGED <<run, req, sweep, lost, restarts>>

\* Mutant: an upload or a verification that hangs is not looked for.
StaleIfRunning(r) == run[r].status = "RUNNING" /\ run[r].idle >= StaleAfter

Stale(r) == Claimed(r) /\ run[r].idle >= StaleAfter

SweepList ==
  /\ sweep = {}
  /\ \E r \in Runs : Stale(r)
  /\ sweep' = {[run |-> r, read |-> run[r].status, cancel |-> run[r].cancel] :
                 r \in {x \in Runs : Stale(x)}}
  /\ UNCHANGED <<run, agent, req, lost, restarts>>

\* The agent row is gone, or its heartbeat is fresh: the run is left alone.
SweepSkip(s) ==
  \/ agent[AgentOf[s.run]].deleted
  \/ agent[AgentOf[s.run]].quiet < GoneAfter

\* Mutant: the write is by primary key alone.
SweepRunByKey(s) ==
  /\ s \in sweep
  /\ sweep' = sweep \ {s}
  /\ run' = IF SweepSkip(s) THEN run
            ELSE [run EXCEPT ![s.run].status = "FAILED", ![s.run].ended = 0]
  /\ UNCHANGED <<agent, req, lost, restarts>>

\* The write is conditional, but its row count is not looked at: the alert
\* is raised and the event published whether or not the row was changed.
SweepRun(s) ==
  /\ s \in sweep
  /\ sweep' = sweep \ {s}
  /\ IF SweepSkip(s)
     THEN UNCHANGED <<run, lost>>
     ELSE /\ lost' = lost \cup {s.run}
          /\ run' = IF run[s.run].status = s.read
                    THEN [run EXCEPT
                            ![s.run].status = IF s.cancel THEN "CANCELLED"
                                              ELSE "FAILED",
                            ![s.run].idle = 0, ![s.run].ended = 0]
                    ELSE run
  /\ UNCHANGED <<agent, req, restarts>>

\* A row with a NULL completed_at satisfies no comparison with the cutoff.
ExpireRun(r) ==
  /\ Terminal(r)
  /\ run[r].ended # NoTime /\ run[r].ended >= RetainFor
  /\ run' = [run EXCEPT ![r].status = Deleted]
  /\ UNCHANGED <<agent, req, sweep, lost, restarts>>

-----------------------------------------------------------------------------
(* The surroundings: agents stop and start, the dashboard deletes agents,  *)
(* the server restarts and forgets what was in flight, time passes.        *)

AgentStops(a) ==
  /\ agent[a].up
  /\ agent' = [agent EXCEPT ![a].up = FALSE]
  /\ UNCHANGED <<run, req, sweep, lost, restarts>>

AgentStarts(a) ==
  /\ ~agent[a].up
  /\ agent' = [agent EXCEPT ![a].up = TRUE]
  /\ UNCHANGED <<run, req, sweep, lost, restarts>>

DeleteAgent(a) ==
  /\ ~agent[a].deleted
  /\ agent' = [agent EXCEPT ![a].deleted = TRUE]
  /\ UNCHANGED <<run, req, sweep, lost, restarts>>

ServerRestart ==
  /\ restarts < MaxRestarts
  /\ restarts' = restarts + 1
  /\ req' = [q \in Reqs |-> Idle]
  /\ sweep' = {}
  /\ UNCHANGED <<run, agent, lost>>

Older(age, cap) == IF age < cap THEN age + 1 ELSE age

Tick ==
  /\ run' = [r \in Runs |-> [run[r] EXCEPT
               !.idle = IF Claimed(r) THEN Older(@, StaleAfter) ELSE @,
               !.ended = IF @ = NoTime THEN @ ELSE Older(@, RetainFor)]]
  /\ agent' = [a \in Agents |-> [agent[a] EXCEPT !.quiet = Older(@, QuietCap)]]
  /\ UNCHANGED <<req, sweep, lost, restarts>>

RunStep(r) ==
  \/ CreateRun(r)
  \/ ClaimRun(r)
  \/ ExpireRun(r)

RequestStep(q) ==
  \/ \E r \in Runs : CancelRead(q, r)
  \/ \E r \in Runs, to \in BackupRunStatus, n \in Counters :
       ReportRead(q, r, to, n)
  \/ CancelWrite(q)
  \/ ReportWrite(q)
  \/ ProgressWrite(q)

AgentStep(a) ==
  \/ Heartbeat(a)
  \/ AgentStops(a)
  \/ AgentStarts(a)
  \/ DeleteAgent(a)
  \/ MarkOffline(a)

Next ==
  \/ \E r \in Runs : RunStep(r)
  \/ \E q \in Reqs : RequestStep(q)
  \/ \E a \in Agents : AgentStep(a)
  \/ SweepList
  \/ \E s \in sweep : SweepRun(s)
  \/ ServerRestart
  \/ Tick

Spec == Init /\ [][Next]_vars

\* A request that is being handled gets its answer, the monitor's loop keeps
\* running (its ticker fires every five minutes) and time passes.  Nothing
\* is assumed of agents and users.
Fairness ==
  /\ \A q \in Reqs : WF_vars(CancelWrite(q) \/ ReportWrite(q) \/ ProgressWrite(q))
  /\ WF_vars(SweepList)
  /\ WF_vars(\E s \in sweep : SweepRun(s))
  /\ WF_vars(\E r \in Runs : ExpireRun(r))
  /\ WF_vars(Tick)

FairSpec == Spec /\ Fairness

-----------------------------------------------------------------------------
(* What the rows keep, whatever is interleaved with what. *)

\* completed_at and the status agree although four writers set them
\* separately: a COMPLETED or FAILED run has an end time for retention, retry
\* and the missed-backup window to look at, and no run in flight has one.
EndTimesMatch ==
  \A r \in Runs :
    /\ run[r].status \in {"COMPLETED", "FAILED"} => run[r].ended # NoTime
    /\ run[r].ended # NoTime => run[r].status \in TerminalStatus \cup {Deleted}

\* A run that was never claimed has nothing behind it: only the insert and the
\* cancel of an unclaimed run leave started_at NULL, so a run that is past
\* PENDING without it is CANCELLED, has no end time and waits for nobody.
NeverClaimed ==
  \A r \in Runs : Visible(r) /\ ~run[r].started =>
                    run[r].status \in {"PENDING", "CANCELLED"}

\* Late reports, a sweep working from an old list and a cancel decided on an
\* old read may all hit a settled run; the only thing any of them can do to
\* its status is to turn it CANCELLED, and CANCELLED is never left.
SettledOnlyCancelled ==
  [][\A r \in Runs : Terminal(r) =>
        run'[r].status \in {run[r].status, "CANCELLED", Deleted}]_run

\* A run starts once: RUNNING is entered from PENDING only and never by a run
\* that already has a started_at, so no two claims hand out the same run.
StartedOnce ==
  [][\A r \in Runs :
        run[r].status # "RUNNING" /\ run'[r].status = "RUNNING" =>
          run[r].status = "PENDING" /\ ~run[r].started]_run

\* checkStaleRuns exists so that no run of a vanished agent stays in flight.
\* Once its agent is down for good (and still in the agents table) and nobody
\* keeps cancelling the run, it settles.
Abandoned(r) ==
  /\ ~agent[AgentOf[r]].up
  /\ ~agent[AgentOf[r]].deleted
  /\ \A q \in Reqs : req[q].op # "idle" => req[q].run # r

DeadAgentRunsSettle ==
  \A r \in Runs : <>[]Abandoned(r) => <>[](~Claimed(r))

\* The statuses follow the abstract machine.
Machine == INSTANCE RunMachine WITH status <- [r \in Runs |-> run[r].status]
ImplementsRunMachine == Machine!Spec

-----------------------------------------------------------------------------
(* What comments in the code say of it, and the code does not do: the README *)
(* tells the counterexample of each.                                        *)

\* models/backup_run.go:38, "terminal states never transition out".
TerminalNeverLeft ==
  [][\A r \in Runs : Terminal(r) => run'[r].status \in {run[r].status, Deleted}]_run

\* handlers/backup_run.go:199, "a terminal run must never accept counter
\* writes".
SealedCounters ==
  [][\A r \in Runs : Terminal(r) /\ run'[r].status = run[r].status =>
        run'[r].counters = run[r].counters]_run

\* services/health_monitor.go:283, "Failed/cancelled runs are never recovery
\* points: expire them on the same schedule".
CancelledRunsExpire ==
  \A r \in Runs : run[r].status = "CANCELLED" ~> run[r].status = Deleted

\* services/health_monitor.go:143, "Runs fail ... and honor a pending user
\* cancel by flipping to CANCELLED instead".
SweepHonorsCancel ==
  [][\A r \in lost' \ lost :
        run[r].cancel /\ Claimed(r) => run'[r].status # "FAILED"]_vars

\* services/health_monitor.go:179, "terminal states guarantee one stale
\* transition per run": the agent-lost alert stands for a run that failed or
\* was cancelled, not for one that completed.
LostRunDidNotComplete == \A r \in lost : run[r].status # "COMPLETED"

\* services/health_monitor.go:131, "a claimed run is dead only when BOTH hold":
\* the run the sweep ends has made no progress and its agent is silent.
DeadOnlyWhenBothHold ==
  [][\A r \in lost' \ lost :
        run'[r].status # run[r].status =>
          run[r].idle >= StaleAfter /\ agent[AgentOf[r]].quiet >= GoneAfter]_vars

\* agent/internal/agent/runner.go:446, "Progress doubles as heartbeat (keeps
\* the agent ONLINE)": an agent that has just reported is not OFFLINE.
ReportingAgentOnline ==
  \A r \in Runs :
    Claimed(r) /\ ~run[r].cancel /\ run[r].idle = 0 => agent[AgentOf[r]].online

\* services/health_monitor.go:140, "fails claimed runs whose agent vanished
\* mid-execution", also when the vanished agent's row was deleted.
VanishedAgentRunsSettle ==
  \A r \in Runs :
    <>[](~agent[AgentOf[r]].up /\ \A q \in Reqs : req[q] = Idle)
      => <>[](~Claimed(r))
=============================================================================
