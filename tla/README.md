# VaultGuard in TLA+

A specification of the backup service in this repository: a Go server (REST
API, scheduler, health monitor, websocket hub and gRPC server over one
Postgres database) and a Go agent that polls it for work, dumps, uploads and
verifies backups and reports on them. The modules follow the code of
`src/server` and `src/agent`; `PROJECT.json` maps each definition to its lines.

## 1. The system

Every piece of shared state is a row in Postgres. Handlers and background jobs
are goroutines that read a row, decide, and write it again *without a
transaction* (enrolment and token refresh are the exceptions); what protects
them is conditional `UPDATE ... WHERE status = ?` statements and unique
indexes, where they are used. The agent is a single loop with a websocket
beside it. Nothing else is shared.

| component | state | operations | hard part | correct means |
|---|---|---|---|---|
| run lifecycle (`handlers/backup_run.go`, `models/backup_run.go`) | `backup_runs`: status, cancel_requested, started_at, completed_at, counters | Cancel, UpdateStatus (stage, end, progress), Verify | read and write apart; unconditional writes | statuses follow the machine, times match it, settled runs stay settled |
| agent work (`handlers/agent_work.go`) | the same rows, `agents` | PendingRuns, ClaimRun, the same for restores | double claim, claim against cancel | a run starts once |
| health monitor (`services/health_monitor.go`) | the same, `alerts` | checkAgents, checkStaleRuns, checkMissedBackups, enforceRetention | works from lists that grow old | runs of dead agents settle; no live one is ended |
| scheduler (`services/scheduler.go`) | lastTick in memory | tick, maybeFire (retry), fire (cron) | several instances, restarts, edits during a tick, failing statements | one run per boundary, one in flight, bounded retry chains, no retry forgotten |
| jobs and policies (`handlers/backup_job.go`, `handlers/policy.go`, `models/policy.go`) | `backup_jobs`, `schedules`, `backup_policies` | CRUD, enable, RunNow, EffectivePolicy | two statements per edit, guard and insert apart | the same |
| runner (`src/agent/internal/agent/runner.go`, `api.go`, `realtime.go`) | the run at hand, the set of cancelled runs | pollOnce, executeBackup, failRun, cancelRun, executeRestore | lost and late requests, crashes, cancels at any point | COMPLETED means stored and verified; cancelled runs leave nothing |
| hub (`realtime/hub.go`) | connected peers, their send buffers | subscribe, Publish, SendToAgent | full buffers, reconnects | dashboards converge, no cancel is thought delivered |
| alerts (`services/alerts.go`, `handlers/alert.go`) | `alerts` with dedup keys | raise, coalesce, resolve, acknowledge | concurrent raise and resolve, flap guard | one firing alert per key and condition |
| restores (`handlers/restore.go`) | `restore_jobs` | create, claim, report | duplicate guard, lost claims and reports, no sweep | one live restore per destination; COMPLETED means restored |
| engines and stores (`src/agent/internal/agent`, `src/agent/internal/storage`) | temporary files, objects, destinations | dump, compress, encrypt, Put, HEAD, Get, decrypt, import | steps that fail half-way; file names that decide | what a COMPLETED backup holds comes back whole |
| enrolment and agents (`handlers/enrollment.go`, `handlers/agent.go`) | tokens, `agents` | generate, enroll, register, heartbeat, rotate, revoke, delete | one token, two machines; revocation in between | a used token has left a credential; a stored credential is the valid one |
| agent credentials and set-up (`credentials.go`, `src/agent/setup`, `credstore`, `agentservice`) | credential store, state file, configuration, binary, service | resolve, install, upgrade, roll back, reboot | any step fails over an installation that worked | a failed set-up keeps the installation but for the file it was writing; an installed agent comes back |
| gRPC server (`grpcserver/server.go`) | stream table | connect, commands, events, disconnect | late events, reconnect against cleanup | an entry of the table is served; no stream, no ONLINE |
| sessions (`handlers/auth.go`) | refresh token families | login, refresh, logout | concurrent refresh | one live token per family |

`PROJECT.json` lists the rest (storage targets, connections, dashboard,
configuration, web client) with the reason each is left out.

## 2. Modules

```
RunStates            statuses of a run, CanTransition
  RunMachine         abstract specification: one status per run
    RunLifecycle     the server's handlers and monitor over the rows   (implements RunMachine)
      RunLifecycle_proofs
    AgentRun         runner, socket, storage and rows end to end       (implements RunMachine)
      AgentRun_proofs
  Scheduling         scheduler, Run Now, edits of jobs and policies
    Scheduling_proofs
  AlertMachine         abstract specification: what the alert table promises
    Alerts             raise, coalesce, resolve, prune, acknowledge     (implements AlertMachine)
      Alerts_proofs
  Streams              gRPC streams, their table, commands and events
    Streams_proofs
  Hub                  agent sockets, cancels, dashboards
    Hub_proofs
  Payloads             what the engines write and what they restore (functions)
    Restores           one backup into the store, and restores of it     (implements RestoreMachine)
      Restores_proofs
  Enrolment            the server's side of an agent's identity
    Setup              the machine's side, composed with it
      Setup_proofs
MCRunLifecycle, MCScheduling, MCAgentRun, MCAlerts, MCRestores, MCSetup   instances for TLC
```

**RunMachine** promises what a client of the API may rely on: a run is
inserted PENDING, moves along `CanTransition`, may be turned CANCELLED late by
a Cancel that had read it before it settled, and is at last soft-deleted by
retention. Everything else is an implementation of it.

**RunLifecycle** is about the races of the server with itself. `req[q]` is a
goroutine of a handler; `CancelRead`/`CancelWrite`,
`ReportRead`/`ReportWrite`/`ProgressWrite` are the two halves of `Cancel` and
`UpdateStatus`, and `SweepList`/`SweepSkip`/`SweepRun` are the loop of
`checkStaleRuns` over the copy it listed. `ClaimRun` is one action because the
code is one conditional `UPDATE`. A crash of the server forgets `req` and
`sweep` and keeps the rows.

**Scheduling** has a record per scheduler instance: the jobs its tick listed
with their effective policy (`todo`), the one it is at, and the retry parent or
boundary it will insert for. `RetryCheck`/`RetryInsert` are `maybeFire`,
`CronCheck`/`FireInsert` are `boundaryFor` and `fire`; the unique index on
(job, scheduled_for), which keeps the soft-deleted rows, is `Conflicts`. Rows
are a sequence, in the order of `created_at`. With `StatementsFail`, counts,
queries and inserts may fail, with the consequence the code gives that (a COUNT
that failed reads 0, since its error is dropped).

**AgentRun** follows `executeBackup` from the poll to the last report:
`pc`/`cur` is where the runner is, `wire` and `cancelled` are the cancel frames
on their way and delivered, `stored` and `verified` the objects. `Faults` says
what may go wrong: lost requests (a report may still arrive later, `late`),
crashes, storage and dump failures. The statements of Cancel and of the sweep
themselves succeed here.

**AlertMachine** promises that a key has one firing alert, that no closed alert
fires again and that no firing alert is pruned. **Alerts** has the statements:
`call[t]` is a `RaiseAlert` or `ResolveAlerts` that thread t is in (`FindFiring`,
`Bump`, `Insert` for the two SELECTs, the UPDATE and the INSERT of a raise,
`ListFiring`, `CloseListed` for a resolution), `mon` is the monitor's tick
with the rows it has listed and not handled. Requests raise from reports of
FAILED runs, resolve from COMPLETED ones and from gRPC's Connect; a plain
Heartbeat resolves nothing, so the tick's own resolution (`ResolveAlive`) is
what closes offline alerts. `counted` is a history variable.

**Streams** follows `Connect` for the streams of one agent: authenticated,
listed in the table, serving, ended, removed from the table, gone. The deferred
cleanup removes the agent's entry whoever has made it. The serving loop takes a
command off the channel before it sends it: when `Send` fails (`SendFails`) that
one command is lost (`failed`), and those behind it stay in the channel. `LookUp`
and `Put` are `SendCommand` before and after the lock. Events write the run by
id. The agent speaks gRPC only: what the HTTP handlers write to `agents.status`
is not composed with it.

**Hub** has the two ends of each agent socket (`server`, `client`), which learn
separately of its end, the table entry, the channel of the writer and the
frames on the wire, and dashboards with their bounded channel. A socket that both
ends have forgotten is used again for a later dial, so that any number of
connections can follow each other; `breaks` counts those that broke. A dashboard's
`since` and `got` record from where and what it was sent.

**Payloads** has no state. A source is a sequence of collections or directory
entries, `Items` what a backup writes of it, `Restored` what the engine of that
kind makes of the items in a destination that may not be empty: batches of
`InsertMany` that stop at the first duplicate (of an id, or under a unique
index that is there), indexes after the documents, rebuilt without the filter,
the collation and the weights that the archive holds (`Rebuilt`) and `Refused` by
the server when two documents collide in them, when their name or specification is taken,
or when they can not stand without what was dropped; JSON lines too long for
the reader; psql that stops at an existing table, tar that overwrites and
refuses links. `Expected` is everything the source held, as it was, said without
the engines. `Exact` says which of these facts a format and its restore keep,
`Reduced` what comes back for the others, and `Restorable` which sources come
back at all; these three are the statement of what is lost, and the result is
compared with them. A dump is one `Section` for a collection, one behind
the other; `Walked`, `Dumped` and `Trace` are recursive functions, whose values at
the numbers in between are what an interrupted engine has got to.

**Restores** takes one backup of one job through `executeBackup` (the temporary
files, the object and what its name says about it) and then restores it:
`CreateCheck`/`CreateInsert`, the claim, `Fetch`, `Decrypt`, `Import`, the report.
`wire` holds claims and reports on their way; each may be lost or arrive after
the agent has given up on it. `Recall` is the cancel that is seen with the answer
to a report, the one of COMPLETED too, and deletes the object. An import that
fails, or is cut off by a crash, leaves any of the states the engine goes through
(`Left`). A RESTORE DATABASE that SQL Server refuses is reported COMPLETED
(`ImportFails`; `refused` records it), since `sqlcmd` is called without `-b`.

**Enrolment** has the handlers step by step: `EnrollRead`, then the transaction
(`EnrollClaim` takes the row lock, `EnrollCheck`, `EnrollCommit` or
`EnrollAbort`), `RegisterRead`/`RegisterWrite` without one (`RegisterUnwritten` is
the UPDATE whose error is dropped: a credential is answered that no row has),
`HeartbeatAuth` and `Heartbeat`. A credential is the agent and the number of its hash. **Setup**
composes it with the machines: `disk` is what outlives the programs, `proc` the
agent process (`Resolve`, `Enrolled`, `Beat`, `Beaten`), `setup` a run of the
set-up program with the undo list it has collected and the disk it found (`old`).
The binary, the configuration and the credential are truncated before they are
written: a failed write leaves the old file or a broken one (`harmed` names it).
`Fail` is the rollback together with `withCredentialBackup`, each removal and
the putting back of the credential at best effort. A Windows service goes on
RUNNING after its agent has stopped (`Beaten`, second case), one under systemd
stops.

### What is abstracted

* Time is the *age* of a timestamp, capped at the threshold it is compared
  with: the code compares ages with thresholds and nothing else.
* Reads that one statement follows at once without an effect of their own are
  merged: the counts and the latest-run query of `maybeFire`, the due boundary
  and the count of `fire`, the agent lookup and the write of one run in the
  sweep, authentication with the handler it admits, find and delete in
  retention. The pairs whose gap matters to a property (count and insert, read
  and write of a run, list and write of the sweep) are apart.
* A report is modelled from the moment it passes `CanTransition`; a refused one
  changes nothing. Bytes, paths, checksums and log lines are left out, alerts are
  reduced to `lost`, the set of runs the sweep has alerted for. The check of
  `storage_path` and the artifact registration are left out.
* A revoked agent is one whose process is down: both can call nothing.
* `BackupJobHandler.Update` writes policy and schedule in separate statements;
  they are separate edits. `Becomes` in Scheduling stands for what RunLifecycle
  has in detail.
* In AgentRun `UpdateStatus` is one action; its races are RunLifecycle's matter.
* Alerts: a job is caught up or not (`WindowPasses`), an alert is less than an
  hour, less than the retention, or more than that old, and identities of
  closed rows are used again when the table is full. The UPDATE and the COUNT
  of the flap guard are one step. Which runs the sweep lists is any subset.
* Streams and Hub have one agent; the events of restores are left out.
* Alerts has one monitor. Every server instance starts one
  (`cmd/api/main.go:50`); two of them may both count no recent alert before
  either raises, and that race is left out.
* Payloads: a document is its id (a type and the text it is written as), the
  type of its other fields, its values under the index keys and whether its
  line is too long; an index is its name, key, uniqueness, the ids its filter
  skips, the options the restore does not know, and whether the server takes it
  without them (`stands`, where the details of sparse, text and wildcard indexes
  are folded in). Ids are scalars and not empty. Two index specifications
  conflict by the rules of MongoDB 5 and later. A file is its name, a glob the
  set of names it matches; a checksum is not modelled, sizes are the number of
  items. psql, mongorestore, pg_dump and sqlcmd are external; a refused BACKUP
  DATABASE is taken to leave no file, and fails at the check of the file.
* Setup: the agent binary is shipped next to the set-up program, as in the
  release; a reboot waits until no call is half-served; an operator rotates an
  agent once. A broken credential file is one that Load refuses, that is none.
  DisconnectAgent is in Streams.
* `Uninstall` and `EnsureRegistered` are called by no program and left out.

## 3. Runs

| run | question | size |
|---|---|---|
| RunLifecycle_interleavings | with two requests, the sweep, retention, stops, deletion and a restart over one run: is the row consistent, does a settled run stay settled but for a late Cancel, does the machine hold, does an abandoned run settle? | 465 k states, 35 s |
| Scheduling_races | two schedulers with failing statements: one run per boundary, and the retry budget | 1.1 M, 25 s |
| Scheduling_edits | one scheduler and Run Now while job and policy are edited, attached, detached, deleted | 5.9 M, 90 s |
| Scheduling_alone | one scheduler, restarted: one run in flight; a failed run is retried in the end | 26 k |
| AgentRun_safety | two runs with every fault: runner and row in step, each run turns COMPLETED only when it is stored and verified | 0.9 M |
| AgentRun_liveness | storage and dump failures, cancels and sweeps: claimed runs settle | small |
| Alerts | the monitor, a handler, operators and time over an agent, a job or a run: one firing row of a key, no raise lost from its count, one offline alert an hour, the machine, and in the end the table is right | 485 k, 60 s |
| Streams | two streams, two commands, two events, a rotation or revocation: the table, the status, the commands | 333 k, 50 s |
| Hub | an agent's sockets with two cancels, two breaks, a dashboard and its events: a frame that was taken arrives while the connection holds, the agent is reachable in the end, a dashboard that is kept has missed nothing | 485 k, 90 s |
| Restores | every kind of backup, compressed, encrypted, in S3 or local, into empty and used destinations, with races, losses and a crash; and, as an assumption TLC evaluates, the Mongo engines over all sources of up to three documents and two indexes | 238 k, 50 s |
| Restores_compressed | the backups that can not be restored, see 5 | small |
| Setup | two machines, two servers, two runs of the set-up and one upset | 122 k, 60 s |

**The properties.** `EndTimesMatch` and `NeverClaimed` tie the columns that
different writers set: completed_at is set by reports and by the sweep, never
by Cancel, started_at by the claim only. `SettledOnlyCancelled` is what
remains of "terminal states never transition out". `StartedOnce` says no run is
handed to two claims. `DeadAgentRunsSettle` is what the sweep is for.
`OneRunPerBoundary` survives restarts, several instances and retention.
`RetryChain` makes `retry_of_run_id` a chain that counts down to an original
run; `RetryBudget` bounds it, although the settings a retry is decided with may
be old. `OneInFlight` is the guard, under the conditions in which it holds.
`RetryNotForgotten` says a retryable failure does not wait for ever.
`CompletedWhenStored` and `StageInStep` relate the runner, the row and the
object store.

`TableSound` holds although every raise decides on an earlier SELECT: one
firing row of a key, and every raise in the count of the row it returned.
`OneOfflineAlertAnHour` is the flap guard. `TroubleShown` and
`RecoveryClosesAlerts` say that the table converges to the facts, in both
directions, in spite of ticks that act on old lists. `StreamsSound` (the table
names a stream that is served, an agent without a stream is OFFLINE, an ended
run has its end time), `AcceptedDelivered` and `CancelledStreamEnds` are what
the overlap of two streams leaves standing. `PeersSound` says that the hub's
tables name live peers only and every open socket, `AgentReconnects` and
`CancelArrives` that commands find their way to it, and
`KeptBoardMissesNothing` is why a slow dashboard is closed and not skipped.
`StoredIsWhole` is the verification after the upload, and leaves room for one
loss only: that of the object to a cancel seen with an answer.
`CompletedRestoreIsWhole` compares the destination with all that the source held:
each fact as it was, or reduced by what `Exact` and `Reduced` say its format or
engine loses, and for nothing else; a refused RESTORE DATABASE is excluded and
listed in section 5. `PlainBackupsRestore` says that nothing but a fault, a used
destination or a link makes a restore fail, for sources that are `Restorable`
and backups that do not meet the finding of section 5, and `TempFilesRemoved` that
no failing step leaves a copy of the data on the agent's disk.
`ImplementsRestoreMachine` holds one waiting restore per destination and the
order of states. `CredentialsSound` is Enroll's transaction with its conditional
claim, on the server and on the disk; `FailedSetupKeepsInstall` relates the disk
after a failed run to the disk before it, however much of the run and of its
rollback failed: no file is deleted, none is spoilt but one whose own write
failed, and the configuration names the old server or the one the run was for,
`InstalledAgentReturns` asks configuration, credential, binary and service to
agree, and `RevokedAgentStops` follows a revocation to the end of the agent's
loop. The combined invariants (`TableSound`, `StreamsSound`, `PeersSound`,
`CredentialsSound`) contain the type invariant of their module. Every property
of a passing run has a mutant of the code in `PROJECT.json` that breaks it.

**Bounds.** One run is enough for RunLifecycle: handlers write single rows by id
and no property speaks of two (the theorems are for any number). Two requests
are needed for two reports, or a report and a cancel, to race; the sweep,
retention and the agent are further actors. Thresholds of 1 and 2 ticks
keep GoneAfter and OfflineAfter below StaleAfter, as 3 and 15 minutes are.
Scheduling uses one job (no statement of the scheduler spans jobs), a
cron with two instants (`Horizon` = 2) so that a boundary can lie before, in
or after a window, and three or four runs (`MaxRuns`): an original, its retry
and a cron run beside them. `DelayCap` caps the retry delay; `MaxRestarts`
and `MaxEdits` are named bounds. AgentRun has two runs so that a late report of
the first meets the runner at the second.

In Alerts each behaviour has one subject, an agent, a job or a run (MCAlerts):
rows of different keys meet nowhere but in the bound on their number. Two rows
let a closed and a firing row of a key meet; the monitor and one handler are
the threads that race. Streams has two streams, because the old one and its
successor are the case, and a buffer of one so that it fills. Hub has the same
bound for the channels, two sockets that are used again once both ends have
forgotten them, and two breaks: three connections in a row, so that a
replacement is followed by the late return of an old handler and by one more
replacement. `AgentReconnects` has no escape: after the breaks the agent must be
connected for good. It has two runs to cancel, one dashboard and two events.
Restores has a source with a full batch and a rest, an empty collection, a
unique index and a partial one, long and short integers, and a directory with a
link and a special file; two restores can be created by two requests. Sources
that can not come back (colliding indexes, long lines, ids that read alike) are
in the assumption `EnginesRestore` of MCRestores, which compares the engines
with `Restorable` in both directions. Setup has one upset, a failing step with
all it may leave behind and all its rollback may fail to do, a lost answer, a
reboot or an intervention, in its run.

**Deadlock** is checked in every run but Streams, Hub, Restores,
Restores_compressed and Setup, where the bounded streams, sockets, requests
and runs of the set-up come to an end.

**Fairness.** RunLifecycle: the monitor's ticker fires and time passes; nothing is assumed of agents, users or requests. Scheduling: the
ticker goroutine goes on, a tick that has begun is finished, and the list query
succeeds again and again (strong fairness, since it may fail in between).
AgentRun: the runner's loop is sequential, `AGENT_JOB_TIMEOUT` bounds the
engines and the HTTP client's timeout bounds every request, so it always
moves on; the sweep runs every minute. Alerts: the ticker fires and a call that
was begun goes on. Streams and Hub: every goroutine that was started goes on,
an end whose other end has closed notices, and the agent's client dials again
(its loop); no connection has to break.
Restores: the same bounds as AgentRun, and a message arrives or is lost. Setup:
the server answers, the agent polls, the set-up goes through its steps. Crashes,
faults and users are never fair.

## 4. Theorems (the `_proofs` modules, checked by TLAPS)

TLC checks the instances of section 3; these hold for every value of the
constants that meets the named assumptions of the modules (thresholds,
delays and horizons are positive, bounds are natural numbers, `AgentOf` is a
function, policies have well-formed settings, every agent has a server, a
source has one collection of a name and one document of an id in it, and its
entries are files, directories, links or special files, `None` is none of the
values it stands in for, nor is a broken file).
Every inductive invariant below was checked by TLC, on the instances of section
3, before it was proved.

### RunLifecycle_proofs

`TypeInvariant`, `EndTimes`, `Unclaimed` (the three invariants of the run),
`SettledRuns`, `Starts` (its action properties) and `Implementation`
(RunLifecycle implements RunMachine) rest on

    IInv == TypeOK /\ EndTimesMatch /\ NeverClaimed /\ RowHistory /\ PendingReports

`RowHistory` says what a row that was never inserted, or not yet claimed, looks
like: without it a claim could start from a row with an old completed_at.
`PendingReports` says that a run a report has read as claimed has been started:
a report's write is conditional on the status it read, and this makes the
write safe after any interleaving. One lemma per kind of step shows that IInv
is kept; `StepMoves` shows that a step moves at most one run along one edge of
the machine, from which the action properties and the refinement follow.

### AgentRun_proofs

`TypeInvariant`, `InStep` (a stage is reported only when the row is in the stage
before it, or somebody else has ended the run), `StoredWhenCompleted` (no fault
makes a run COMPLETED without its object stored and verified) and
`Implementation` (agent and server together implement RunMachine) rest on

    IInv == TypeOK /\ StageInStep /\ AtHand /\ ObjectInStage /\ LateReports /\ CancelsInserted

The runner writes blind: it does not read the row before a report. `AtHand` says
that the row of the run at hand has been claimed, `ObjectInStage` that the
object is stored and verified once stages are reported. `LateReports` is what
the argument turns on: a report the runner has given up on, which may still
arrive, speaks of another run than the one at hand, and its object is never
touched again, so a late COMPLETED is as good as a prompt one.
`OthersWrite` shows that whoever else writes the row at hand ends the run.

### Scheduling_proofs

`TypeInvariant`, `Boundaries`, `Chains` and `Budget` hold for any number of
schedulers, Run Now requests and edits, with failing statements, and rest on

    IInv == TypeOK /\ RowsInv /\ \A s \in Schedulers : TickRemembers(s)

`TickRemembers` says what is left of what a tick has read when it acts on it: the
failed run found by the retry check may have been cancelled or deleted
meanwhile but has not come back to life, and its attempts are below the budget
of the settings the tick listed, which some policy had. The boundary needs
nothing remembered: the index decides at the insert. Every step is shown to
keep the rows (`Keeps`) or to add one (`Adds`, `MayBeAdded`); `StepInv`
concludes from either.

`Alone` proves `OneInFlight` under the assumptions it needs: one scheduler, no
Run Now, no failing statement. The tables of section 5 show that it fails
without any one of them. Its invariant adds `GuardHolds`: between a lone
scheduler's count and its insert nobody else puts a run in flight.

### Alerts_proofs

`Table`, `FlapGuard` and `Implementation` hold for any number of handlers,
subjects and rows, and rest on

    IInv == TableSound /\ OneOfflineAlertAnHour /\ RowsFilled /\ OfflineRaises

The argument is one of two cases for every step: the table `Grows` by a row under
a key that nothing fires under (the index decides, not the SELECT), or every
row `Fades`, that is, keeps its key and moves towards its end, or is pruned. `FlapGuard` needs more, because the monitor counts in one step and inserts in another:
`OfflineRaises` says that no other thread raises under an agent's offline key,
and that while the monitor is between the two nothing of the last hour has
appeared there. The refinement follows from the same two cases.

### Streams_proofs

`Sound` proves every part of `StreamsSound`: the entry of the table is a stream that
is served, an agent without a stream is OFFLINE, an ended run is stamped.

    IInv == StreamsSound /\ SendersBusy

`SendersBusy` is the only strengthening: a sender between the lookup and the
channel holds a stream and a command, though the stream may have ended by then.
The parts do not need each other beside the types, and each step is gone
through once per part.

### Hub_proofs

`Peers` and `NothingMissed` hold for every capacity of the channels.

    IInv == SocketsInv /\ BoardsInv

`PeersSound` is inductive once the types are. A dashboard's invariant
(`BoardSound`) says that what it was sent and what waits in its channel is the
sequence of all events since it subscribed, as long as it is neither doomed nor
closed, and that it held nothing before. The lemmas on sequences of
consecutive numbers (`NextNumber` and those after it) turn a publication into
that sequence made one longer, and a write of the socket into a shift from the
channel to what was sent.

### Restores_proofs

The engines come first. For every source, size of a batch and kind of backup,

* `RoundTrip`: a restore that reports success has brought back every fact of
  `Expected`, exactly or reduced as `Exact` and `Reduced` say, whatever the
  destination held before;
* `EmptyDestination`: into an empty destination it does succeed when the source
  is `Restorable` and an archive holds no link. The hypothesis is needed: indexes
  may be refused, lines be too long and ids fall together in the model, and TLC
  finds (`EnginesRestore`) that small sources come back exactly when it holds.

The provers know no induction over data, so it is one over numbers: a set that
holds 0, and n + 1 with n, holds every number (`Counting`, from the
well-foundedness of `<`). `WalkedDef`, `DumpedDef` and `TraceDef` show by it that the
recursive functions exist and what they are. `Layout` finds the sections in a
dump, `SectionTrace` the states of a replay of one section. The argument about an
engine has then a state between two sections (`Ready`) and one within a section
(`Within`), and three lemmas, one for the opening, a row and the end of a section.
For the engines that insert by batches, `Within` says that the rows which have
gone are in the database or in the batch, in order, and `BatchSent` that an
`InsertMany` that reports success has added its whole batch. `MongoFinishes` is
the boundary the code has twice, once at the next collection and once after the
last: without either, what is left in the batch is lost. That no restore clashes
with itself is what the assumption of distinct names and ids is for.

`Stored`, `DiskClean` and `Implementation` hold for every payload, destination
and number of requests, claims and losses, and rest on

    IInv == AgentInv /\ RowsInv /\ WireInv /\ StageInv /\ AskedInv /\ RestInv

`StageInv` follows the file through `executeBackup`: after the dump the file in
hand is the whole payload, before the encryption it is plain, after the size
check it is not empty. An upload to S3 may have left the object without its last item; the HEAD compares lengths, and a non-empty sequence is longer than its
front, so only the whole one passes. `AskedInv` says that a restore exists only
after its backup COMPLETED, and with it that the object no longer changes, a
cancel having taken it away before or never.
`RowsInv` holds that a claim is answered to one caller: a row
is executed at most once, and one that is PENDING never was. For the refinement
each step is shown to add one row (`Adds`, with no waiting row of its
destination, as the index demands) or to move one along an edge (`Moves`).

`RestoredWhole` (a COMPLETED restore is whole) and `PlainRestores` (a backup that
can be read fails to restore only for a fault or for what was there before) put
the two halves together. They rest on

    DataInv == IInv /\ FileInv /\ WorkInv /\ PlaceInv /\ WholeInv /\ BlameInv

`FileInv` follows the packing of the file, whose name decides how it is read.
`Ends` says in one word that a restore has come to an end for the agent, in a
report on its way, or in its row; `WholeInv` and `BlameInv` are the two
properties with that word in the place of the row's status, since between the
engine and the row the agent may crash and the report be late or lost.
`WorkInv` makes the end a single one: while a restore is at work nothing tells of
its end, and nobody else works on its row, because it was begun by the one claim
that found it PENDING. Every step is either calm (no end is added and nothing in
the destinations changes: `CalmStep`) or the one at which the engine stops
(`WholeEnding`, `BlameEnding`, by `RoundTrip` and `EmptyDestination`).

### Setup_proofs

`OneTokenOneCredential` and `OldInstall` are about `Spec`, hence also about
`FairSpec`, for any number of machines, servers, agents and interventions, and
rest on

    IInv == ServerInv /\ MachinesInv /\ spent typed

On the server, `CallOK` ties a call inside the transaction to the row lock it
holds, and `RowOK` says a locked token is unused, so that two Enrolls of a token
can not both commit. `Good(x)` is what holds of a credential once it has been
granted: it is the one its row accepts, or an operator has rotated or deleted
it, or it was registered without a token. `Ages` says that no step takes `Good`
away (`GoodKept`); the credential may then travel through an answer, the
set-up program, the store, the backup and the state file.

On the machine, `RunOK` relates the disk at every step of the set-up to the one
it found (`old`): what is to be undone was not there before (`Added`), so the undo
never takes away a file that was, until the new credential is saved the store
holds the old one, and `Kept` is what `KeptFrom` says of the binary and the
configuration. A failure
in any step, with whatever it leaves half-written (`DiskFails`), then ends in
what the property allows. The two halves meet in one lemma in each direction: while the
servers work the machines wait (`MachinesWait`), and what one machine does
leaves the others alone (`OneMachine`).

### Model-checked only

* Liveness: `DeadAgentRunsSettle`, `RetryNotForgotten`, `ClaimedRunSettles`,
  `TroubleShown`, `RecoveryClosesAlerts`, `AcceptedDelivered`,
  `CancelledStreamEnds`, `CancelArrives`, `AgentReconnects`, `RunningSettles`,
  `RevokedAgentStops`, `InstalledAgentReturns`. Temporal reasoning about
  fairness and ENABLED is out of reach of these provers.

Every safety and action property of the runs is a theorem. No module has a
RECURSIVE operator; the recursive functions of Payloads are what the proofs of
Restores_proofs are about.

## 5. Where comments and code differ

**Restores_compressed** is expected to find a violation. The object of a backup
is named `job_run` or `job_run.enc` (`runner.go:579`), while psql and the JSON
and CSV readers decide by the suffix `.gz` whether to unpack ("gunzipping first
when the stored file is compressed", `runner.go:719`): what `GzipFile` has
compressed is handed to them as it is. And `executeRestore` decrypts
`rs.StoragePath` (`runner.go:788`), which of an S3 object is the key and not the
file that was downloaded. Both kinds of backup are COMPLETED and no restore of
them succeeds. `PlainBackupsRestore` shows the rest can be restored.

The following statements were found violated as well; to see the
counterexample, put the property into the cfg named, with the constants given.

| property | cfg, constants | comment | what happens |
|---|---|---|---|
| TerminalNeverLeft | RunLifecycle_interleavings | "terminal states never transition out" (`models/backup_run.go:38`) | Cancel reads PENDING; the run is claimed and completed; Cancel's write has no condition |
| CancelledRunsExpire | RunLifecycle_interleavings | "Failed/cancelled runs ... expire them on the same schedule" (`services/health_monitor.go:283`) | a run cancelled by its user has no completed_at, which the query compares |
| ReportingAgentOnline | RunLifecycle_interleavings, OfflineAfter = 2, StaleAfter = 3 | "Progress doubles as heartbeat (keeps the agent ONLINE)" (`runner.go:446`) | UpdateStatus does not touch last_seen_at; a long backup turns its agent OFFLINE |
| OneInFlight | Scheduling_edits | "a double-clicked Run Now ... must not fork a second run" (`handlers/backup_job.go:419`) | both requests count before either inserts |
| ClaimedRunSettles | AgentRun_liveness, Faults with "crash" | "checkStaleRuns fails claimed runs whose agent vanished mid-execution" (`services/health_monitor.go:140`) | an agent restarted after a crash heartbeats again, and its old run stays claimed |
| CompletedHasObject | AgentRun_safety | COMPLETED is "verified-by-construction" (`handlers/backup_run.go:281`) | a cancel seen with the answer to the COMPLETED report deletes the object; the run stays COMPLETED |

The last section of each module states further comments the code does not
keep; they have no run of their own. To see the counterexample, put the
property into the cfg named, with the constants given.

| property | cfg, constants | what happens |
|---|---|---|
| SealedCounters | RunLifecycle_interleavings, Counters = {0, 1} | a progress report writes its counters after another report ended the run |
| SweepHonorsCancel | RunLifecycle_interleavings | a cancel after the list is not in the sweep's copy, and the run ends FAILED |
| DeadOnlyWhenBothHold | RunLifecycle_interleavings | the run makes progress after it was listed, and is ended |
| LostRunDidNotComplete | RunLifecycle_interleavings | the conditional write hits no row, RowsAffected is not looked at, and the alert goes out for a run that completed |
| VanishedAgentRunsSettle | RunLifecycle_interleavings | the sweep skips runs of agents that were deleted |
| OneInFlight | Scheduling_edits, Schedulers = {s1, s2}, Operators = {} | two schedulers retry the same failed run: no boundary, no index |
| OneInFlight | Scheduling_edits, Schedulers = {s1}, Operators = {}, StatementsFail = TRUE | a failed COUNT reads 0 |
| FreshWorkWins | Scheduling_edits, Schedulers = {s1}, Operators = {} | retention removes the newer COMPLETED run; the older FAILED one is latest again |
| DisabledNeverRetries | the same, MaxEdits = 1 | the job is disabled after the tick listed it |
| CancelledHasNoObject | AgentRun_safety | the stage report is refused because the sweep or a late Cancel ended the run, and the object stays |
| ProgressTellsCancel | AgentRun_safety | the answer to a same-status report has no cancel_requested |

Other disagreements met while modelling, which no property states:

* gRPC: an old stream's cleanup removes the newer stream's entry and turns the
  agent OFFLINE although it is connected (`server.go:108-115`); since it writes
  the status itself, the monitor never flags that agent and no offline alert is
  raised. A command whose `Send` fails has left the channel and is lost, though
  SendCommand answered true (`server.go:133-136`). Events write runs and restores in any status
  (`server.go:164-225`), against `models/backup_run.go:38` and
  `models/restore.go:19-22`.
* Monitor: `checkStaleRuns` raises its alert also when its UPDATE matched no row;
  a raise may count into a row that was closed meanwhile; an acknowledged alert
  is neither coalesced into nor resolved; after the flap guard has kept an alert
  back the agent stays OFFLINE without one. The alert of a revoked agent is
  never closed.
* Restores: nothing sweeps a restore that stays RUNNING; its checksum is never
  compared; a failed HEAD leaves an orphaned object; `GzipFile` leaves a
  half-written file; `DecryptFile` accepts a file cut at a frame boundary; a
  destination in use ends with part of the data; links are backed up and then
  refused. A cancel seen with the answer to the COMPLETED report deletes the
  object of a run that stays COMPLETED (`runner.go:675-681`); a restore of it is
  accepted and fails.
* SQL Server: `sqlcmd` is called without `-b` (`mssql_exec.go:62`, 252), so that a
  RESTORE DATABASE the server refuses exits 0 and is reported COMPLETED with
  nothing restored, against "Non-zero exit yields the server's error text"
  (`mssql_exec.go:52`).
* MongoDB: the native archive holds the whole index specification, the restore
  passes on key, name, unique, sparse and expiry (`mongo_native.go:303-327`). A
  partial, collated or weighted index comes back without these options and
  without a word; a unique partial index becomes a full unique one, and when
  CreateMany then answers E11000 (366-369) the restore fails although all the
  documents are there, into an empty database too. A document whose line is
  over the reader's 16 MiB (`mongo_export.go:184`) is exported and can not be
  imported. CSV writes the number 1 and the string "1" alike
  (`mongo_export.go:227-262`, 441-450), so that the import stops at a duplicate
  id. JSON exports narrow long integers and lose indexes and empty collections,
  although "use ARCHIVE or JSON for exact restores" (`mongo_export.go:381`) and
  `runner.go:743` promise more of both formats.
* An include pattern prunes directories it does not match, so `*.log` finds
  nothing below them, against the comment at `backup.go:37-42`.
* Set-up: "credential preserved — re-run setup to retry without a new token"
  (`controller.go:209`) is said before the credential is saved, when the token is
  already spent; on a change of servers the old configuration is not put back, and the
  old credential goes to the new server, while the message says "the agent still
  points at the old server" (`controller.go:99`); a copy or a write that fails has
  truncated the binary or the configuration that was there (`installer.go:65`,
  `config.go:300`), and nothing restores it; putting the credential back is best
  effort (`controller.go:98`); the undo of the service removes one that was there
  before; a service that was stopped for the copy is not started again.
* Enrolment: two Registers with one key both succeed and the first credential
  is void at once; the error of Register's UPDATE is dropped
  (`handlers/agent.go:141`), so that a credential may be answered which no row
  has; after a revocation a Windows service stays RUNNING without an agent
  (`service_windows.go:244-257`); Heartbeat may write ONLINE to a row revoked since the
  authentication; `RevokeToken` of an expired token answers as if it had done
  something (`enrollment.go:308-310` says 404); Enroll of an agent deleted
  meanwhile answers with an empty identity. A deleted or rotated agent is told
  "invalid agent token" and polls for ever.
* Jobs, policies and preferences are inserted with `default:` tags, so that
  `enabled: false`, `retention_days: 0` and `email_enabled: false` become the
  default.
* The agent's log frames have `run_id` and `line` at the top, the hub reads
  them from the payload: no line reaches a dashboard.

## 6. Plan

In this order:

1. **Sessions**: families of refresh tokens, reuse of a rotated token.
2. **Restores with RunLifecycle**: runs that are cancelled late or expire between
   the request and the claim; restore events of the gRPC server.
3. **Scheduling**: a clock with more boundaries, lost windows; retention by the
   effective policy.
4. Artifacts and Verify in AgentRun; `storage_path` and edits of the target.
5. **Rate limits**: token buckets and their clean-up.

## 7. Not modelled

* Sessions, users and organisations, storage targets, connections and their
  inspection, dashboard queries, preflight, pagination, notification settings:
  single rows or reads, except sessions, whose rotation is one transaction with
  a row lock.
* Rate limiting, audit, CORS, configuration, migrations, mailer, routes:
  start-up, I/O, or independent of the rest. The unique indexes of the
  migrations are in the actions that rely on them.
* The wizard's user interface, the detection of databases on a machine, the
  Windows key protection, the web client, the wasm client, and the older agent
  under `src/server/internal/agent`, which is not shipped.
