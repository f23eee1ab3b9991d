----------------------------- MODULE Scheduling -----------------------------
(***************************************************************************)
(* How backup_runs rows come into being: the scheduler's tick, with its    *)
(* retry check (maybeFire) and its cron check (fire), and the dashboard's  *)
(* RunNow, against jobs and policies that are edited meanwhile             *)
(* (services/scheduler.go, models/policy.go, handlers/backup_job.go,       *)
(* handlers/policy.go).                                                    *)
(*                                                                         *)
(* Every instance of the server runs a scheduler.  The in-flight guard is  *)
(* a COUNT and the row that follows it an INSERT of its own, so a check    *)
(* and its insert are two actions.  The rows that module RunLifecycle's    *)
(* handlers move are moved here by ClaimRun .. ExpireRun, as RunMachine    *)
(* allows; RUNNING stands for the three claimed statuses, which the guard  *)
(* counts alike.                                                           *)
(*                                                                         *)
(* A cron expression is the set of its instants.  Rows are kept in order   *)
(* of created_at.                                                          *)
(***************************************************************************)
EXTENDS RunStates, Integers, Sequences

CONSTANTS
  Jobs, Policies,
  Schedulers,     \* server instances
  Operators,      \* RunNow requests that may be handled at once
  Crons,          \* cron expressions in use; {} is the empty string
  PolicySettings, \* settings a policy may be given
  None,           \* no policy, no job
  StatementsFail, \* may a statement fail after the jobs have been listed?
  DelayCap,       \* longest retry delay
  Horizon,        \* bound: last instant of the clock
  MaxRuns,        \* bound: rows inserted
  MaxRestarts,    \* bound: scheduler restarts
  MaxEdits        \* bound: edits of jobs and policies

DefaultDelay == 1 \* 300 seconds, in place of a delay that is not positive

ASSUME BoundsAssumption ==
  {DelayCap, Horizon} \subseteq Nat \ {0} /\ {MaxRuns, MaxRestarts, MaxEdits} \subseteq Nat
ASSUME CronsAssumption == {} \in Crons /\ Crons \subseteq SUBSET (1..Horizon)
ASSUME PoliciesAssumption ==
  PolicySettings \subseteq [enabled : BOOLEAN, cron : Crons, maxRetries : Nat,
                            delay : 0..DelayCap]
ASSUME NoneAssumption == None \notin Policies \cup Jobs
ASSUME StatementsFailAssumption == StatementsFail \in BOOLEAN

VARIABLES
  job,       \* backup_jobs with their backup_schedules row
  policy,    \* backup_policies
  deleting,  \* policies whose Delete has detached the jobs, and no more yet
  runs,      \* backup_runs
  clock,
  lastTick,  \* Scheduler.lastTick
  tick,      \* how far each scheduler is in its tick
  runNow,    \* the job each RunNow request is about to insert a run for
  restarts, edits

vars == <<job, policy, deleting, runs, clock, lastTick, tick, runNow, restarts, edits>>

config == <<job, policy, deleting, edits>>

\* The age of completed_at past which retention may delete a row: a day or
\* more, longer than any retry delay.
RetainFor == DelayCap + 1

\* NULL completed_at, scheduled_for and retry_of_run_id.
NoTime == -1
NoBoundary == 0
NoRun == 0

JobRow == [enabled : BOOLEAN, policy : Policies \cup {None}, cron : Crons,
           deleted : BOOLEAN]

PolicyRow == [deleted : BOOLEAN, settings : PolicySettings]

Run == [job : Jobs, status : RowStatus, sched : 0..Horizon, retryOf : Nat,
        attempt : Nat, age : {NoTime} \cup (0..RetainFor)]

\* models.ResolvedPolicy: what a tick works with, as it was when it listed
\* the jobs.
ResolvedPolicy == [enabled : BOOLEAN, cron : Crons, maxRetries : Nat,
                   delay : 0..DelayCap]

Work == [job : Jobs, eff : ResolvedPolicy]
NoWork == [job |-> None]

\* pc: between ticks, between jobs, before the insert of a retry of run arg,
\* before the cron check, before the insert for the boundary arg.
TickState == [pc : {"idle", "next", "retry", "cron", "fire"},
              prev : 0..Horizon, now : 0..Horizon, todo : SUBSET Work,
              work : Work \cup {NoWork}, arg : Nat]

Idle == [pc |-> "idle", prev |-> 0, now |-> 0, todo |-> {}, work |-> NoWork,
         arg |-> 0]

TypeOK ==
  /\ job \in [Jobs -> JobRow]
  /\ policy \in [Policies -> PolicyRow]
  /\ deleting \subseteq Policies
  /\ runs \in Seq(Run)
  /\ clock \in 0..Horizon
  /\ lastTick \in [Schedulers -> 0..Horizon]
  /\ tick \in [Schedulers -> TickState]
  /\ runNow \in [Operators -> Jobs \cup {None}]
  /\ restarts \in 0..MaxRestarts /\ edits \in 0..MaxEdits

-----------------------------------------------------------------------------
RunIds == 1..Len(runs)

\* Mutant: a run that waits for its agent is not in flight.
InFlightIfClaimed(j) ==
  \E i \in RunIds : runs[i].job = j /\ runs[i].status \in ClaimedStatus

\* The scheduler's and RunNow's guard.
InFlight(j) == \E i \in RunIds : runs[i].job = j /\ runs[i].status \in InFlightStatus

Rows(j) == {i \in RunIds : runs[i].job = j /\ runs[i].status # Deleted}

IsLatest(i, j) == i \in Rows(j) /\ \A k \in Rows(j) : k <= i

\* models.EffectivePolicy: an attached policy governs, but for a cron it does
\* not have.  A policy that is gone is not preloaded, so the job falls back
\* to its own settings.
EffectivePolicy(j) ==
  LET p == job[j].policy
      attached == p # None /\ ~policy[p].deleted
      own == [enabled |-> job[j].enabled, cron |-> job[j].cron,
              maxRetries |-> 0, delay |-> DefaultDelay]
  IN  IF ~attached THEN own
      ELSE [policy[p].settings EXCEPT !.cron = IF @ # {} THEN @ ELSE job[j].cron]

\* Mutant: a status that does not exist.
NewRunMisspelt(j, sched, retryOf, attempt) ==
  [job |-> j, status |-> "QUEUED", sched |-> sched, retryOf |-> retryOf,
   attempt |-> attempt, age |-> NoTime]

NewRun(j, sched, retryOf, attempt) ==
  [job |-> j, status |-> "PENDING", sched |-> sched, retryOf |-> retryOf,
   attempt |-> attempt, age |-> NoTime]

CanInsert == Len(runs) < MaxRuns

-----------------------------------------------------------------------------
(* Scheduler.tick.  lastTick moves before the jobs are listed.  *)

TickList(s) ==
  /\ tick[s].pc = "idle"
  /\ lastTick' = [lastTick EXCEPT ![s] = clock]
  /\ LET due == {j \in Jobs : /\ ~job[j].deleted /\ job[j].enabled
                              /\ EffectivePolicy(j).enabled}
     IN  tick' = [tick EXCEPT ![s] =
                    [pc |-> "next", prev |-> lastTick[s], now |-> clock,
                     todo |-> {[job |-> j, eff |-> EffectivePolicy(j)] : j \in due},
                     work |-> NoWork, arg |-> 0]]
  /\ UNCHANGED <<config, runs, clock, runNow, restarts>>

\* The query fails: nothing of this interval is looked at again.
TickListFails(s) ==
  /\ tick[s].pc = "idle"
  /\ lastTick' = [lastTick EXCEPT ![s] = clock]
  /\ UNCHANGED <<config, runs, clock, tick, runNow, restarts>>

TickEnds(s) ==
  /\ tick[s].pc = "next" /\ tick[s].todo = {}
  /\ tick' = [tick EXCEPT ![s] = Idle]
  /\ UNCHANGED <<config, runs, clock, lastTick, runNow, restarts>>

RetryDelay(eff) == IF eff.delay = 0 THEN DefaultDelay ELSE eff.delay

\* Mutants: one retry too many; one too few; of any run that has ended.
MayRetryOnceMore(i, w) ==
  /\ w.eff.maxRetries > 0
  /\ ~InFlight(w.job) /\ IsLatest(i, w.job)
  /\ runs[i].status = "FAILED"
  /\ runs[i].attempt <= w.eff.maxRetries

MayRetryOnceLess(i, w) ==
  /\ ~InFlight(w.job) /\ IsLatest(i, w.job)
  /\ runs[i].status = "FAILED"
  /\ runs[i].attempt + 1 < w.eff.maxRetries

MayRetryAnyEnd(i, w) ==
  /\ w.eff.maxRetries > 0
  /\ ~InFlight(w.job) /\ IsLatest(i, w.job)
  /\ runs[i].attempt < w.eff.maxRetries

MayRetry(i, w) ==
  /\ w.eff.maxRetries > 0
  /\ ~InFlight(w.job)
  /\ IsLatest(i, w.job)
  /\ runs[i].status = "FAILED"
  /\ runs[i].attempt < w.eff.maxRetries
  /\ runs[i].age # NoTime /\ runs[i].age >= RetryDelay(w.eff)

\* maybeFire up to its Create: the count and the latest run.  An error is
\* logged, and the tick goes on with the cron check.
RetryCheck(s) ==
  /\ tick[s].pc = "next"
  /\ \E w \in tick[s].todo :
       LET goOn(pc, arg) ==
             tick' = [tick EXCEPT ![s].pc = pc, ![s].work = w, ![s].arg = arg,
                                  ![s].todo = @ \ {w}]
       IN  \/ \E i \in RunIds : MayRetry(i, w) /\ goOn("retry", i)
           \/ /\ StatementsFail \/ \A i \in RunIds : ~MayRetry(i, w)
              /\ goOn("cron", 0)
  /\ UNCHANGED <<config, runs, clock, lastTick, runNow, restarts>>

RetryInsert(s) ==
  /\ tick[s].pc = "retry" /\ CanInsert
  /\ LET i == tick[s].arg
     IN  \/ runs' = Append(runs, NewRun(tick[s].work.job, NoBoundary, i,
                                        runs[i].attempt + 1))
         \/ StatementsFail /\ UNCHANGED runs
  /\ tick' = [tick EXCEPT ![s].pc = "cron", ![s].arg = 0]
  /\ UNCHANGED <<config, clock, lastTick, runNow, restarts>>

\* boundaryFor: the first instant after prev, unless it is still to come.
Boundary(cron, prev, now, b) ==
  /\ b \in cron /\ prev < b /\ b <= now
  /\ \A c \in cron : prev < c => b <= c

\* boundaryFor and fire up to its Create.  The error of the COUNT is not
\* looked at, and a COUNT that failed has counted nothing.
CronCheck(s) ==
  /\ tick[s].pc = "cron"
  /\ LET w == tick[s].work
         due(b) == Boundary(w.eff.cron, tick[s].prev, tick[s].now, b)
     IN  \/ \E b \in w.eff.cron :
              /\ due(b) /\ (~InFlight(w.job) \/ StatementsFail)
              /\ tick' = [tick EXCEPT ![s].pc = "fire", ![s].arg = b]
         \/ /\ InFlight(w.job) \/ \A b \in w.eff.cron : ~due(b)
            /\ tick' = [tick EXCEPT ![s].pc = "next"]
  /\ UNCHANGED <<config, runs, clock, lastTick, runNow, restarts>>

\* Mutant: the unique index leaves out the soft-deleted rows.
ConflictsIfVisible(j, b) ==
  \E i \in RunIds : runs[i].job = j /\ runs[i].sched = b /\ runs[i].status # Deleted

\* ON CONFLICT DO NOTHING on idx_backup_runs_job_scheduled, which also holds
\* the rows that are soft-deleted.
Conflicts(j, b) == \E i \in RunIds : runs[i].job = j /\ runs[i].sched = b

FireInsert(s) ==
  /\ tick[s].pc = "fire" /\ CanInsert
  /\ LET j == tick[s].work.job
         b == tick[s].arg
     IN  \/ runs' = IF Conflicts(j, b) THEN runs
                    ELSE Append(runs, NewRun(j, b, NoRun, 0))
         \/ StatementsFail /\ UNCHANGED runs
  /\ tick' = [tick EXCEPT ![s].pc = "next", ![s].arg = 0]
  /\ UNCHANGED <<config, clock, lastTick, runNow, restarts>>

\* Start after a crash or a deployment: lastTick is the present.
SchedulerRestart(s) ==
  /\ restarts < MaxRestarts /\ restarts' = restarts + 1
  /\ tick' = [tick EXCEPT ![s] = Idle]
  /\ lastTick' = [lastTick EXCEPT ![s] = clock]
  /\ UNCHANGED <<config, runs, clock, runNow>>

-----------------------------------------------------------------------------
(* BackupJobHandler.RunNow: the same guard, then the insert; the errors of *)
(* both are ignored, and the answer is 201 either way.                     *)

RunNowCheck(u, j) ==
  /\ runNow[u] = None
  /\ ~job[j].deleted
  /\ ~InFlight(j) \/ StatementsFail
  /\ runNow' = [runNow EXCEPT ![u] = j]
  /\ UNCHANGED <<config, runs, clock, lastTick, tick, restarts>>

RunNowInsert(u) ==
  /\ runNow[u] # None /\ CanInsert
  /\ \/ runs' = Append(runs, NewRun(runNow[u], NoBoundary, NoRun, 0))
     \/ StatementsFail /\ UNCHANGED runs
  /\ runNow' = [runNow EXCEPT ![u] = None]
  /\ UNCHANGED <<config, clock, lastTick, tick, restarts>>

(* Edits of jobs and policies. *)

Edit == edits < MaxEdits /\ edits' = edits + 1

EditJob(j, row) ==
  /\ Edit
  /\ ~job[j].deleted
  /\ job' = [job EXCEPT ![j] = row]
  /\ UNCHANGED <<policy, deleting, runs, clock, lastTick, tick, runNow, restarts>>

SetEnabled(j, enabled) == EditJob(j, [job[j] EXCEPT !.enabled = enabled])
SetSchedule(j, cron) == cron # {} /\ EditJob(j, [job[j] EXCEPT !.cron = cron])
AttachPolicy(j, p) ==
  ~policy[p].deleted /\ EditJob(j, [job[j] EXCEPT !.policy = p])
DeleteJob(j) == EditJob(j, [job[j] EXCEPT !.deleted = TRUE])

UpdatePolicy(p, settings) ==
  /\ Edit
  /\ ~policy[p].deleted
  /\ policy' = [policy EXCEPT ![p].settings = settings]
  /\ UNCHANGED <<job, deleting, runs, clock, lastTick, tick, runNow, restarts>>

\* BackupPolicyHandler.Delete: jobs are detached, then the row is
\* soft-deleted; a job may be attached in between.
DetachPolicy(p) ==
  /\ Edit
  /\ ~policy[p].deleted /\ p \notin deleting
  /\ job' = [j \in Jobs |-> IF job[j].policy = p
                            THEN [job[j] EXCEPT !.policy = None] ELSE job[j]]
  /\ deleting' = deleting \cup {p}
  /\ UNCHANGED <<policy, runs, clock, lastTick, tick, runNow, restarts>>

DeletePolicy(p) ==
  /\ p \in deleting
  /\ deleting' = deleting \ {p}
  /\ policy' = [policy EXCEPT ![p].deleted = TRUE]
  /\ UNCHANGED <<job, edits, runs, clock, lastTick, tick, runNow, restarts>>

-----------------------------------------------------------------------------
(* What becomes of the rows: ClaimRun, UpdateStatus, Cancel, the sweep and *)
(* retention.                                                              *)

Becomes(i, from, to) ==
  /\ runs[i].status \in from
  /\ runs' = [runs EXCEPT ![i].status = to,
                          ![i].age = IF to \in {"COMPLETED", "FAILED"} THEN 0 ELSE @]
  /\ UNCHANGED <<config, clock, lastTick, tick, runNow, restarts>>

ClaimRun(i)  == Becomes(i, {"PENDING"}, "RUNNING")
SettleRun(i) == \E to \in {"COMPLETED", "FAILED"} : Becomes(i, {"RUNNING"}, to)
CancelRun(i) == Becomes(i, InFlightStatus \cup {"COMPLETED", "FAILED"}, "CANCELLED")
ExpireRun(i) == runs[i].age = RetainFor /\ Becomes(i, TerminalStatus, Deleted)

TimePasses ==
  /\ clock' = IF clock < Horizon THEN clock + 1 ELSE clock
  /\ runs' = [i \in RunIds |-> [runs[i] EXCEPT !.age =
                IF @ # NoTime /\ @ < RetainFor THEN @ + 1 ELSE @]]
  /\ UNCHANGED <<config, lastTick, tick, runNow, restarts>>

-----------------------------------------------------------------------------
SchedulerStep(s) ==
  \/ TickList(s)
  \/ TickListFails(s)
  \/ RetryCheck(s)
  \/ RetryInsert(s)
  \/ CronCheck(s)
  \/ FireInsert(s)
  \/ TickEnds(s)
  \/ SchedulerRestart(s)

OperatorStep(u) ==
  \/ \E j \in Jobs : RunNowCheck(u, j)
  \/ RunNowInsert(u)

EditStep ==
  \/ \E j \in Jobs, enabled \in BOOLEAN : SetEnabled(j, enabled)
  \/ \E j \in Jobs, cron \in Crons : SetSchedule(j, cron)
  \/ \E j \in Jobs, p \in Policies : AttachPolicy(j, p)
  \/ \E j \in Jobs : DeleteJob(j)
  \/ \E p \in Policies, settings \in PolicySettings : UpdatePolicy(p, settings)
  \/ \E p \in Policies : DetachPolicy(p) \/ DeletePolicy(p)

RunStep(i) == ClaimRun(i) \/ SettleRun(i) \/ CancelRun(i) \/ ExpireRun(i)

Next ==
  \/ \E s \in Schedulers : SchedulerStep(s)
  \/ \E u \in Operators : OperatorStep(u)
  \/ EditStep
  \/ \E i \in RunIds : RunStep(i)
  \/ TimePasses

\* Jobs are enabled, under a policy or not; nothing has been run yet.
Init ==
  /\ job \in [Jobs -> {row \in JobRow : row.enabled /\ ~row.deleted}]
  /\ policy \in [Policies -> {row \in PolicyRow : ~row.deleted}]
  /\ deleting = {}
  /\ runs = <<>>
  /\ clock = 0
  /\ lastTick = [s \in Schedulers |-> 0]
  /\ tick = [s \in Schedulers |-> Idle]
  /\ runNow = [u \in Operators |-> None]
  /\ restarts = 0 /\ edits = 0

Spec == Init /\ [][Next]_vars

\* The scheduler's ticker keeps firing, a tick that was started is finished,
\* the database answers the list query again and again (it may fail between),
\* and time passes.  Nothing is assumed of agents, operators and edits.
Fairness ==
  /\ \A s \in Schedulers :
       /\ SF_vars(TickList(s))
       /\ WF_vars(RetryCheck(s) \/ RetryInsert(s) \/ CronCheck(s)
                    \/ FireInsert(s) \/ TickEnds(s))
  /\ WF_vars(TimePasses)

FairSpec == Spec /\ Fairness

-----------------------------------------------------------------------------
(* What the rows keep, however many schedulers and requests race. *)

\* A cron instant fires a job once, whichever instances tick over it, however
\* often they restart and even after retention has deleted its run.
OneRunPerBoundary ==
  \A i, k \in RunIds :
    /\ i # k
    /\ runs[i].job = runs[k].job
    /\ runs[i].sched # NoBoundary
    => runs[i].sched # runs[k].sched

\* Retries form chains: a retry is an ad-hoc run that points back to an
\* earlier, settled run of its own job that did not complete, one attempt
\* before it, so following retry_of_run_id counts the attempts down to the
\* original run.
RetryChain ==
  \A i \in RunIds :
    IF runs[i].attempt = 0
    THEN runs[i].retryOf = NoRun
    ELSE /\ runs[i].sched = NoBoundary
         /\ runs[i].retryOf \in 1..(i - 1)
         /\ LET parent == runs[runs[i].retryOf]
            IN  /\ parent.job = runs[i].job
                /\ parent.attempt = runs[i].attempt - 1
                /\ parent.status \in {"FAILED", "CANCELLED", Deleted}

\* No chain is longer than the most generous policy allows, although the
\* settings a retry is decided with may be out of date when it is inserted.
RetryBudget ==
  \A i \in RunIds :
    runs[i].attempt > 0 =>
      \E settings \in PolicySettings : runs[i].attempt <= settings.maxRetries

\* handlers/backup_job.go:419 and services/scheduler.go:228: a job has one
\* run in flight.  True of a lone scheduler without Run Now whose counts
\* succeed; the check and the insert are not atomic.
OneInFlight ==
  \A i, k \in RunIds :
    /\ runs[i].job = runs[k].job
    /\ {runs[i].status, runs[k].status} \subseteq InFlightStatus
    => i = k

\* A failure that may be retried does not wait for ever: not with attempts
\* left, under a policy that stays enabled, with nothing in flight.
Retryable(j) ==
  /\ job[j].enabled /\ ~job[j].deleted /\ EffectivePolicy(j).enabled
  /\ ~InFlight(j)
  /\ \E i \in RunIds : /\ IsLatest(i, j)
                       /\ runs[i].status = "FAILED"
                       /\ runs[i].attempt < EffectivePolicy(j).maxRetries

RetryNotForgotten == \A j \in Jobs : []<>(~Retryable(j) \/ ~CanInsert)

-----------------------------------------------------------------------------
(* What comments in the code say of it, and the code does not do: the README *)
(* tells the counterexample of each.                                        *)

Inserted(i) == i = Len(runs) + 1 /\ i = Len(runs')

\* services/scheduler.go:153, "the failed run is still the latest (fresh
\* scheduled work wins)": no younger run of the job ever got between.
FreshWorkWins ==
  \A i \in RunIds : runs[i].retryOf # NoRun =>
    \A k \in RunIds : runs[i].retryOf < k /\ k < i => runs[k].job # runs[i].job

\* services/scheduler.go:85, "Disabled policies/jobs never retry".
DisabledNeverRetries ==
  [][\A i \in DOMAIN runs' :
        Inserted(i) /\ runs'[i].retryOf # NoRun =>
          LET j == runs'[i].job
          IN  job[j].enabled /\ EffectivePolicy(j).enabled]_vars
=============================================================================
