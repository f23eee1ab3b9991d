-------------------------- MODULE Scheduling_proofs --------------------------
(***************************************************************************)
(* Theorems about Scheduling, for any number of jobs, policies, schedulers *)
(* and Run Now requests, with or without failing statements.               *)
(*                                                                         *)
(* A tick works with what it read: the settings of the policy when it      *)
(* listed the jobs, the failed run its retry check found, the boundary its *)
(* cron check found.  TickRemembers says what of that still holds when the *)
(* tick acts on it, whatever the others did meanwhile.                     *)
(***************************************************************************)
EXTENDS Scheduling, SequenceTheorems, TLAPS

\* A run that has ended without completing.
Lapsed == {"FAILED", "CANCELLED", Deleted}

FromPolicy(w) ==
  w.eff.maxRetries > 0 =>
    \E settings \in PolicySettings : settings.maxRetries = w.eff.maxRetries

TickRemembers(s) ==
  /\ \A w \in tick[s].todo : FromPolicy(w)
  /\ tick[s].pc \in {"retry", "cron", "fire"} =>
       tick[s].work \in Work /\ FromPolicy(tick[s].work)
  /\ tick[s].pc = "retry" =>
       /\ tick[s].arg \in RunIds
       /\ runs[tick[s].arg].job = tick[s].work.job
       /\ runs[tick[s].arg].status \in Lapsed
       /\ runs[tick[s].arg].attempt < tick[s].work.eff.maxRetries
  /\ tick[s].pc = "fire" => tick[s].arg \in tick[s].work.eff.cron

\* What the rows keep.
RowsInv == OneRunPerBoundary /\ RetryChain /\ RetryBudget

IInv == TypeOK /\ RowsInv /\ \A s \in Schedulers : TickRemembers(s)

\* What a lone scheduler's guard has established when it inserts.
GuardHolds ==
  \A s \in Schedulers :
    tick[s].pc \in {"retry", "fire"} => ~InFlight(tick[s].work.job)

-----------------------------------------------------------------------------
(* What a step does to the rows: nothing inserted, or one row. *)

Keeps ==
  /\ runs' \in Seq(Run)
  /\ Len(runs') = Len(runs)
  /\ \A i \in RunIds :
       /\ runs'[i].job = runs[i].job
       /\ runs'[i].sched = runs[i].sched
       /\ runs'[i].retryOf = runs[i].retryOf
       /\ runs'[i].attempt = runs[i].attempt
       /\ runs[i].status \in Lapsed => runs'[i].status \in Lapsed
       /\ runs'[i].status \in InFlightStatus => runs[i].status \in InFlightStatus

Adds(x) == x \in Run /\ runs' = Append(runs, x)

\* A retry of a lapsed run of its job within some policy's budget, or an
\* original run for a boundary that is still free.
MayBeAdded(x) ==
  IF x.attempt = 0
  THEN x.retryOf = NoRun /\ (x.sched = NoBoundary \/ ~Conflicts(x.job, x.sched))
  ELSE /\ x.sched = NoBoundary
       /\ x.retryOf \in RunIds
       /\ LET parent == runs[x.retryOf]
          IN  /\ parent.job = x.job
              /\ parent.attempt = x.attempt - 1
              /\ parent.status \in Lapsed
       /\ \E settings \in PolicySettings : x.attempt <= settings.maxRetries

\* Rows are a sequence; a row is one of its elements.
LEMMA RowsAreRuns ==
  ASSUME TypeOK
  PROVE  Len(runs) \in Nat /\ \A i \in RunIds : runs[i] \in Run
BY ElementOfSeq, LenProperties DEF TypeOK, RunIds

\* The length of the rows after an insert, and where the new row is.
LEMMA AddedRow ==
  ASSUME TypeOK, NEW x \in Run, runs' = Append(runs, x)
  PROVE  /\ runs' \in Seq(Run)
         /\ Len(runs') = Len(runs) + 1
         /\ \A i \in RunIds : runs'[i] = runs[i]
         /\ runs'[Len(runs) + 1] = x
BY AppendProperties, RowsAreRuns DEF TypeOK, RunIds

\* A statement that inserts nothing keeps the rows in order.
LEMMA UnchangedKeeps ==
  ASSUME TypeOK, UNCHANGED runs
  PROVE  Keeps
BY RowsAreRuns DEF Keeps, TypeOK, RunIds

\* An update of one row's status keeps what the chains and the boundaries are
\* made of.
LEMMA BecomesKeeps ==
  ASSUME TypeOK, NEW i \in RunIds, NEW from, NEW to \in RowStatus,
         Becomes(i, from, to),
         to \notin InFlightStatus \/ from \subseteq InFlightStatus,
         to \in Lapsed \/ from \cap Lapsed = {}
  PROVE  Keeps
<1> DEFINE age == IF to \in {"COMPLETED", "FAILED"} THEN 0 ELSE runs[i].age
           x == [runs[i] EXCEPT !.status = to, !.age = age]
<1>1. runs[i] \in Run
  BY RowsAreRuns
<1>2. age \in {NoTime} \cup (0..RetainFor)
  <2>1. RetainFor \in Nat
    BY BoundsAssumption DEF RetainFor
  <2> QED
    BY <1>1, <2>1 DEF Run
<1>3. /\ x \in Run
      /\ x.job = runs[i].job /\ x.sched = runs[i].sched
      /\ x.retryOf = runs[i].retryOf /\ x.attempt = runs[i].attempt
      /\ x.status = to
  BY <1>1, <1>2 DEF Run
<1>4. runs' = [runs EXCEPT ![i] = x]
  BY DEF Becomes
<1> HIDE DEF x
<1>5. /\ runs' \in Seq(Run)
      /\ Len(runs') = Len(runs)
      /\ \A k \in RunIds : runs'[k] = IF k = i THEN x ELSE runs[k]
  BY <1>3, <1>4, ExceptSeq DEF TypeOK, RunIds
<1>6. runs[i].status \in from
  BY DEF Becomes
<1>7. /\ runs[i].status \in Lapsed => to \in Lapsed
      /\ to \in InFlightStatus => runs[i].status \in InFlightStatus
  BY <1>6
<1> QED
  BY <1>3, <1>5, <1>7 DEF Keeps

\* Agents, the sweep, cancels and retention only move statuses on.
LEMMA RunStepKeeps ==
  ASSUME TypeOK, NEW i \in RunIds, RunStep(i)
  PROVE  Keeps
<1>1. CASE ClaimRun(i)
  BY <1>1, BecomesKeeps
     DEF ClaimRun, Lapsed, InFlightStatus, ClaimedStatus, RowStatus,
         BackupRunStatus, Deleted
<1>2. CASE SettleRun(i)
  BY <1>2, BecomesKeeps
     DEF SettleRun, Lapsed, InFlightStatus, ClaimedStatus, RowStatus,
         BackupRunStatus, TerminalStatus, Deleted
<1>3. CASE CancelRun(i)
  BY <1>3, BecomesKeeps
     DEF CancelRun, Lapsed, InFlightStatus, ClaimedStatus, RowStatus,
         BackupRunStatus, TerminalStatus
<1>4. CASE ExpireRun(i)
  BY <1>4, BecomesKeeps
     DEF ExpireRun, Lapsed, InFlightStatus, ClaimedStatus, RowStatus, Deleted
<1> QED
  BY <1>1, <1>2, <1>3, <1>4 DEF RunStep

\* Time ages the rows.
LEMMA TimeKeeps ==
  ASSUME TypeOK, TimePasses
  PROVE  Keeps
<1> DEFINE Older(r) == [r EXCEPT !.age =
             IF r.age # NoTime /\ r.age < RetainFor THEN r.age + 1 ELSE r.age]
<1>1. RetainFor \in Nat /\ NoTime = -1
  BY BoundsAssumption DEF RetainFor, NoTime
<1>2. \A r \in Run : /\ Older(r) \in Run
                     /\ Older(r).job = r.job /\ Older(r).sched = r.sched
                     /\ Older(r).retryOf = r.retryOf
                     /\ Older(r).attempt = r.attempt
                     /\ Older(r).status = r.status
  BY <1>1 DEF Run
<1>3. runs' = [i \in 1..Len(runs) |-> Older(runs[i])]
  BY DEF TimePasses, RunIds
<1> HIDE DEF Older
<1>4. Len(runs) \in Nat /\ \A i \in 1..Len(runs) : runs[i] \in Run
  BY RowsAreRuns DEF RunIds
<1>5. runs' \in [1..Len(runs) -> Run]
  BY <1>2, <1>3, <1>4
<1>6. runs' \in Seq(Run)
  BY <1>4, <1>5, SeqDef
<1>7. Len(runs') = Len(runs)
  BY <1>4, <1>5, <1>6, LenProperties
<1> QED
  BY <1>2, <1>3, <1>4, <1>6, <1>7 DEF Keeps, RunIds
-----------------------------------------------------------------------------
(* Rows that are kept, or one that may be added, keep boundaries and chains. *)

\* A row that is kept still has its boundary, its parent and its attempts, and a
\* lapsed parent stays lapsed.
LEMMA KeepsRows ==
  ASSUME TypeOK, RowsInv, Keeps
  PROVE  RowsInv'
<1>1. Len(runs) \in Nat /\ RunIds' = RunIds
  BY RowsAreRuns DEF Keeps, RunIds
<1>2. OneRunPerBoundary'
  BY <1>1 DEF Keeps, RowsInv, OneRunPerBoundary
<1>3. RetryChain'
  <2> SUFFICES ASSUME NEW i \in RunIds, runs'[i].attempt # 0
               PROVE  /\ runs'[i].sched = NoBoundary
                      /\ runs'[i].retryOf \in 1..(i - 1)
                      /\ runs'[runs'[i].retryOf].job = runs'[i].job
                      /\ runs'[runs'[i].retryOf].attempt = runs'[i].attempt - 1
                      /\ runs'[runs'[i].retryOf].status \in Lapsed
    BY <1>1 DEF Keeps, RowsInv, RetryChain, Lapsed
  <2>1. /\ runs[i].sched = NoBoundary
        /\ runs[i].retryOf \in 1..(i - 1)
        /\ runs[runs[i].retryOf].job = runs[i].job
        /\ runs[runs[i].retryOf].attempt = runs[i].attempt - 1
        /\ runs[runs[i].retryOf].status \in Lapsed
    BY DEF Keeps, RowsInv, RetryChain, Lapsed
  <2>2. runs[i].retryOf \in RunIds
    BY <1>1, <2>1 DEF RunIds
  <2> QED
    BY <2>1, <2>2 DEF Keeps
<1>4. RetryBudget'
  BY <1>1 DEF Keeps, RowsInv, RetryBudget
<1> QED
  BY <1>2, <1>3, <1>4 DEF RowsInv

\* A row that may be added takes a free boundary, or continues a chain.
LEMMA AddsRows ==
  ASSUME TypeOK, RowsInv, NEW x, Adds(x), MayBeAdded(x)
  PROVE  RowsInv'
<1> DEFINE n == Len(runs) + 1
<1>1. Len(runs) \in Nat /\ x \in Run
  BY RowsAreRuns DEF Adds
<1>2. /\ Len(runs') = n
      /\ \A i \in RunIds : runs'[i] = runs[i]
      /\ runs'[n] = x
  BY <1>1, AddedRow DEF Adds
<1>3. RunIds' = RunIds \cup {n} /\ n \notin RunIds
  BY <1>1, <1>2 DEF RunIds
<1> HIDE DEF n
<1>4. OneRunPerBoundary'
  <2>1. \A i \in RunIds : runs[i].job = x.job /\ x.sched # NoBoundary
                            => runs[i].sched # x.sched
    <3>1. x.sched # NoBoundary => ~Conflicts(x.job, x.sched)
      BY DEF MayBeAdded
    <3> QED
      BY <3>1 DEF Conflicts
  <2> QED
    BY <1>2, <1>3, <2>1 DEF RowsInv, OneRunPerBoundary
<1>5. RetryChain'
  <2> SUFFICES ASSUME NEW i \in RunIds'
               PROVE  IF runs'[i].attempt = 0
                      THEN runs'[i].retryOf = NoRun
                      ELSE /\ runs'[i].sched = NoBoundary
                           /\ runs'[i].retryOf \in 1..(i - 1)
                           /\ LET parent == runs'[runs'[i].retryOf]
                              IN  /\ parent.job = runs'[i].job
                                  /\ parent.attempt = runs'[i].attempt - 1
                                  /\ parent.status \in Lapsed
    BY DEF RetryChain, Lapsed
  <2>1. CASE i = n
    <3>1. x.retryOf \in RunIds => x.retryOf \in 1..(n - 1)
      BY <1>1 DEF RunIds, n
    <3> QED
      BY <1>2, <2>1, <3>1 DEF MayBeAdded
  <2>2. CASE i \in RunIds
    <3>1. runs[i].attempt # 0 => runs[i].retryOf \in RunIds
      BY <1>1, <2>2 DEF RowsInv, RetryChain, RunIds
    <3> QED
      BY <1>2, <2>2, <3>1 DEF RowsInv, RetryChain, Lapsed
  <2> QED
    BY <1>3, <2>1, <2>2
<1>6. RetryBudget'
  <2>1. x.attempt > 0 =>
          \E settings \in PolicySettings : x.attempt <= settings.maxRetries
    BY <1>1 DEF MayBeAdded
  <2> QED
    BY <1>2, <1>3, <2>1 DEF RowsInv, RetryBudget
<1> QED
  BY <1>4, <1>5, <1>6 DEF RowsInv

\* What a tick remembers of the rows stays true whatever the others do.
LEMMA TickRests ==
  ASSUME TypeOK, NEW s \in Schedulers, TickRemembers(s), tick'[s] = tick[s],
         Keeps \/ \E x \in Run : Adds(x)
  PROVE  TickRemembers(s)'
<1>1. /\ RunIds \subseteq RunIds'
      /\ \A i \in RunIds : /\ runs'[i].job = runs[i].job
                           /\ runs'[i].attempt = runs[i].attempt
                           /\ runs[i].status \in Lapsed => runs'[i].status \in Lapsed
  <2>1. CASE Keeps
    BY <2>1 DEF Keeps, RunIds
  <2>2. ASSUME NEW x \in Run, Adds(x)
        PROVE  RunIds \subseteq RunIds' /\ \A i \in RunIds : runs'[i] = runs[i]
    BY <2>2, AddedRow, RowsAreRuns DEF Adds, RunIds
  <2> QED
    BY <2>1, <2>2
<1> QED
  BY <1>1 DEF TickRemembers, FromPolicy
\* One step at a time: rows kept or one added that may be, and each tick left
\* alone or looked at.
LEMMA StepInv ==
  ASSUME IInv, TypeOK',
         Keeps \/ \E x \in Run : Adds(x) /\ MayBeAdded(x),
         \A s \in Schedulers : tick'[s] = tick[s] \/ TickRemembers(s)'
  PROVE  IInv'
<1>1. RowsInv'
  BY KeepsRows, AddsRows DEF IInv
<1>2. ASSUME NEW s \in Schedulers PROVE TickRemembers(s)'
  BY TickRests DEF IInv
<1> QED
  BY <1>1, <1>2 DEF IInv

-----------------------------------------------------------------------------
(* The scheduler. *)

\* EffectivePolicy yields settings a tick can work with, and no more retries
\* than the policy it comes from.
LEMMA EffectiveTyped ==
  ASSUME TypeOK, NEW j \in Jobs
  PROVE  /\ [job |-> j, eff |-> EffectivePolicy(j)] \in Work
         /\ FromPolicy([job |-> j, eff |-> EffectivePolicy(j)])
<1> DEFINE p == job[j].policy
           own == [enabled |-> job[j].enabled, cron |-> job[j].cron,
                   maxRetries |-> 0, delay |-> DefaultDelay]
           cron == IF policy[p].settings.cron # {} THEN policy[p].settings.cron
                   ELSE job[j].cron
           e == EffectivePolicy(j)
<1>1. job[j].policy \in Policies \cup {None} /\ job[j].cron \in Crons
      /\ job[j].enabled \in BOOLEAN
  BY DEF TypeOK, JobRow
<1>2. CASE p = None \/ policy[p].deleted
  <2>1. e = own
    BY <1>2 DEF EffectivePolicy
  <2>2. own \in ResolvedPolicy
    BY <1>1, BoundsAssumption DEF ResolvedPolicy, DefaultDelay
  <2>3. own.maxRetries = 0
    OBVIOUS
  <2> QED
    BY <2>1, <2>2, <2>3 DEF FromPolicy, Work
<1>3. CASE ~(p = None \/ policy[p].deleted)
  <2>1. p \in Policies
    BY <1>1, <1>3
  <2>2. policy[p].settings \in PolicySettings
    BY <2>1 DEF TypeOK, PolicyRow
  <2>3. policy[p].settings \in ResolvedPolicy
    BY <2>2, PoliciesAssumption DEF ResolvedPolicy
  <2>4. \A st \in ResolvedPolicy, c \in Crons :
          /\ [st EXCEPT !.cron = c] \in ResolvedPolicy
          /\ [st EXCEPT !.cron = c].maxRetries = st.maxRetries
    BY DEF ResolvedPolicy
  <2>5. cron \in Crons
    BY <1>1, <2>3 DEF ResolvedPolicy
  <2>6. e = [policy[p].settings EXCEPT !.cron = cron]
    BY <1>3 DEF EffectivePolicy
  <2> HIDE DEF e, p, cron
  <2>7. e \in ResolvedPolicy /\ e.maxRetries = policy[p].settings.maxRetries
    BY <2>3, <2>4, <2>5, <2>6
  <2> QED
    BY <2>2, <2>7 DEF FromPolicy, Work, e
<1> QED
  BY <1>2, <1>3

\* The boundaries of a job under work are instants of the clock.
LEMMA WorkTyped ==
  ASSUME NEW w \in Work
  PROVE  /\ w.job \in Jobs
         /\ w.eff.maxRetries \in Nat
         /\ w.eff.cron \subseteq 1..Horizon
BY CronsAssumption DEF Work, ResolvedPolicy

\* The tick of s moves, no other does.
LEMMA TickMoves ==
  ASSUME TypeOK, NEW s \in Schedulers, NEW t \in TickState,
         tick' = [tick EXCEPT ![s] = t]
  PROVE  /\ tick' \in [Schedulers -> TickState]
         /\ tick'[s] = t
         /\ \A z \in Schedulers : z # s => tick'[z] = tick[z]
BY DEF TypeOK

\* Between ticks.
LEMMA IdleTyped == Idle \in TickState
BY BoundsAssumption DEF Idle, TickState

\* A tick lists jobs with settings some policy has.
LEMMA TickListInv ==
  ASSUME IInv, NEW s \in Schedulers, TickList(s)
  PROVE  IInv'
<1> DEFINE due == {j \in Jobs : /\ ~job[j].deleted /\ job[j].enabled
                                /\ EffectivePolicy(j).enabled}
           todo == {[job |-> j, eff |-> EffectivePolicy(j)] : j \in due}
           t == [pc |-> "next", prev |-> lastTick[s], now |-> clock,
                 todo |-> todo, work |-> NoWork, arg |-> 0]
<1>1. todo \subseteq Work /\ \A w \in todo : FromPolicy(w)
  BY EffectiveTyped DEF IInv
<1>2. tick' = [tick EXCEPT ![s] = t]
  BY DEF TickList
<1>3. lastTick[s] \in 0..Horizon /\ clock \in 0..Horizon
  BY DEF IInv, TypeOK
<1> HIDE DEF todo
<1>4. t \in TickState /\ t.pc = "next" /\ t.todo = todo
  BY <1>1, <1>3 DEF TickState
<1> HIDE DEF t
<1>5. /\ tick' \in [Schedulers -> TickState]
      /\ tick'[s] = t
      /\ \A z \in Schedulers : z # s => tick'[z] = tick[z]
  BY <1>2, <1>4, TickMoves DEF IInv
<1>6. TickRemembers(s)'
  BY <1>1, <1>4, <1>5 DEF TickRemembers, FromPolicy
<1>7. TypeOK'
  BY <1>3, <1>5 DEF TickList, IInv, TypeOK, config
<1>8. Keeps
  BY UnchangedKeeps DEF TickList, IInv
<1> QED
  BY <1>5, <1>6, <1>7, <1>8, StepInv
\* A tick that failed to list, ended or was lost remembers nothing.
LEMMA IdleInv ==
  ASSUME IInv, NEW s \in Schedulers,
         TickListFails(s) \/ TickEnds(s) \/ SchedulerRestart(s)
  PROVE  IInv'
<1>1. tick' = tick \/ tick' = [tick EXCEPT ![s] = Idle]
  BY DEF TickListFails, TickEnds, SchedulerRestart
<1>2. /\ tick' \in [Schedulers -> TickState]
      /\ \A z \in Schedulers : tick'[z] = tick[z] \/ tick'[z] = Idle
  BY <1>1, IdleTyped, TickMoves DEF IInv, TypeOK
<1>3. \A z \in Schedulers : tick'[z] = Idle => TickRemembers(z)'
  BY DEF TickRemembers, Idle
<1>4. TypeOK'
  <2>1. lastTick' \in [Schedulers -> 0..Horizon] /\ restarts' \in 0..MaxRestarts
    BY BoundsAssumption
       DEF TickListFails, TickEnds, SchedulerRestart, IInv, TypeOK
  <2> QED
    BY <1>2, <2>1 DEF TickListFails, TickEnds, SchedulerRestart, IInv, TypeOK,
                      config
<1>5. Keeps
  BY UnchangedKeeps DEF TickListFails, TickEnds, SchedulerRestart, IInv
<1> QED
  BY <1>2, <1>3, <1>4, <1>5, StepInv

\* The retry check remembers a failed run of the job with attempts left.
LEMMA RetryCheckInv ==
  ASSUME IInv, NEW s \in Schedulers, RetryCheck(s)
  PROVE  IInv'
<1>1. PICK w \in tick[s].todo, pc \in {"retry", "cron"}, arg \in {0} \cup RunIds :
        /\ pc = "retry" => arg \in RunIds /\ MayRetry(arg, w)
        /\ tick' = [tick EXCEPT ![s].pc = pc, ![s].work = w, ![s].arg = arg,
                                ![s].todo = @ \ {w}]
  BY DEF RetryCheck
<1> DEFINE t == [tick[s] EXCEPT !.pc = pc, !.work = w, !.arg = arg,
                                !.todo = @ \ {w}]
<1>2. tick[s] \in TickState /\ w \in Work /\ arg \in Nat
  BY <1>1, RowsAreRuns DEF IInv, TypeOK, TickState, RunIds
<1>3. /\ t \in TickState
      /\ t.pc = pc /\ t.work = w /\ t.arg = arg /\ t.todo = tick[s].todo \ {w}
  BY <1>2 DEF TickState
<1>4. tick' = [tick EXCEPT ![s] = t]
  BY <1>1
<1> HIDE DEF t
<1>5. /\ tick' \in [Schedulers -> TickState]
      /\ tick'[s] = t
      /\ \A z \in Schedulers : z # s => tick'[z] = tick[z]
  BY <1>3, <1>4, TickMoves DEF IInv
<1>6. TypeOK' /\ Keeps /\ runs' = runs
  BY <1>5, UnchangedKeeps DEF RetryCheck, IInv, TypeOK, config
<1>7. pc = "retry" => /\ runs[arg].job = w.job
                      /\ runs[arg].status \in Lapsed
                      /\ runs[arg].attempt < w.eff.maxRetries
  BY <1>1 DEF MayRetry, IsLatest, Rows, Lapsed
<1>8. \A x \in tick[s].todo : FromPolicy(x)
  BY DEF IInv, TickRemembers
<1>9. TickRemembers(s)'
  BY <1>1, <1>2, <1>3, <1>5, <1>6, <1>7, <1>8
     DEF TickRemembers, FromPolicy, RunIds
<1> QED
  BY <1>5, <1>6, <1>9, StepInv

\* A new row is well formed.
LEMMA NewRunTyped ==
  ASSUME NEW j \in Jobs, NEW sched \in 0..Horizon, NEW retryOf \in Nat,
         NEW attempt \in Nat
  PROVE  /\ NewRun(j, sched, retryOf, attempt) \in Run
         /\ NewRun(j, sched, retryOf, attempt).job = j
         /\ NewRun(j, sched, retryOf, attempt).sched = sched
         /\ NewRun(j, sched, retryOf, attempt).retryOf = retryOf
         /\ NewRun(j, sched, retryOf, attempt).attempt = attempt
         /\ NewRun(j, sched, retryOf, attempt).status = "PENDING"
BY DEF NewRun, Run, RowStatus, BackupRunStatus, InFlightStatus, NoTime

\* The retry inserted is one attempt after the run the tick remembers.
LEMMA RetryInsertInv ==
  ASSUME IInv, NEW s \in Schedulers, RetryInsert(s)
  PROVE  IInv'
<1> DEFINE i == tick[s].arg
           w == tick[s].work
           x == NewRun(w.job, NoBoundary, i, runs[i].attempt + 1)
           t == [tick[s] EXCEPT !.pc = "cron", !.arg = 0]
<1>1. /\ tick[s].pc = "retry" /\ TickRemembers(s)
      /\ tick' = [tick EXCEPT ![s] = t]
      /\ runs' = Append(runs, x) \/ runs' = runs
  BY DEF RetryInsert, IInv
<1>2. /\ w \in Work /\ FromPolicy(w) /\ i \in RunIds
      /\ runs[i].job = w.job /\ runs[i].status \in Lapsed
      /\ runs[i].attempt < w.eff.maxRetries
  BY <1>1 DEF TickRemembers
<1>3. i \in Nat /\ runs[i] \in Run /\ runs[i].attempt \in Nat
  BY <1>2, RowsAreRuns DEF IInv, RunIds, Run
<1>4. tick[s] \in TickState
  BY DEF IInv, TypeOK
<1>5. t \in TickState /\ t.pc = "cron" /\ t.todo = tick[s].todo /\ t.work = w
  BY <1>4 DEF TickState
<1>6. /\ x \in Run
      /\ x.job = w.job /\ x.sched = NoBoundary /\ x.retryOf = i
      /\ x.attempt = runs[i].attempt + 1
  <2>1. NoBoundary \in 0..Horizon
    BY BoundsAssumption DEF NoBoundary
  <2>2. w.job \in Jobs /\ runs[i].attempt + 1 \in Nat
    BY <1>2, <1>3, WorkTyped
  <2> HIDE DEF i, w
  <2> QED
    BY <1>3, <2>1, <2>2, NewRunTyped
<1> HIDE DEF t, x
<1>7. /\ tick' \in [Schedulers -> TickState]
      /\ tick'[s] = t
      /\ \A z \in Schedulers : z # s => tick'[z] = tick[z]
  BY <1>1, <1>5, TickMoves DEF IInv
<1>8. MayBeAdded(x)
  <2>1. w.eff.maxRetries \in Nat /\ w.eff.maxRetries > 0
    BY <1>2, <1>3, WorkTyped
  <2>2. \E settings \in PolicySettings : runs[i].attempt + 1 <= settings.maxRetries
    BY <1>2, <1>3, <2>1 DEF FromPolicy
  <2> QED
    BY <1>2, <1>3, <1>6, <2>2 DEF MayBeAdded
<1>9. Keeps \/ \E y \in Run : Adds(y) /\ MayBeAdded(y)
  BY <1>1, <1>6, <1>8, UnchangedKeeps DEF Adds, IInv
<1>10. runs' \in Seq(Run)
  BY <1>1, <1>6, AddedRow DEF IInv, TypeOK
<1>11. TypeOK'
  BY <1>7, <1>10 DEF RetryInsert, IInv, TypeOK, config
<1>12. TickRemembers(s)'
  BY <1>1, <1>2, <1>5, <1>7 DEF TickRemembers, FromPolicy
<1> QED
  BY <1>7, <1>9, <1>11, <1>12, StepInv
\* The cron check remembers an instant of the job's expression.
LEMMA CronCheckInv ==
  ASSUME IInv, NEW s \in Schedulers, CronCheck(s)
  PROVE  IInv'
<1> DEFINE w == tick[s].work
           fire(b) == [tick[s] EXCEPT !.pc = "fire", !.arg = b]
           next == [tick[s] EXCEPT !.pc = "next"]
<1>1. /\ tick[s].pc = "cron" /\ TickRemembers(s)
      /\ \/ \E b \in w.eff.cron : tick' = [tick EXCEPT ![s] = fire(b)]
         \/ tick' = [tick EXCEPT ![s] = next]
  BY DEF CronCheck, IInv
<1>2. w \in Work /\ FromPolicy(w) /\ tick[s] \in TickState
  BY <1>1 DEF TickRemembers, IInv, TypeOK
<1>3. w.eff.cron \subseteq Nat
  BY <1>2, WorkTyped
<1>4. /\ next \in TickState
      /\ next.pc = "next" /\ next.todo = tick[s].todo /\ next.work = w
  BY <1>2 DEF TickState
<1>5. ASSUME NEW b \in w.eff.cron
      PROVE  /\ fire(b) \in TickState
             /\ fire(b).pc = "fire" /\ fire(b).arg = b
             /\ fire(b).todo = tick[s].todo /\ fire(b).work = w
  BY <1>2, <1>3 DEF TickState
<1> HIDE DEF fire, next
<1>6. PICK t \in TickState :
        /\ tick' = [tick EXCEPT ![s] = t]
        /\ t.todo = tick[s].todo /\ t.work = w
        /\ t.pc = "next" \/ (t.pc = "fire" /\ t.arg \in w.eff.cron)
  BY <1>1, <1>4, <1>5
<1>7. /\ tick' \in [Schedulers -> TickState]
      /\ tick'[s] = t
      /\ \A z \in Schedulers : z # s => tick'[z] = tick[z]
  BY <1>6, TickMoves DEF IInv
<1>8. TypeOK' /\ Keeps
  BY <1>7, UnchangedKeeps DEF CronCheck, IInv, TypeOK, config
<1>9. TickRemembers(s)'
  BY <1>1, <1>2, <1>6, <1>7 DEF TickRemembers, FromPolicy
<1> QED
  BY <1>7, <1>8, <1>9, StepInv

\* The index lets the row of a boundary in only when it is the first.
LEMMA FireInsertInv ==
  ASSUME IInv, NEW s \in Schedulers, FireInsert(s)
  PROVE  IInv'
<1> DEFINE b == tick[s].arg
           w == tick[s].work
           x == NewRun(w.job, b, NoRun, 0)
           t == [tick[s] EXCEPT !.pc = "next", !.arg = 0]
<1>1. /\ tick[s].pc = "fire" /\ TickRemembers(s)
      /\ tick' = [tick EXCEPT ![s] = t]
      /\ \/ runs' = Append(runs, x) /\ ~Conflicts(w.job, b)
         \/ runs' = runs
  BY DEF FireInsert, IInv
<1>2. w \in Work /\ b \in w.eff.cron /\ tick[s] \in TickState
  BY <1>1 DEF TickRemembers, IInv, TypeOK
<1>3. t \in TickState /\ t.pc = "next" /\ t.todo = tick[s].todo
  BY <1>2 DEF TickState
<1>4. b \in 0..Horizon /\ w.job \in Jobs
  <2>1. b \in 1..Horizon /\ w.job \in Jobs
    BY <1>2, WorkTyped
  <2> QED
    BY <2>1
<1>5. /\ x \in Run
      /\ x.job = w.job /\ x.sched = b /\ x.retryOf = NoRun /\ x.attempt = 0
  BY <1>4, NewRunTyped DEF NoRun
<1> HIDE DEF t, x
<1>6. /\ tick' \in [Schedulers -> TickState]
      /\ tick'[s] = t
      /\ \A z \in Schedulers : z # s => tick'[z] = tick[z]
  BY <1>1, <1>3, TickMoves DEF IInv
<1>7. Keeps \/ \E y \in Run : Adds(y) /\ MayBeAdded(y)
  BY <1>1, <1>5, UnchangedKeeps DEF Adds, MayBeAdded, IInv
<1>8. runs' \in Seq(Run)
  BY <1>1, <1>5, AddedRow DEF IInv, TypeOK
<1>9. TypeOK'
  BY <1>6, <1>8 DEF FireInsert, IInv, TypeOK, config
<1>10. TickRemembers(s)'
  BY <1>1, <1>3, <1>6 DEF TickRemembers, FromPolicy
<1> QED
  BY <1>6, <1>7, <1>9, <1>10, StepInv

\* Every step of a scheduler.
LEMMA SchedulerInv ==
  ASSUME IInv, NEW s \in Schedulers, SchedulerStep(s)
  PROVE  IInv'
BY TickListInv, IdleInv, RetryCheckInv, RetryInsertInv, CronCheckInv,
   FireInsertInv DEF SchedulerStep

-----------------------------------------------------------------------------
(* Operators, edits and what becomes of the rows. *)

\* Run Now inserts an original run without a boundary.
LEMMA OperatorInv ==
  ASSUME IInv, NEW u \in Operators, OperatorStep(u)
  PROVE  IInv'
<1>1. CASE \E j \in Jobs : RunNowCheck(u, j)
  <2>1. TypeOK' /\ Keeps /\ tick' = tick
    BY <1>1, UnchangedKeeps DEF RunNowCheck, IInv, TypeOK, config
  <2> QED
    BY <2>1, StepInv
<1>2. CASE RunNowInsert(u)
  <2> DEFINE x == NewRun(runNow[u], NoBoundary, NoRun, 0)
  <2>1. runNow[u] \in Jobs
    BY <1>2 DEF RunNowInsert, IInv, TypeOK
  <2>2. x \in Run /\ x.sched = NoBoundary /\ x.retryOf = NoRun /\ x.attempt = 0
    BY <2>1, NewRunTyped, BoundsAssumption DEF NoRun, NoBoundary
  <2>3. runs' = Append(runs, x) \/ runs' = runs
    BY <1>2 DEF RunNowInsert
  <2> HIDE DEF x
  <2>4. Keeps \/ \E y \in Run : Adds(y) /\ MayBeAdded(y)
    BY <2>2, <2>3, UnchangedKeeps DEF Adds, MayBeAdded, IInv
  <2>5. runs' \in Seq(Run)
    BY <2>2, <2>3, AddedRow DEF IInv, TypeOK
  <2>6. TypeOK' /\ tick' = tick
    BY <1>2, <2>5 DEF RunNowInsert, IInv, TypeOK, config
  <2> QED
    BY <2>4, <2>6, StepInv
<1> QED
  BY <1>1, <1>2 DEF OperatorStep

\* Edits of a job's row keep its shape.
LEMMA JobRowTyped ==
  ASSUME NEW row \in JobRow
  PROVE  /\ \A enabled \in BOOLEAN : [row EXCEPT !.enabled = enabled] \in JobRow
         /\ \A cron \in Crons : [row EXCEPT !.cron = cron] \in JobRow
         /\ \A p \in Policies \cup {None} : [row EXCEPT !.policy = p] \in JobRow
         /\ [row EXCEPT !.deleted = TRUE] \in JobRow
BY DEF JobRow

\* Edits of a policy's row keep its shape.
LEMMA PolicyRowTyped ==
  ASSUME NEW row \in PolicyRow
  PROVE  /\ \A settings \in PolicySettings :
              [row EXCEPT !.settings = settings] \in PolicyRow
         /\ [row EXCEPT !.deleted = TRUE] \in PolicyRow
BY DEF PolicyRow

\* Edits change neither rows nor ticks: a tick goes on with what it listed.
LEMMA EditInv ==
  ASSUME IInv, EditStep
  PROVE  IInv'
<1>1. UNCHANGED <<runs, clock, lastTick, tick, runNow, restarts>>
  BY DEF EditStep, SetEnabled, SetSchedule, AttachPolicy, DeleteJob, EditJob,
         UpdatePolicy, DetachPolicy, DeletePolicy
<1>2. edits' \in 0..MaxEdits
  <2>1. edits' = edits \/ (edits < MaxEdits /\ edits' = edits + 1)
    BY DEF EditStep, SetEnabled, SetSchedule, AttachPolicy, DeleteJob, EditJob,
           UpdatePolicy, DetachPolicy, DeletePolicy, Edit
  <2> QED
    BY <2>1, BoundsAssumption DEF IInv, TypeOK
<1>3. \A j \in Jobs : job[j] \in JobRow
  BY DEF IInv, TypeOK
<1>4. \A p \in Policies : policy[p] \in PolicyRow
  BY DEF IInv, TypeOK
<1>5. /\ job' \in [Jobs -> JobRow] /\ policy' \in [Policies -> PolicyRow]
      /\ deleting' \subseteq Policies
  <2>1. ASSUME NEW j \in Jobs, NEW row \in JobRow, EditJob(j, row)
        PROVE  <1>5
    BY <2>1 DEF EditJob, IInv, TypeOK
  <2>2. ASSUME NEW j \in Jobs, NEW enabled \in BOOLEAN, SetEnabled(j, enabled)
        PROVE  <1>5
    BY <1>3, <2>1, <2>2, JobRowTyped DEF SetEnabled, JobRow
  <2>3. ASSUME NEW j \in Jobs, NEW cron \in Crons, SetSchedule(j, cron)
        PROVE  <1>5
    BY <1>3, <2>1, <2>3, JobRowTyped DEF SetSchedule
  <2>4. ASSUME NEW j \in Jobs, NEW p \in Policies, AttachPolicy(j, p)
        PROVE  <1>5
    BY <1>3, <2>1, <2>4, JobRowTyped DEF AttachPolicy
  <2>5. ASSUME NEW j \in Jobs, DeleteJob(j)
        PROVE  <1>5
    BY <1>3, <2>1, <2>5, JobRowTyped DEF DeleteJob
  <2>6. ASSUME NEW p \in Policies, NEW settings \in PolicySettings,
               UpdatePolicy(p, settings)
        PROVE  <1>5
    <3> DEFINE row == [policy[p] EXCEPT !.settings = settings]
    <3>1. row \in PolicyRow
      BY <1>4, PolicyRowTyped
    <3>2. policy' = [policy EXCEPT ![p] = row]
      BY <2>6 DEF UpdatePolicy
    <3> HIDE DEF row
    <3> QED
      BY <2>6, <3>1, <3>2 DEF UpdatePolicy, IInv, TypeOK
  <2>7. ASSUME NEW p \in Policies, DetachPolicy(p)
        PROVE  <1>5
    <3>1. \A j \in Jobs : [job[j] EXCEPT !.policy = None] \in JobRow
      BY <1>3, JobRowTyped
    <3>2. job' \in [Jobs -> JobRow]
      BY <1>3, <2>7, <3>1 DEF DetachPolicy
    <3> QED
      BY <2>7, <3>2 DEF DetachPolicy, IInv, TypeOK
  <2>8. ASSUME NEW p \in Policies, DeletePolicy(p)
        PROVE  <1>5
    <3>1. policy' = [policy EXCEPT ![p] = [@ EXCEPT !.deleted = TRUE]]
      BY <2>8 DEF DeletePolicy
    <3> QED
      BY <1>4, <2>8, <3>1, PolicyRowTyped DEF DeletePolicy, IInv, TypeOK
  <2> QED
    BY <2>2, <2>3, <2>4, <2>5, <2>6, <2>7, <2>8 DEF EditStep
<1>6. TypeOK' /\ Keeps
  BY <1>1, <1>2, <1>5, UnchangedKeeps DEF IInv, TypeOK
<1> QED
  BY <1>1, <1>6, StepInv
\* Statuses and time move rows on; no tick takes part.
LEMMA RowsMoveInv ==
  ASSUME IInv, (\E i \in RunIds : RunStep(i)) \/ TimePasses
  PROVE  IInv'
<1>1. Keeps
  BY RunStepKeeps, TimeKeeps DEF IInv
<1>2. UNCHANGED <<config, lastTick, tick, runNow, restarts>>
  BY DEF RunStep, ClaimRun, SettleRun, CancelRun, ExpireRun, Becomes, TimePasses
<1>3. clock' \in 0..Horizon
  <2>1. clock' = clock \/ (clock < Horizon /\ clock' = clock + 1)
    BY DEF RunStep, ClaimRun, SettleRun, CancelRun, ExpireRun, Becomes, TimePasses
  <2> QED
    BY <2>1, BoundsAssumption DEF IInv, TypeOK
<1>4. TypeOK'
  BY <1>1, <1>2, <1>3 DEF Keeps, IInv, TypeOK, config
<1> QED
  BY <1>1, <1>2, <1>4, StepInv

-----------------------------------------------------------------------------
(* The invariant, and what follows from it. *)

\* Nothing has been inserted, no tick is under way.
LEMMA InitInv == Init => IInv
<1> SUFFICES ASSUME Init PROVE IInv
  OBVIOUS
<1>1. runs = <<>> /\ Len(runs) = 0 /\ runs \in Seq(Run) /\ RunIds = {}
  BY EmptySeq DEF Init, RunIds
<1>2. TypeOK
  <2>1. /\ clock \in 0..Horizon /\ restarts \in 0..MaxRestarts
        /\ edits \in 0..MaxEdits
        /\ lastTick \in [Schedulers -> 0..Horizon]
    BY BoundsAssumption DEF Init
  <2>2. tick \in [Schedulers -> TickState]
    BY IdleTyped DEF Init
  <2> QED
    BY <1>1, <2>1, <2>2 DEF Init, TypeOK
<1>3. RowsInv
  BY <1>1 DEF RowsInv, OneRunPerBoundary, RetryChain, RetryBudget
<1>4. \A s \in Schedulers : TickRemembers(s)
  BY DEF Init, Idle, TickRemembers
<1> QED
  BY <1>2, <1>3, <1>4 DEF IInv

\* Every step keeps the invariant.
LEMMA NextInv == IInv /\ [Next]_vars => IInv'
<1> SUFFICES ASSUME IInv, [Next]_vars PROVE IInv'
  OBVIOUS
<1>1. CASE UNCHANGED vars
  <2>1. TypeOK' /\ Keeps /\ tick' = tick
    BY <1>1, UnchangedKeeps DEF vars, IInv, TypeOK
  <2> QED
    BY <2>1, StepInv
<1> QED
  BY <1>1, SchedulerInv, OperatorInv, EditInv, RowsMoveInv DEF Next

\* The invariant holds in every reachable state.
LEMMA Invariance == Spec => []IInv
BY InitInv, NextInv, PTL DEF Spec

\* Jobs, policies, rows and ticks keep their shape through every edit, restart
\* and failed statement.
THEOREM TypeInvariant == Spec => []TypeOK
<1>1. IInv => TypeOK
  BY DEF IInv
<1> QED
  BY <1>1, Invariance, PTL

\* Any number of instances of the server fire a boundary of a job once.
THEOREM Boundaries == Spec => []OneRunPerBoundary
<1>1. IInv => OneRunPerBoundary
  BY DEF IInv, RowsInv
<1> QED
  BY <1>1, Invariance, PTL

\* A retry points at a lapsed run of its job, one attempt before it.
THEOREM Chains == Spec => []RetryChain
<1>1. IInv => RetryChain
  BY DEF IInv, RowsInv
<1> QED
  BY <1>1, Invariance, PTL

\* No retry goes past what some policy allows.
THEOREM Budget == Spec => []RetryBudget
<1>1. IInv => RetryBudget
  BY DEF IInv, RowsInv
<1> QED
  BY <1>1, Invariance, PTL

-----------------------------------------------------------------------------
(* The guard "one run in flight", where it can be relied on: one scheduler, *)
(* no Run Now, statements that do not fail.                                 *)

\* What a lone scheduler keeps.
LoneInv == OneInFlight /\ GuardHolds

\* Rows that are kept are in flight only if they were before.
LEMMA KeepsFlight ==
  ASSUME TypeOK, Keeps
  PROVE  /\ OneInFlight => OneInFlight'
         /\ \A j \in Jobs : ~InFlight(j) => ~InFlight(j)'
<1>1. RunIds' = RunIds
  BY RowsAreRuns DEF Keeps, RunIds
<1>2. OneInFlight => OneInFlight'
  BY <1>1 DEF Keeps, OneInFlight
<1>3. \A j \in Jobs : ~InFlight(j) => ~InFlight(j)'
  BY <1>1 DEF Keeps, InFlight
<1> QED
  BY <1>2, <1>3

\* A row added for a job with nothing in flight is the one that is.
LEMMA AddsFlight ==
  ASSUME TypeOK, OneInFlight, NEW x, Adds(x), ~InFlight(x.job)
  PROVE  OneInFlight'
<1>1. Len(runs) \in Nat /\ x \in Run
  BY RowsAreRuns DEF Adds
<1>2. /\ RunIds' = RunIds \cup {Len(runs) + 1}
      /\ \A i \in RunIds : runs'[i] = runs[i]
      /\ runs'[Len(runs) + 1] = x
  BY <1>1, AddedRow DEF Adds, RunIds
<1> QED
  BY <1>2 DEF OneInFlight, InFlight

\* A lone scheduler whose counts succeed never puts a second run in flight.
THEOREM Alone ==
  ASSUME Operators = {}, ~StatementsFail,
         \A s, t \in Schedulers : s = t
  PROVE  Spec => []OneInFlight
<1>1. Init => LoneInv
  BY DEF Init, Idle, LoneInv, OneInFlight, GuardHolds, RunIds
<1>2. IInv /\ LoneInv /\ [Next]_vars => LoneInv'
  <2> SUFFICES ASSUME IInv, LoneInv, [Next]_vars
               PROVE  LoneInv'
    OBVIOUS
  <2> USE DEF LoneInv
  <2>1. ASSUME Keeps,
               \A s \in Schedulers : tick'[s].pc \in {"retry", "fire"} =>
                 ~InFlight(tick'[s].work.job) /\ tick'[s].work \in Work
        PROVE  LoneInv'
    <3>1. OneInFlight'
      BY <2>1, KeepsFlight DEF IInv
    <3>2. ASSUME NEW s \in Schedulers, tick'[s].pc \in {"retry", "fire"}
          PROVE  ~InFlight(tick[s].work.job)'
      BY <2>1, <3>2, KeepsFlight, WorkTyped DEF IInv, InFlight
    <3> QED
      BY <3>1, <3>2 DEF GuardHolds
  <2>2. ASSUME UNCHANGED tick, Keeps
        PROVE  LoneInv'
    BY <2>1, <2>2 DEF GuardHolds, IInv, TickRemembers
  <2>3. ASSUME NEW s \in Schedulers, NEW t \in TickState,
               tick' = [tick EXCEPT ![s] = t], UNCHANGED runs,
               t.pc \in {"retry", "fire"} => ~InFlight(t.work.job) /\ t.work \in Work
        PROVE  LoneInv'
    <3>1. tick'[s] = t /\ \A z \in Schedulers : z = s
      BY <2>3, TickMoves DEF IInv
    <3> QED
      BY <2>1, <2>3, <3>1, UnchangedKeeps DEF IInv
  <2>4. ASSUME NEW s \in Schedulers, NEW pc \in {"cron", "next"},
               tick' = [tick EXCEPT ![s].pc = pc, ![s].arg = 0],
               tick[s].pc \in {"retry", "fire"},
               NEW x \in Run, x.job = tick[s].work.job,
               runs' = Append(runs, x) \/ runs' = runs
        PROVE  LoneInv'
    <3> DEFINE t == [tick[s] EXCEPT !.pc = pc, !.arg = 0]
    <3>1. tick' = [tick EXCEPT ![s] = t] /\ tick[s] \in TickState
      BY <2>4 DEF IInv, TypeOK
    <3>2. t \in TickState /\ t.pc \notin {"retry", "fire"}
      BY <3>1 DEF TickState
    <3> HIDE DEF t
    <3>3. tick'[s] = t /\ \A z \in Schedulers : z = s
      BY <3>1, <3>2, TickMoves DEF IInv
    <3>4. GuardHolds'
      BY <3>2, <3>3 DEF GuardHolds
    <3>5. ~InFlight(x.job)
      BY <2>4 DEF GuardHolds
    <3>6. OneInFlight'
      BY <2>4, <3>5, AddsFlight, KeepsFlight, UnchangedKeeps DEF Adds, IInv
    <3> QED
      BY <3>4, <3>6
  <2>5. ASSUME NEW s \in Schedulers, TickList(s)
        PROVE  LoneInv'
    <3>1. tick'[s].pc = "next" /\ \A z \in Schedulers : z = s
      BY <2>5 DEF TickList, IInv, TypeOK
    <3> QED
      BY <2>1, <2>5, <3>1, UnchangedKeeps DEF TickList, IInv
  <2>6. ASSUME NEW s \in Schedulers, TickListFails(s)
        PROVE  LoneInv'
    BY <2>2, <2>6, UnchangedKeeps DEF TickListFails, IInv
  <2>7. ASSUME NEW s \in Schedulers, TickEnds(s) \/ SchedulerRestart(s)
        PROVE  LoneInv'
    BY <2>3, <2>7, IdleTyped DEF TickEnds, SchedulerRestart, Idle
  <2>8. ASSUME NEW s \in Schedulers, RetryCheck(s)
        PROVE  LoneInv'
    <3>1. PICK w \in tick[s].todo, pc \in {"retry", "cron"}, arg \in {0} \cup RunIds :
            /\ pc = "retry" => ~InFlight(w.job)
            /\ tick' = [tick EXCEPT ![s].pc = pc, ![s].work = w, ![s].arg = arg,
                                    ![s].todo = @ \ {w}]
      BY <2>8 DEF RetryCheck, MayRetry
    <3> DEFINE t == [tick[s] EXCEPT !.pc = pc, !.work = w, !.arg = arg,
                                    !.todo = @ \ {w}]
    <3>2. tick[s] \in TickState /\ w \in Work /\ arg \in Nat
      BY <3>1, RowsAreRuns DEF IInv, TypeOK, TickState, RunIds
    <3>3. t \in TickState /\ t.pc = pc /\ t.work = w
      BY <3>2 DEF TickState
    <3>4. tick' = [tick EXCEPT ![s] = t]
      BY <3>1
    <3> HIDE DEF t
    <3> QED
      BY <2>3, <2>8, <3>1, <3>2, <3>3, <3>4 DEF RetryCheck
  <2>9. ASSUME NEW s \in Schedulers, CronCheck(s)
        PROVE  LoneInv'
    <3> DEFINE w == tick[s].work
    <3>1. PICK pc \in {"fire", "next"}, arg \in w.eff.cron \cup {tick[s].arg} :
            /\ pc = "fire" => ~InFlight(w.job)
            /\ tick' = [tick EXCEPT ![s].pc = pc, ![s].arg = arg]
      <4>1. CASE /\ InFlight(w.job) \/ \A b \in w.eff.cron :
                       ~Boundary(w.eff.cron, tick[s].prev, tick[s].now, b)
                 /\ tick' = [tick EXCEPT ![s].pc = "next"]
        <5>1. tick' = [tick EXCEPT ![s].pc = "next", ![s].arg = tick[s].arg]
          BY <4>1 DEF IInv, TypeOK, TickState
        <5> QED
          BY <5>1
      <4> QED
        BY <2>9, <4>1 DEF CronCheck
    <3> DEFINE t == [tick[s] EXCEPT !.pc = pc, !.arg = arg]
    <3>2. tick[s] \in TickState /\ w \in Work
      BY <2>9 DEF CronCheck, IInv, TypeOK, TickRemembers
    <3>3. arg \in Nat
      BY <3>1, <3>2, WorkTyped DEF TickState
    <3>4. t \in TickState /\ t.pc = pc /\ t.work = w
      BY <3>2, <3>3 DEF TickState
    <3>5. tick' = [tick EXCEPT ![s] = t]
      BY <3>1
    <3> HIDE DEF t
    <3> QED
      BY <2>3, <2>9, <3>1, <3>2, <3>4, <3>5 DEF CronCheck
  <2>10. ASSUME NEW s \in Schedulers, RetryInsert(s)
         PROVE  LoneInv'
    <3> DEFINE i == tick[s].arg
               x == NewRun(tick[s].work.job, NoBoundary, i, runs[i].attempt + 1)
    <3>1. tick[s].work \in Work /\ i \in RunIds
      BY <2>10 DEF RetryInsert, IInv, TickRemembers
    <3>2. i \in Nat /\ runs[i].attempt \in Nat
      BY <3>1, RowsAreRuns DEF IInv, RunIds, Run
    <3>3. x \in Run /\ x.job = tick[s].work.job
      <4>1. NoBoundary \in 0..Horizon
        BY BoundsAssumption DEF NoBoundary
      <4>2. tick[s].work.job \in Jobs /\ runs[i].attempt + 1 \in Nat
        BY <3>1, <3>2, WorkTyped
      <4> HIDE DEF i
      <4> QED
        BY <3>2, <4>1, <4>2, NewRunTyped
    <3>4. runs' = Append(runs, x) \/ runs' = runs
      BY <2>10 DEF RetryInsert
    <3> HIDE DEF x
    <3> QED
      BY <2>4, <2>10, <3>3, <3>4 DEF RetryInsert
  <2>11. ASSUME NEW s \in Schedulers, FireInsert(s)
         PROVE  LoneInv'
    <3> DEFINE b == tick[s].arg
               x == NewRun(tick[s].work.job, b, NoRun, 0)
    <3>1. tick[s].work \in Work /\ b \in 1..Horizon
      BY <2>11, WorkTyped DEF FireInsert, IInv, TickRemembers
    <3>2. b \in 0..Horizon
      BY <3>1
    <3>3. x \in Run /\ x.job = tick[s].work.job
      BY <3>1, <3>2, WorkTyped, NewRunTyped DEF NoRun
    <3>4. runs' = Append(runs, x) \/ runs' = runs
      BY <2>11 DEF FireInsert
    <3> HIDE DEF x
    <3> QED
      BY <2>4, <2>11, <3>3, <3>4 DEF FireInsert
  <2>12. ASSUME EditStep \/ (\E i \in RunIds : RunStep(i)) \/ TimePasses
                  \/ UNCHANGED vars
         PROVE  LoneInv'
    <3>1. UNCHANGED tick
      BY <2>12 DEF EditStep, SetEnabled, SetSchedule, AttachPolicy, DeleteJob,
           EditJob, UpdatePolicy, DetachPolicy, DeletePolicy, RunStep, ClaimRun,
           SettleRun, CancelRun, ExpireRun, Becomes, TimePasses, vars
    <3>2. EditStep \/ UNCHANGED vars => UNCHANGED runs
      BY DEF EditStep, SetEnabled, SetSchedule, AttachPolicy, DeleteJob,
           EditJob, UpdatePolicy, DetachPolicy, DeletePolicy, vars
    <3>3. Keeps
      BY <2>12, <3>2, RunStepKeeps, TimeKeeps, UnchangedKeeps DEF IInv
    <3> QED
      BY <2>2, <3>1, <3>3
  <2> QED
    BY <2>5, <2>6, <2>7, <2>8, <2>9, <2>10, <2>11, <2>12
       DEF Next, SchedulerStep
<1>3. IInv /\ LoneInv => OneInFlight
  BY DEF LoneInv
<1> QED
  BY <1>1, <1>2, <1>3, Invariance, PTL DEF Spec
=============================================================================
