------------------------------- MODULE Alerts -------------------------------
(***************************************************************************)
(* The alert table and everybody who writes it: RaiseAlert, coalesceFiring *)
(* and ResolveAlerts (services/alerts.go), called from the health          *)
(* monitor's tick (services/health_monitor.go), from the reports of runs   *)
(* (handlers/backup_run.go) and from the gRPC stream's Connect, and the    *)
(* dashboard's Ack and Resolve (handlers/alert.go).                        *)
(*                                                                         *)
(* No call runs in a transaction: each SELECT and each UPDATE is an action *)
(* and call[t] keeps what thread t has read.  Only the partial unique      *)
(* index of migration 000013 holds two raises of one key apart.            *)
(*                                                                         *)
(* Bounds: occurrence_count saturates at MaxOcc, last_seen_at is an age    *)
(* that stops at SilentCap, and Forget reuses the identity of closed rows. *)
(***************************************************************************)
EXTENDS Integers, FiniteSets

CONSTANTS
  Agents, Jobs, Runs,
  Ids,           \* identities of alert rows
  Monitor,       \* the health monitor's goroutine
  Handlers,      \* goroutines of requests that raise or resolve
  OfflineAfter,  \* the organisation's offline_threshold_minutes, in ticks
  RecoverAfter,  \* checkAgents' fixed 3 minutes, in ticks
  SilentCap,     \* bound: ages of last_seen_at that are told apart
  MaxOcc         \* bound of the occurrence counters

ASSUME AgeAssumption ==
  /\ RecoverAfter \in Nat \ {0} /\ MaxOcc \in Nat \ {0} /\ SilentCap \in Nat
  /\ OfflineAfter \in 1..SilentCap /\ RecoverAfter <= SilentCap
ASSUME MonitorAssumption == Monitor \notin Handlers

VARIABLES
  subjects,   \* the agents, jobs and runs there are
  alert,      \* the alerts table
  agent,      \* the columns of agents that the monitor looks at
  caughtUp,   \* jobs with a COMPLETED run inside their window
  scheduled,  \* enabled jobs with an effective schedule
  call,       \* RaiseAlert and ResolveAlerts calls under way
  mon         \* the monitor: phase of its tick, rows listed and not yet handled

vars == <<subjects, alert, agent, caughtUp, scheduled, call, mon>>
world == <<subjects, agent, caughtUp, scheduled>>

Threads == {Monitor} \cup Handlers

OfflineKey(a) == <<"agent-offline", a>>
MissedKey(j)  == <<"backup-missed", j>>
FailedKey(r)  == <<"backup-failed", r>>
NoKey == <<"none">>

Keys == ({"agent-offline"} \X Agents) \cup ({"backup-missed"} \X Jobs)
          \cup ({"backup-failed"} \X Runs)

\* counted: a history variable, the raises that returned this row.
Row == [ key : Keys \cup {NoKey},
         status : {"none", "firing", "acknowledged", "resolved"},
         occ : 0..MaxOcc, counted : 0..MaxOcc,
         age : {"hour", "kept", "expired"} ]   \* age of created_at

NoAlert == [key |-> NoKey, status |-> "none", occ |-> 0, counted |-> 0,
            age |-> "hour"]

AgentRow == [silent : 0..SilentCap, online : BOOLEAN, revoked : BOOLEAN]
SeenRow  == [silent : 0..SilentCap, online : BOOLEAN]

Call == [op : {"idle"}]
     \cup [op : {"find", "create", "refind"}, key : Keys]
     \cup [op : {"bump"}, id : Ids, read : 1..MaxOcc]
     \cup [op : {"list"}, key : Keys]
     \cup [op : {"close"}, ids : SUBSET Ids]

Idle == [op |-> "idle"]

Phases == {"idle", "alive", "offline", "stale", "missed", "prune"}

TypeOK ==
  /\ subjects \subseteq Agents \cup Jobs \cup Runs
  /\ alert \in [Ids -> Row]
  /\ agent \in [Agents -> AgentRow]
  /\ caughtUp \subseteq Jobs /\ scheduled \subseteq Jobs
  /\ call \in [Threads -> Call]
  /\ mon \in [phase : Phases, todo : SUBSET (Agents \cup Jobs \cup Runs),
              seen : [Agents -> SeenRow]]

FreshAgent == [silent |-> 0, online |-> TRUE, revoked |-> FALSE]
NothingSeen == [a \in Agents |-> [silent |-> 0, online |-> TRUE]]
Resting == [phase |-> "idle", todo |-> {}, seen |-> NothingSeen]

Init ==
  /\ subjects \in SUBSET (Agents \cup Jobs \cup Runs)
  /\ alert = [i \in Ids |-> NoAlert]
  /\ agent = [a \in Agents |-> FreshAgent]
  /\ caughtUp = {}
  /\ scheduled = Jobs \cap subjects
  /\ call = [t \in Threads |-> Idle]
  /\ mon = Resting

-----------------------------------------------------------------------------
\* services/alerts.go

Firing(k) == {i \in Ids : alert[i].key = k /\ alert[i].status = "firing"}
Set(t, c) == call' = [call EXCEPT ![t] = c]
More(n) == IF n < MaxOcc THEN n + 1 ELSE n

Raise(t, k)   == call[t] = Idle /\ Set(t, [op |-> "find", key |-> k])
Resolve(t, k) == call[t] = Idle /\ Set(t, [op |-> "list", key |-> k])

\* coalesceFiring's First, before the insert and again after a lost one.
FindFiring(t) ==
  /\ call[t].op \in {"find", "refind"}
  /\ \/ \E i \in Firing(call[t].key) :
          Set(t, [op |-> "bump", id |-> i, read |-> alert[i].occ])
     \/ /\ Firing(call[t].key) = {}
        /\ IF call[t].op = "find"
           THEN Set(t, [op |-> "create", key |-> call[t].key])
           ELSE Set(t, Idle)                    \* create failed: logged only
  /\ UNCHANGED <<alert, mon, world>>

\* Mutant: the count is written from what the SELECT read, not by the UPDATE's
\* own occurrence_count + 1.
BumpFromRead(t) ==
  /\ call[t].op = "bump"
  /\ LET i == call[t].id IN
     alert' = IF alert[i].status = "none" THEN alert
              ELSE [alert EXCEPT ![i].occ = More(call[t].read),
                                 ![i].counted = More(@)]
  /\ Set(t, Idle)
  /\ UNCHANGED <<mon, world>>

\* Mutant: the unique index is missing.
InsertWithoutIndex(t) ==
  /\ call[t].op = "create"
  /\ \E i \in Ids :
       /\ alert[i].status = "none"
       /\ alert' = [alert EXCEPT ![i] =
            [key |-> call[t].key, status |-> "firing", occ |-> 1, counted |-> 1,
             age |-> "hour"]]
  /\ Set(t, Idle)
  /\ UNCHANGED <<mon, world>>

\* coalesceFiring's UPDATE by id: it does not ask whether the row still fires.
Bump(t) ==
  /\ call[t].op = "bump"
  /\ LET i == call[t].id IN
     alert' = IF alert[i].status = "none" THEN alert
              ELSE [alert EXCEPT ![i].occ = More(@), ![i].counted = More(@)]
  /\ Set(t, Idle)
  /\ UNCHANGED <<mon, world>>

\* db.Create: the partial unique index refuses a second firing row of a key.
Insert(t) ==
  /\ call[t].op = "create"
  /\ IF Firing(call[t].key) # {}
     THEN Set(t, [call[t] EXCEPT !.op = "refind"]) /\ UNCHANGED alert
     ELSE \E i \in Ids :
            /\ alert[i].status = "none"
            /\ \A j \in Ids : alert[j].status = "none" => ~(j < i)
            /\ alert' = [alert EXCEPT ![i] =
                 [key |-> call[t].key, status |-> "firing", occ |-> 1,
                  counted |-> 1, age |-> "hour"]]
            /\ Set(t, Idle)
  /\ UNCHANGED <<mon, world>>

ListFiring(t) ==
  /\ call[t].op = "list"
  /\ LET F == Firing(call[t].key) IN
     Set(t, IF F = {} THEN Idle ELSE [op |-> "close", ids |-> F])
  /\ UNCHANGED <<alert, mon, world>>

\* ResolveAlerts' UPDATE by ids: a row acknowledged meanwhile is resolved, one
\* resolved meanwhile again.
CloseListed(t) ==
  /\ call[t].op = "close"
  /\ alert' = [i \in Ids |->
       IF i \in call[t].ids /\ alert[i].status # "none"
       THEN [alert[i] EXCEPT !.status = "resolved"] ELSE alert[i]]
  /\ Set(t, Idle)
  /\ UNCHANGED <<mon, world>>

Statement(t) ==
  FindFiring(t) \/ Bump(t) \/ Insert(t) \/ ListFiring(t) \/ CloseListed(t)

-----------------------------------------------------------------------------
\* The health monitor's tick.  It is one goroutine: a RaiseAlert or
\* ResolveAlerts call it makes has returned before its next step.

MonFree == call[Monitor] = Idle

\* Mutant: only the agents that are flagged are looked at.
TickBeginFlagged ==
  /\ mon.phase = "idle" /\ MonFree
  /\ mon' = [mon EXCEPT !.phase = "alive",
       !.todo = {a \in Agents \cap subjects :
                   /\ ~agent[a].revoked /\ ~agent[a].online
                   /\ agent[a].silent < RecoverAfter}]
  /\ UNCHANGED <<alert, call, world>>

\* checkAgents, first half: recovered agents, by a fixed floor.
TickBegin ==
  /\ mon.phase = "idle" /\ MonFree
  /\ mon' = [mon EXCEPT !.phase = "alive",
       !.todo = {a \in Agents \cap subjects :
                   ~agent[a].revoked /\ agent[a].silent < RecoverAfter}]
  /\ UNCHANGED <<alert, call, world>>

Done(x) == mon' = [mon EXCEPT !.todo = @ \ {x}]

ResolveAlive(a) ==
  /\ mon.phase = "alive" /\ a \in mon.todo
  /\ Resolve(Monitor, OfflineKey(a))
  /\ Done(a)
  /\ UNCHANGED <<alert, world>>

\* checkAgents, second half: works on copies of the rows it lists.
ListAgents ==
  /\ mon.phase = "alive" /\ mon.todo = {} /\ MonFree
  /\ mon' = [phase |-> "offline",
             seen |-> [a \in Agents |-> [silent |-> agent[a].silent,
                                         online |-> agent[a].online]],
             todo |-> {a \in Agents \cap subjects : ~agent[a].revoked}]
  /\ UNCHANGED <<alert, call, world>>

SkipAgent(a) ==
  /\ mon.phase = "offline" /\ a \in mon.todo /\ MonFree
  /\ mon.seen[a].silent < OfflineAfter \/ ~mon.seen[a].online
  /\ Done(a)
  /\ UNCHANGED <<alert, call, world>>

\* Mutant: no flap guard.
FlagWithoutGuard(a) ==
  /\ mon.phase = "offline" /\ a \in mon.todo
  /\ mon.seen[a].silent >= OfflineAfter /\ mon.seen[a].online
  /\ agent' = [agent EXCEPT ![a].online = FALSE]
  /\ Raise(Monitor, OfflineKey(a))
  /\ Done(a)
  /\ UNCHANGED <<alert, subjects, caughtUp, scheduled>>

\* Mutant: the guard is asked before the status is written.
FlagAfterGuard(a) ==
  /\ mon.phase = "offline" /\ a \in mon.todo /\ MonFree
  /\ mon.seen[a].silent >= OfflineAfter /\ mon.seen[a].online
  /\ IF \E i \in Ids : alert[i].key = OfflineKey(a) /\ alert[i].age = "hour"
     THEN UNCHANGED <<agent, call>>
     ELSE /\ agent' = [agent EXCEPT ![a].online = FALSE]
          /\ Raise(Monitor, OfflineKey(a))
  /\ Done(a)
  /\ UNCHANGED <<alert, subjects, caughtUp, scheduled>>

\* The UPDATE of the status and the flap guard's COUNT, which nothing that
\* runs in between can tell from one step.
FlagAgent(a) ==
  /\ mon.phase = "offline" /\ a \in mon.todo /\ MonFree
  /\ mon.seen[a].silent >= OfflineAfter /\ mon.seen[a].online
  /\ agent' = [agent EXCEPT ![a].online = FALSE]
  /\ IF \E i \in Ids : alert[i].key = OfflineKey(a) /\ alert[i].age = "hour"
     THEN UNCHANGED call
     ELSE Raise(Monitor, OfflineKey(a))
  /\ Done(a)
  /\ UNCHANGED <<alert, subjects, caughtUp, scheduled>>

\* checkStaleRuns raises for every run it listed, also when its UPDATE matched
\* no row (module RunLifecycle has the rows of the runs).
ListStale ==
  /\ mon.phase = "offline" /\ mon.todo = {} /\ MonFree
  /\ \E S \in SUBSET (Runs \cap subjects) :
       mon' = [phase |-> "stale", todo |-> S, seen |-> NothingSeen]
  /\ UNCHANGED <<alert, call, world>>

RaiseStale(r) ==
  /\ mon.phase = "stale" /\ r \in mon.todo
  /\ Raise(Monitor, FailedKey(r))
  /\ Done(r)
  /\ UNCHANGED <<alert, world>>

\* checkMissedBackups: the list, then a count for each job.
ListJobs ==
  /\ mon.phase = "stale" /\ mon.todo = {} /\ MonFree
  /\ mon' = [mon EXCEPT !.phase = "missed", !.todo = scheduled]
  /\ UNCHANGED <<alert, call, world>>

CheckMissed(j) ==
  /\ mon.phase = "missed" /\ j \in mon.todo
  /\ IF j \in caughtUp THEN Resolve(Monitor, MissedKey(j))
                       ELSE Raise(Monitor, MissedKey(j))
  /\ Done(j)
  /\ UNCHANGED <<alert, world>>

\* Mutant: the prune forgets its status condition.
PruneAll ==
  /\ mon.phase = "missed" /\ mon.todo = {} /\ MonFree
  /\ alert' = [i \in Ids |-> IF alert[i].age = "expired" THEN NoAlert
                                                        ELSE alert[i]]
  /\ mon' = Resting
  /\ UNCHANGED <<call, world>>

\* enforceAlertRetention, and the tick ends.
Prune ==
  /\ mon.phase = "missed" /\ mon.todo = {} /\ MonFree
  /\ alert' = [i \in Ids |->
       IF alert[i].age = "expired" /\ alert[i].status # "firing"
       THEN NoAlert ELSE alert[i]]
  /\ mon' = Resting
  /\ UNCHANGED <<call, world>>

MonitorStep ==
  \/ TickBegin \/ ListAgents \/ ListStale \/ ListJobs \/ Prune
  \/ \E a \in Agents : ResolveAlive(a) \/ SkipAgent(a) \/ FlagAgent(a)
  \/ \E r \in Runs : RaiseStale(r)
  \/ \E j \in Jobs : CheckMissed(j)

-----------------------------------------------------------------------------
\* Requests

\* A FAILED report, or a FAILED event of the stream, which may repeat.
ReportFailed(h, r) ==
  /\ r \in subjects
  /\ Raise(h, FailedKey(r))
  /\ UNCHANGED <<alert, mon, world>>

\* A COMPLETED report: the run's row, then ResolveAlerts.
ReportCompleted(h, j) ==
  /\ j \in subjects
  /\ caughtUp' = caughtUp \cup {j}
  /\ Resolve(h, MissedKey(j))
  /\ UNCHANGED <<alert, mon, subjects, agent, scheduled>>

Seen(a) == [agent EXCEPT ![a].silent = 0, ![a].online = TRUE]

\* The gRPC Connect: last_seen_at and ONLINE, then ResolveAlerts.
Connect(h, a) ==
  /\ a \in subjects /\ ~agent[a].revoked
  /\ agent' = Seen(a)
  /\ Resolve(h, OfflineKey(a))
  /\ UNCHANGED <<alert, mon, subjects, caughtUp, scheduled>>

\* Every HTTP request of the agent: touch().
Heartbeat(a) ==
  /\ a \in subjects /\ ~agent[a].revoked
  /\ agent' = Seen(a)
  /\ UNCHANGED <<alert, call, mon, subjects, caughtUp, scheduled>>

Revoke(a) ==
  /\ a \in subjects
  /\ agent' = [agent EXCEPT ![a].revoked = TRUE, ![a].online = FALSE]
  /\ UNCHANGED <<alert, call, mon, subjects, caughtUp, scheduled>>

\* The dashboard: each one conditional UPDATE; no row matched is a 409.
Ack(i) ==
  /\ alert[i].status = "firing"
  /\ alert' = [alert EXCEPT ![i].status = "acknowledged"]
  /\ UNCHANGED <<call, mon, world>>

ResolveByHand(i) ==
  /\ alert[i].status \in {"firing", "acknowledged"}
  /\ alert' = [alert EXCEPT ![i].status = "resolved"]
  /\ UNCHANGED <<call, mon, world>>

SetSchedule(j) ==
  /\ j \in subjects
  /\ scheduled' = IF j \in scheduled THEN scheduled \ {j} ELSE scheduled \cup {j}
  /\ UNCHANGED <<alert, call, mon, subjects, agent, caughtUp>>

-----------------------------------------------------------------------------
\* Time

AgentSilent(a) ==
  /\ a \in subjects /\ agent[a].silent < SilentCap
  /\ agent' = [agent EXCEPT ![a].silent = @ + 1]
  /\ UNCHANGED <<alert, call, mon, subjects, caughtUp, scheduled>>

WindowPasses(j) ==
  /\ j \in caughtUp /\ caughtUp' = caughtUp \ {j}
  /\ UNCHANGED <<alert, call, mon, subjects, agent, scheduled>>

RowAges(i) ==
  /\ alert[i].status # "none" /\ alert[i].age # "expired"
  /\ alert' = [alert EXCEPT ![i].age = IF @ = "hour" THEN "kept" ELSE "expired"]
  /\ UNCHANGED <<call, mon, world>>

Held(i) == \E t \in Threads : \/ call[t].op = "bump" /\ call[t].id = i
                              \/ call[t].op = "close" /\ i \in call[t].ids

\* Bound: when the table is full, the identity of a closed row that no call
\* holds, and that the flap guard does not count, is used again.
Forget(i) ==
  /\ \A j \in Ids : alert[j].status # "none"
  /\ alert[i].status \in {"acknowledged", "resolved"} /\ ~Held(i)
  /\ alert[i].age # "hour" \/ \A a \in Agents : alert[i].key # OfflineKey(a)
  /\ alert' = [alert EXCEPT ![i] = NoAlert]
  /\ UNCHANGED <<call, mon, world>>

Next ==
  \/ MonitorStep
  \/ \E t \in Threads : Statement(t)
  \/ \E h \in Handlers : \/ \E r \in Runs : ReportFailed(h, r)
                         \/ \E j \in Jobs : ReportCompleted(h, j)
                         \/ \E a \in Agents : Connect(h, a)
  \/ \E a \in Agents : Heartbeat(a) \/ Revoke(a) \/ AgentSilent(a)
  \/ \E i \in Ids : Ack(i) \/ ResolveByHand(i) \/ RowAges(i) \/ Forget(i)
  \/ \E j \in Jobs : SetSchedule(j) \/ WindowPasses(j)

\* The monitor's ticker fires again and again, a call that was begun goes on,
\* and the table's bound must not hold an insert up.
Fairness ==
  /\ WF_vars(MonitorStep)
  /\ \A t \in Threads : WF_vars(Statement(t))
  /\ WF_vars(\E i \in Ids : Forget(i))

Spec == Init /\ [][Next]_vars /\ Fairness
-----------------------------------------------------------------------------
\* Properties

\* Two rows of one key never fire at once, although every raise decides on an
\* earlier SELECT and the monitor, the reports and the streams raise in
\* parallel (alerts.go:51-75, the index of migration 000013).
OneFiringPerKey ==
  \A i, j \in Ids :
    /\ alert[i].status = "firing" /\ alert[j].status = "firing"
    /\ alert[i].key = alert[j].key
    => i = j

\* Every raise that returned a row is in that row's count, whatever other
\* raises coalesced into it between its SELECT and its UPDATE
\* (alerts.go:90-112).
OccurrencesCounted == \A i \in Ids : alert[i].occ = alert[i].counted

\* Together: the table survives raises and resolutions in parallel
\* (alerts.go:51-155).
TableSound == TypeOK /\ OneFiringPerKey /\ OccurrencesCounted

\* An agent that comes and goes gets one offline alert an hour: between the
\* count and the insert of checkAgents no other row of the key can appear
\* (health_monitor.go:106-113).
OneOfflineAlertAnHour ==
  \A a \in Agents : \A i, j \in Ids :
    /\ alert[i].key = OfflineKey(a) /\ alert[j].key = OfflineKey(a)
    /\ alert[i].age = "hour" /\ alert[j].age = "hour"
    => i = j

\* The statements, the stale ones included, implement AlertMachine: no closed
\* alert fires again and no firing alert is pruned.
Machine == INSTANCE AlertMachine WITH
  status <- [i \in Ids |-> alert[i].status], key <- [i \in Ids |-> alert[i].key]

ImplementsAlertMachine == Machine!Spec

\* The offline alert of an agent that is heard of often enough is closed in the
\* end, although Heartbeat resolves nothing and a tick may still raise from the
\* rows it listed before (health_monitor.go:78-84).
RecoveredAgentResolved ==
  \A a \in Agents :
    <>[](/\ ~agent[a].revoked
         /\ agent[a].silent < RecoverAfter /\ agent[a].silent < OfflineAfter)
    => <>[](Firing(OfflineKey(a)) = {})

\* An agent that stays silent ends up OFFLINE, also when the flap guard keeps
\* its alert back (health_monitor.go:92-110).
SilentAgentFlagged ==
  \A a \in Agents :
    (<>[](a \in subjects /\ ~agent[a].revoked /\ agent[a].silent >= OfflineAfter))
    => <>[](~agent[a].online)

\* A scheduled job without a run inside its window has an alert that fires
\* again and again, however often people close it (health_monitor.go:238-250).
MissedJobAlerted ==
  \A j \in Jobs :
    (<>[](j \in scheduled /\ j \notin caughtUp))
    => []<>(Firing(MissedKey(j)) # {})

\* The miss of a job that is backed up in time from some moment on is closed
\* for good, although a tick may still raise from a count it took before
\* (health_monitor.go:238-260).
CaughtUpJobResolved ==
  \A j \in Jobs :
    (<>[](j \in scheduled /\ j \in caughtUp)) => <>[](Firing(MissedKey(j)) = {})

\* What is wrong is shown in the end (health_monitor.go:92-110, 238-250).
TroubleShown == SilentAgentFlagged /\ MissedJobAlerted

\* What is over is closed for good (health_monitor.go:78-84, 257-260).
RecoveryClosesAlerts == RecoveredAgentResolved /\ CaughtUpJobResolved
=============================================================================
