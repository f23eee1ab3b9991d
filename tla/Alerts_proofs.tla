--------------------------- MODULE Alerts_proofs ---------------------------
(***************************************************************************)
(* What module Alerts keeps for every set of agents, jobs, runs and        *)
(* handler goroutines, every number of alert rows and every threshold.     *)
(*                                                                         *)
(* A step either inserts one firing row, whose key the unique index has    *)
(* found free, or leaves every row as it is or further on its way out      *)
(* (Grows, Fades).  The flap guard needs more: that a raise the monitor    *)
(* has begun stays the only one of its key (OfflineRaises).                *)
(***************************************************************************)
EXTENDS Alerts, TLAPS

\* An identity that is not in use is blank, and a row counts its first raise.
RowsFilled ==
  \A i \in Ids : IF alert[i].status = "none" THEN alert[i] = NoAlert
                                             ELSE alert[i].occ >= 1

\* Handlers raise no offline alerts, and while the monitor raises one nobody
\* has been flagged under its key within the hour.
OfflineRaises ==
  \A a \in Agents :
    /\ \A h \in Handlers :
         call[h].op \in {"find", "create", "refind"} => call[h].key # OfflineKey(a)
    /\ call[Monitor].op \in {"find", "create"} /\ call[Monitor].key = OfflineKey(a)
       => \A i \in Ids : ~(alert[i].key = OfflineKey(a) /\ alert[i].age = "hour")

IInv == TableSound /\ OneOfflineAlertAnHour /\ RowsFilled /\ OfflineRaises

-----------------------------------------------------------------------------
\* The fields of a call, by the statement that comes next.
LEMMA CallFields ==
  ASSUME NEW x \in Call
  PROVE  /\ x.op \in {"find", "create", "refind", "list"} => x.key \in Keys
         /\ x.op = "bump" => x.id \in Ids /\ x.read \in 1..MaxOcc
         /\ x.op = "close" => x.ids \subseteq Ids
BY DEF Call

\* What the statements make of a call is one.
LEMMA CallMembers ==
  /\ Idle \in Call
  /\ \A k \in Keys : /\ [op |-> "find", key |-> k] \in Call
                     /\ [op |-> "create", key |-> k] \in Call
                     /\ [op |-> "refind", key |-> k] \in Call
                     /\ [op |-> "list", key |-> k] \in Call
  /\ \A i \in Ids, n \in 1..MaxOcc : [op |-> "bump", id |-> i, read |-> n] \in Call
  /\ \A S \in SUBSET Ids : [op |-> "close", ids |-> S] \in Call
BY DEF Call, Idle

\* The call that lost its insert looks for the winner.
LEMMA Refinds ==
  ASSUME NEW x \in Call, x.op = "create"
  PROVE  [x EXCEPT !.op = "refind"] = [op |-> "refind", key |-> x.key]
BY DEF Call

\* Keys of different rules are different.
LEMMA KeysDiffer ==
  /\ \A a \in Agents : OfflineKey(a) \in Keys
  /\ \A j \in Jobs : MissedKey(j) \in Keys
  /\ \A r \in Runs : FailedKey(r) \in Keys
  /\ \A a \in Agents, j \in Jobs : OfflineKey(a) # MissedKey(j)
  /\ \A a \in Agents, r \in Runs : OfflineKey(a) # FailedKey(r)
BY DEF Keys, OfflineKey, MissedKey, FailedKey

\* A counter that saturates stays within its bound, and does not fall.
LEMMA More_Bounded ==
  ASSUME NEW n \in 0..MaxOcc
  PROVE  More(n) \in 1..MaxOcc
BY AgeAssumption DEF More

\* What the statements write into a row leaves it a row.
LEMMA RowUpdates ==
  ASSUME NEW x \in Row
  PROVE  /\ [x EXCEPT !.status = "resolved"] \in Row
         /\ [x EXCEPT !.status = "acknowledged"] \in Row
         /\ [x EXCEPT !.age = IF @ = "hour" THEN "kept" ELSE "expired"] \in Row
         /\ [x EXCEPT !.occ = More(@), !.counted = More(@)] \in Row
<1>1. More(x.occ) \in 0..MaxOcc /\ More(x.counted) \in 0..MaxOcc
  BY More_Bounded DEF Row
<1> QED
  BY <1>1 DEF Row

New(k) == [key |-> k, status |-> "firing", occ |-> 1, counted |-> 1, age |-> "hour"]

LEMMA NewRows == NoAlert \in Row /\ \A k \in Keys : New(k) \in Row
BY AgeAssumption DEF NoAlert, New, Row

-----------------------------------------------------------------------------
\* Every step inserts one row under a free key, ...
Grows ==
  \E i \in Ids, k \in Keys, t \in Threads :
    /\ call[t].op = "create" /\ call[t].key = k /\ call' = [call EXCEPT ![t] = Idle]
    /\ alert[i].status = "none" /\ Firing(k) = {}
    /\ alert' = [alert EXCEPT ![i] = New(k)]

\* ... or takes no row back to firing, to the last hour or to another key.
Fades(i) ==
  \/ alert'[i] = alert[i]
  \/ alert[i].status # "firing" /\ alert'[i] = NoAlert
  \/ /\ alert[i].status # "none" /\ alert'[i].status # "none"
     /\ alert'[i] \in Row
     /\ alert'[i].key = alert[i].key
     /\ alert'[i].status = "firing" => alert[i].status = "firing"
     /\ alert'[i].age = "hour" => alert[i].age = "hour"
     /\ alert[i].occ = alert[i].counted => alert'[i].occ = alert'[i].counted
     /\ alert[i].occ >= 1 => alert'[i].occ >= 1

AllFade == alert' \in [Ids -> Row] /\ \A i \in Ids : Fades(i)

\* Coalescing fades: the row keeps what it is and counts on.
LEMMA BumpFades ==
  ASSUME TypeOK, NEW t \in Threads, Bump(t)
  PROVE  AllFade
<1> DEFINE i == call[t].id
<1>1. call[t] \in Call /\ call[t].op = "bump"
  BY DEF TypeOK, Bump
<1>2. i \in Ids
  BY <1>1, CallFields
<1>3. CASE alert[i].status = "none"
  BY <1>3 DEF Bump, TypeOK, AllFade, Fades
<1>4. CASE alert[i].status # "none"
  <2> DEFINE x == alert[i]
             y == [x EXCEPT !.occ = More(@), !.counted = More(@)]
  <2>1. x \in Row /\ y \in Row
    BY <1>2, RowUpdates DEF TypeOK
  <2>2. alert' = [alert EXCEPT ![i] = y]
    BY <1>2, <1>4 DEF Bump, TypeOK
  <2>3. /\ y.status = x.status /\ y.key = x.key /\ y.age = x.age
        /\ y.occ = More(x.occ) /\ y.counted = More(x.counted)
    BY <2>1 DEF Row
  <2>4. x.occ \in 0..MaxOcc /\ More(x.occ) >= 1
    BY <2>1, More_Bounded, AgeAssumption DEF Row
  <2> HIDE DEF x, y
  <2>5. Fades(i)
    BY <1>2, <1>4, <2>1, <2>2, <2>3, <2>4 DEF Fades, TypeOK, x
  <2> QED
    BY <1>2, <2>1, <2>2, <2>5 DEF AllFade, Fades, TypeOK
<1> QED
  BY <1>3, <1>4

\* An insert grows the table, or finds its key taken.
LEMMA InsertGrows ==
  ASSUME TypeOK, NEW t \in Threads, Insert(t)
  PROVE  Grows \/ AllFade
<1>1. call[t] \in Call /\ call[t].op = "create" /\ call[t].key \in Keys
  BY CallFields DEF TypeOK, Insert
<1>2. CASE Firing(call[t].key) # {}
  BY <1>2 DEF Insert, AllFade, Fades, TypeOK
<1>3. CASE Firing(call[t].key) = {}
  BY <1>1, <1>3 DEF Insert, Grows, New, Set
<1> QED
  BY <1>2, <1>3

\* A row that is closed, acknowledged or grows older fades.
LEMMA RowFades ==
  ASSUME TypeOK, NEW i \in Ids, alert[i].status # "none",
         alert'[i] \in {[alert[i] EXCEPT !.status = "resolved"],
                         [alert[i] EXCEPT !.status = "acknowledged"],
                         [alert[i] EXCEPT !.age = IF @ = "hour" THEN "kept"
                                                                ELSE "expired"]}
  PROVE  alert'[i] \in Row /\ Fades(i)
<1> DEFINE x == alert[i]
<1>1. x \in Row
  BY DEF TypeOK
<1>2. alert'[i] \in Row
  BY <1>1, RowUpdates
<1>3. /\ alert'[i].key = x.key /\ alert'[i].occ = x.occ
      /\ alert'[i].counted = x.counted
      /\ \/ alert'[i].age = x.age /\ alert'[i].status \in {"resolved", "acknowledged"}
         \/ alert'[i].age # "hour" /\ alert'[i].status = x.status
  BY <1>1 DEF Row
<1> QED
  BY <1>2, <1>3 DEF Fades

\* The closing UPDATE of a resolution, the dashboard's and the ageing of rows.
LEMMA ClosingFades ==
  ASSUME TypeOK,
         \/ \E t \in Threads : CloseListed(t)
         \/ \E i \in Ids : Ack(i) \/ ResolveByHand(i) \/ RowAges(i)
  PROVE  AllFade
<1>1. CASE \E t \in Threads : CloseListed(t)
  <2>1. PICK t \in Threads : CloseListed(t)
    BY <1>1
  <2>2. ASSUME NEW i \in Ids
        PROVE  alert'[i] \in Row /\ Fades(i)
    <3>1. CASE i \in call[t].ids /\ alert[i].status # "none"
      BY <2>1, <3>1, RowFades DEF CloseListed
    <3>2. CASE ~(i \in call[t].ids /\ alert[i].status # "none")
      BY <2>1, <3>2 DEF CloseListed, Fades, TypeOK
    <3> QED
      BY <3>1, <3>2
  <2>3. alert' = [i \in Ids |-> alert'[i]]
    BY <2>1 DEF CloseListed
  <2> QED
    BY <2>2, <2>3 DEF AllFade
<1>2. CASE \E i \in Ids : Ack(i) \/ ResolveByHand(i) \/ RowAges(i)
  <2>1. PICK i \in Ids : Ack(i) \/ ResolveByHand(i) \/ RowAges(i)
    BY <1>2
  <2>2. /\ alert[i].status # "none"
        /\ alert'[i] \in {[alert[i] EXCEPT !.status = "resolved"],
                           [alert[i] EXCEPT !.status = "acknowledged"],
                           [alert[i] EXCEPT !.age = IF @ = "hour" THEN "kept"
                                                                  ELSE "expired"]}
    BY <2>1 DEF Ack, ResolveByHand, RowAges, TypeOK
  <2>3. \A j \in Ids \ {i} : alert'[j] = alert[j]
    BY <2>1 DEF Ack, ResolveByHand, RowAges, TypeOK
  <2>4. alert' = [j \in Ids |-> alert'[j]]
    BY <2>1 DEF Ack, ResolveByHand, RowAges, TypeOK
  <2>5. alert'[i] \in Row /\ Fades(i)
    BY <2>2, RowFades
  <2> QED
    BY <2>3, <2>4, <2>5 DEF AllFade, Fades, TypeOK
<1> QED
  BY <1>1, <1>2

\* Pruned and forgotten rows were not firing.
LEMMA PruneFades ==
  ASSUME TypeOK, Prune \/ \E i \in Ids : Forget(i)
  PROVE  AllFade
<1>1. CASE Prune
  BY <1>1, NewRows DEF Prune, AllFade, Fades, TypeOK
<1>2. CASE \E i \in Ids : Forget(i)
  BY <1>2, NewRows DEF Forget, AllFade, Fades, TypeOK
<1> QED
  BY <1>1, <1>2

\* What a step does to the table.
LEMMA StepRows ==
  ASSUME TypeOK, [Next]_vars
  PROVE  Grows \/ AllFade
<1>1. CASE \E t \in Threads : Bump(t) \/ Insert(t)
  BY <1>1, BumpFades, InsertGrows
<1>2. CASE \/ \E t \in Threads : CloseListed(t)
           \/ \E i \in Ids : Ack(i) \/ ResolveByHand(i) \/ RowAges(i)
  BY <1>2, ClosingFades
<1>3. CASE Prune \/ \E i \in Ids : Forget(i)
  BY <1>3, PruneFades
<1>4. CASE UNCHANGED alert
  BY <1>4 DEF AllFade, Fades, TypeOK
<1>5. CASE MonitorStep
  <2>1. CASE Prune
    BY <2>1, <1>3
  <2>2. CASE ~Prune
    BY <1>5, <2>2, <1>4 DEF MonitorStep, TickBegin, ListAgents, ListStale,
       ListJobs, ResolveAlive, SkipAgent, FlagAgent, RaiseStale, CheckMissed
  <2> QED
    BY <2>1, <2>2
<1>6. CASE \E t \in Threads : Statement(t)
  <2>1. PICK t \in Threads : Statement(t)
    BY <1>6
  <2>2. CASE FindFiring(t) \/ ListFiring(t)
    BY <2>2, <1>4 DEF FindFiring, ListFiring
  <2> QED
    BY <2>1, <2>2, <1>1, <1>2 DEF Statement
<1>7. CASE \E h \in Handlers : \/ \E r \in Runs : ReportFailed(h, r)
                               \/ \E j \in Jobs : ReportCompleted(h, j)
                               \/ \E a \in Agents : Connect(h, a)
  BY <1>7, <1>4 DEF ReportFailed, ReportCompleted, Connect
<1>8. CASE \E a \in Agents : Heartbeat(a) \/ Revoke(a) \/ AgentSilent(a)
  BY <1>8, <1>4 DEF Heartbeat, Revoke, AgentSilent
<1>9. CASE \E j \in Jobs : SetSchedule(j) \/ WindowPasses(j)
  BY <1>9, <1>4 DEF SetSchedule, WindowPasses
<1>10. CASE \E i \in Ids : Ack(i) \/ ResolveByHand(i) \/ RowAges(i) \/ Forget(i)
  BY <1>10, <1>2, <1>3
<1> QED
  BY <1>4, <1>5, <1>6, <1>7, <1>8, <1>9, <1>10 DEF Next, vars

\* The index and the atomic count keep the table's parts of the invariant.
LEMMA RowsKept ==
  ASSUME IInv, [Next]_vars
  PROVE  /\ alert' \in [Ids -> Row]
         /\ OneFiringPerKey' /\ OccurrencesCounted' /\ RowsFilled'
<1>1. CASE Grows
  <2>1. PICK i \in Ids, k \in Keys :
          /\ alert[i].status = "none" /\ Firing(k) = {}
          /\ alert' = [alert EXCEPT ![i] = New(k)]
    BY <1>1 DEF Grows
  <2>2. alert \in [Ids -> Row] /\ New(k) \in Row
    BY NewRows DEF IInv, TableSound, TypeOK
  <2>3. alert' \in [Ids -> Row]
    BY <2>1, <2>2
  <2>4. /\ New(k).key = k /\ New(k).status = "firing"
        /\ New(k).occ = 1 /\ New(k).counted = 1
    BY DEF New
  <2>5. alert'[i] = New(k) /\ \A j \in Ids \ {i} : alert'[j] = alert[j]
    BY <2>1, <2>2
  <2>6. \A j \in Ids : alert[j].key = k => alert[j].status # "firing"
    BY <2>1 DEF Firing
  <2>7. OneFiringPerKey'
    BY <2>4, <2>5, <2>6 DEF IInv, TableSound, OneFiringPerKey
  <2>8. OccurrencesCounted'
    BY <2>4, <2>5 DEF IInv, TableSound, OccurrencesCounted
  <2>9. RowsFilled'
    BY <2>4, <2>5 DEF IInv, RowsFilled
  <2> QED
    BY <2>3, <2>7, <2>8, <2>9
<1>2. CASE AllFade
  <2>1. NoAlert.status = "none" /\ NoAlert.occ = NoAlert.counted
    BY DEF NoAlert
  <2>2. OneFiringPerKey'
    <3>1. ASSUME NEW i \in Ids, alert'[i].status = "firing"
          PROVE  alert[i].status = "firing" /\ alert'[i].key = alert[i].key
      BY <1>2, <2>1, <3>1 DEF AllFade, Fades
    <3> QED
      BY <3>1 DEF IInv, TableSound, OneFiringPerKey
  <2>3. OccurrencesCounted'
    BY <1>2, <2>1 DEF AllFade, Fades, IInv, TableSound, OccurrencesCounted
  <2>4. RowsFilled'
    BY <1>2, <2>1 DEF AllFade, Fades, IInv, RowsFilled
  <2> QED
    BY <1>2, <2>2, <2>3, <2>4 DEF AllFade
<1> QED
  BY <1>1, <1>2, StepRows DEF IInv, TableSound

\* What the calls under way become: a raise or a resolution begins, a raise that
\* found nothing goes on to its insert, or a call goes on in another way.
Begins(t, op, k) == call[t] = Idle /\ call' = [call EXCEPT ![t] = [op |-> op, key |-> k]]
GoesOn(t) ==
  \E x \in Call :
    /\ call' = [call EXCEPT ![t] = x]
    /\ x.op = "create" => call[t].op = "find" /\ x.key = call[t].key
    /\ x.op = "refind" => call[t].op = "create" /\ x.key = call[t].key
    /\ x.op # "find"

\* Every statement lets its call go on.
LEMMA StatementGoesOn ==
  ASSUME IInv, NEW t \in Threads, Statement(t)
  PROVE  GoesOn(t)
<1>1. TypeOK /\ call[t] \in Call
  BY DEF IInv, TableSound, TypeOK
<1>2. Idle.op = "idle"
  BY DEF Idle
<1>3. CASE FindFiring(t)
  <2>1. call[t].key \in Keys
    BY <1>1, <1>3, CallFields DEF FindFiring
  <2>2. CASE Firing(call[t].key) = {}
    BY <1>1, <1>2, <1>3, <2>1, <2>2, CallMembers DEF FindFiring, GoesOn, Set
  <2>3. ASSUME NEW i \in Firing(call[t].key),
               Set(t, [op |-> "bump", id |-> i, read |-> alert[i].occ])
        PROVE  GoesOn(t)
    <3>1. i \in Ids /\ alert[i].occ \in 1..MaxOcc
      BY <1>1, <2>3 DEF Firing, IInv, RowsFilled, TypeOK, Row
    <3>2. [op |-> "bump", id |-> i, read |-> alert[i].occ] \in Call
      BY <3>1, CallMembers
    <3> QED
      BY <2>3, <3>2 DEF GoesOn, Set
  <2> QED
    BY <1>3, <2>2, <2>3 DEF FindFiring
<1>4. CASE Bump(t) \/ CloseListed(t)
  BY <1>2, <1>4, CallMembers DEF Bump, CloseListed, GoesOn, Set
<1>5. CASE Insert(t)
  <2>1. call[t].op = "create" /\ call[t].key \in Keys
    BY <1>1, <1>5, CallFields DEF Insert
  <2>2. CASE Firing(call[t].key) # {}
    <3> DEFINE x == [op |-> "refind", key |-> call[t].key]
    <3>1. x \in Call
      BY <2>1, CallMembers
    <3>2. call' = [call EXCEPT ![t] = x]
      BY <1>1, <1>5, <2>1, <2>2, Refinds DEF Insert, Set
    <3> QED
      BY <2>1, <3>1, <3>2 DEF GoesOn
  <2>3. CASE Firing(call[t].key) = {}
    BY <1>2, <1>5, <2>3, CallMembers DEF Insert, GoesOn, Set
  <2> QED
    BY <2>2, <2>3
<1>6. CASE ListFiring(t)
  <2> DEFINE F == Firing(call[t].key)
  <2>1. [op |-> "close", ids |-> F] \in Call
    BY CallMembers DEF Firing
  <2> QED
    BY <1>2, <1>6, <2>1, CallMembers DEF ListFiring, GoesOn, Set
<1> QED
  BY <1>3, <1>4, <1>5, <1>6 DEF Statement

\* Nobody raises an offline alert but the monitor, under its guard.
MayRaise(t, k) ==
  \/ \A a \in Agents : k # OfflineKey(a)
  \/ t = Monitor /\ \A i \in Ids : ~(alert[i].key = k /\ alert[i].age = "hour")

CallsStep ==
  \/ UNCHANGED call
  \/ \E t \in Threads : GoesOn(t)
  \/ \E t \in Threads, k \in Keys : Begins(t, "list", k)
  \/ \E t \in Threads, k \in Keys :
       Begins(t, "find", k) /\ MayRaise(t, k) /\ UNCHANGED alert

LEMMA MonitorCalls ==
  ASSUME TypeOK, MonitorStep
  PROVE  CallsStep
<1>1. Monitor \in Threads
  BY DEF Threads
<1>2. CASE \E a \in Agents : ResolveAlive(a)
  BY <1>1, <1>2, KeysDiffer DEF ResolveAlive, Resolve, Set, CallsStep, Begins
<1>3. CASE \E a \in Agents : FlagAgent(a)
  <2>1. PICK a \in Agents : FlagAgent(a)
    BY <1>3
  <2>2. CASE \E i \in Ids : alert[i].key = OfflineKey(a) /\ alert[i].age = "hour"
    BY <2>1, <2>2 DEF FlagAgent, CallsStep
  <2>3. CASE ~\E i \in Ids : alert[i].key = OfflineKey(a) /\ alert[i].age = "hour"
    <3>1. Begins(Monitor, "find", OfflineKey(a)) /\ UNCHANGED alert
      BY <2>1, <2>3 DEF FlagAgent, Raise, Set, Begins
    <3>2. MayRaise(Monitor, OfflineKey(a)) /\ OfflineKey(a) \in Keys
      BY <2>3, KeysDiffer DEF MayRaise
    <3> QED
      BY <1>1, <3>1, <3>2 DEF CallsStep
  <2> QED
    BY <2>2, <2>3
<1>4. CASE \E r \in Runs : RaiseStale(r)
  <2>1. PICK r \in Runs : RaiseStale(r)
    BY <1>4
  <2>2. Begins(Monitor, "find", FailedKey(r)) /\ UNCHANGED alert
    BY <2>1 DEF RaiseStale, Raise, Set, Begins
  <2>3. MayRaise(Monitor, FailedKey(r)) /\ FailedKey(r) \in Keys
    BY KeysDiffer DEF MayRaise
  <2> QED
    BY <1>1, <2>2, <2>3 DEF CallsStep
<1>5. CASE \E j \in Jobs : CheckMissed(j)
  <2>1. PICK j \in Jobs : CheckMissed(j)
    BY <1>5
  <2>2. MissedKey(j) \in Keys /\ MayRaise(Monitor, MissedKey(j))
    BY KeysDiffer DEF MayRaise
  <2>3. /\ UNCHANGED alert
        /\ \/ Begins(Monitor, "list", MissedKey(j))
           \/ Begins(Monitor, "find", MissedKey(j))
    BY <2>1 DEF CheckMissed, Raise, Resolve, Set, Begins
  <2> QED
    BY <1>1, <2>2, <2>3 DEF CallsStep
<1>6. CASE UNCHANGED call
  BY <1>6 DEF CallsStep
<1> QED
  BY <1>2, <1>3, <1>4, <1>5, <1>6 DEF MonitorStep, TickBegin, ListAgents,
     ListStale, ListJobs, Prune, SkipAgent

LEMMA StepCalls ==
  ASSUME IInv, [Next]_vars
  PROVE  CallsStep
<1>1. CASE MonitorStep
  BY <1>1, MonitorCalls DEF IInv, TableSound
<1>2. CASE \E t \in Threads : Statement(t)
  BY <1>2, StatementGoesOn DEF CallsStep
<1>3. ASSUME NEW h \in Handlers, NEW r \in Runs, ReportFailed(h, r)
      PROVE  CallsStep
  <2>1. h \in Threads /\ FailedKey(r) \in Keys /\ MayRaise(h, FailedKey(r))
    BY KeysDiffer DEF Threads, MayRaise
  <2> QED
    BY <1>3, <2>1 DEF ReportFailed, Raise, Set, Begins, CallsStep
<1>4. ASSUME NEW h \in Handlers,
             \/ \E j \in Jobs : ReportCompleted(h, j)
             \/ \E a \in Agents : Connect(h, a)
      PROVE  CallsStep
  <2>1. h \in Threads
    BY DEF Threads
  <2> QED
    BY <1>4, <2>1, KeysDiffer DEF ReportCompleted, Connect, Resolve, Set, Begins,
       CallsStep
<1>5. CASE UNCHANGED call
  BY <1>5 DEF CallsStep
<1> QED
  BY <1>1, <1>2, <1>3, <1>4, <1>5 DEF Next, vars, Heartbeat, Revoke, AgentSilent,
     Ack, ResolveByHand, RowAges, Forget, SetSchedule, WindowPasses

\* A call stays a call.
LEMMA CallsTyped ==
  ASSUME IInv, CallsStep
  PROVE  call' \in [Threads -> Call]
BY CallMembers DEF IInv, TableSound, TypeOK, CallsStep, GoesOn, Begins

\* No row gets into the last hour of a key while the monitor is about to raise
\* it: only a call that is at its insert could do that.
LEMMA NoneWithinHour ==
  ASSUME IInv, [Next]_vars, NEW a \in Agents,
         call[Monitor].op \in {"find", "create"}, call[Monitor].key = OfflineKey(a),
         call'[Monitor].op \in {"find", "create"},
         NEW i \in Ids
  PROVE  ~(alert'[i].key = OfflineKey(a) /\ alert'[i].age = "hour")
<1>1. ~(alert[i].key = OfflineKey(a) /\ alert[i].age = "hour")
  BY DEF IInv, OfflineRaises
<1>2. CASE AllFade
  <2>1. NoAlert.key # OfflineKey(a)
    BY DEF NoAlert, NoKey, OfflineKey
  <2> QED
    BY <1>1, <1>2, <2>1 DEF AllFade, Fades
<1>3. CASE Grows
  <2>1. PICK n \in Ids, k \in Keys, t \in Threads :
          /\ call[t].op = "create" /\ call[t].key = k
          /\ call' = [call EXCEPT ![t] = Idle]
          /\ alert' = [alert EXCEPT ![n] = New(k)]
    BY <1>3 DEF Grows
  <2>2. t # Monitor
    BY <2>1 DEF Idle, IInv, TableSound, TypeOK, Threads
  <2>3. k # OfflineKey(a)
    BY <2>1, <2>2 DEF IInv, OfflineRaises, Threads
  <2>4. New(k).key = k
    BY DEF New
  <2> QED
    BY <1>1, <2>1, <2>3, <2>4 DEF IInv, TableSound, TypeOK
<1> QED
  BY <1>2, <1>3, StepRows DEF IInv, TableSound

LEMMA OfflineRaisesKept ==
  ASSUME IInv, [Next]_vars
  PROVE  OfflineRaises'
<1>1. CallsStep /\ call \in [Threads -> Call]
  BY StepCalls DEF IInv, TableSound, TypeOK
<1>2. ASSUME NEW a \in Agents, NEW h \in Handlers,
             call'[h].op \in {"find", "create", "refind"}
      PROVE  call'[h].key # OfflineKey(a)
  <2>1. h \in Threads /\ h # Monitor
    BY MonitorAssumption DEF Threads
  <2>2. CASE UNCHANGED call
    BY <1>2, <2>2 DEF IInv, OfflineRaises
  <2>3. ASSUME NEW t \in Threads, GoesOn(t)
        PROVE  call'[h].key # OfflineKey(a)
    BY <1>1, <1>2, <2>1, <2>3 DEF GoesOn, IInv, OfflineRaises
  <2>4. ASSUME NEW t \in Threads, NEW k \in Keys, Begins(t, "list", k)
        PROVE  call'[h].key # OfflineKey(a)
    BY <1>1, <1>2, <2>1, <2>4 DEF Begins, IInv, OfflineRaises
  <2>5. ASSUME NEW t \in Threads, NEW k \in Keys, Begins(t, "find", k),
               MayRaise(t, k)
        PROVE  call'[h].key # OfflineKey(a)
    BY <1>1, <1>2, <2>1, <2>5 DEF Begins, MayRaise, IInv, OfflineRaises
  <2> QED
    BY <1>1, <2>2, <2>3, <2>4, <2>5 DEF CallsStep
<1>3. ASSUME NEW a \in Agents, NEW i \in Ids,
             call'[Monitor].op \in {"find", "create"},
             call'[Monitor].key = OfflineKey(a)
      PROVE  ~(alert'[i].key = OfflineKey(a) /\ alert'[i].age = "hour")
  <2>1. Monitor \in Threads
    BY DEF Threads
  <2>2. CASE /\ call[Monitor].op \in {"find", "create"}
             /\ call[Monitor].key = OfflineKey(a)
    BY <1>3, <2>2, NoneWithinHour
  <2>3. CASE UNCHANGED call
    BY <1>3, <2>2, <2>3
  <2>4. ASSUME NEW t \in Threads, GoesOn(t)
        PROVE  ~(alert'[i].key = OfflineKey(a) /\ alert'[i].age = "hour")
    BY <1>1, <1>3, <2>1, <2>2, <2>4 DEF GoesOn
  <2>5. ASSUME NEW t \in Threads, NEW k \in Keys, Begins(t, "list", k)
        PROVE  ~(alert'[i].key = OfflineKey(a) /\ alert'[i].age = "hour")
    BY <1>1, <1>3, <2>1, <2>2, <2>5 DEF Begins
  <2>6. ASSUME NEW t \in Threads, NEW k \in Keys, Begins(t, "find", k),
               MayRaise(t, k), UNCHANGED alert
        PROVE  ~(alert'[i].key = OfflineKey(a) /\ alert'[i].age = "hour")
    <3>1. CASE t = Monitor
      <4>1. k = OfflineKey(a)
        BY <1>1, <1>3, <2>1, <2>6, <3>1 DEF Begins
      <4> QED
        BY <2>6, <4>1 DEF MayRaise
    <3>2. CASE t # Monitor
      BY <1>1, <1>3, <2>1, <2>2, <2>6, <3>2 DEF Begins
    <3> QED
      BY <3>1, <3>2
  <2> QED
    BY <1>1, <2>3, <2>4, <2>5, <2>6 DEF CallsStep
<1> QED
  BY <1>2, <1>3 DEF OfflineRaises

\* The row that is inserted for an offline alert is the only one of the hour.
LEMMA OneAnHourKept ==
  ASSUME IInv, [Next]_vars
  PROVE  OneOfflineAlertAnHour'
<1> SUFFICES ASSUME NEW a \in Agents, NEW i \in Ids, NEW j \in Ids,
                    alert'[i].key = OfflineKey(a), alert'[j].key = OfflineKey(a),
                    alert'[i].age = "hour", alert'[j].age = "hour"
             PROVE  i = j
  BY DEF OneOfflineAlertAnHour
<1>1. CASE AllFade
  <2>1. NoAlert.key # OfflineKey(a)
    BY DEF NoAlert, NoKey, OfflineKey
  <2>2. /\ alert[i].key = OfflineKey(a) /\ alert[j].key = OfflineKey(a)
        /\ alert[i].age = "hour" /\ alert[j].age = "hour"
    BY <1>1, <2>1 DEF AllFade, Fades
  <2> QED
    BY <2>2 DEF IInv, OneOfflineAlertAnHour
<1>2. CASE Grows
  <2>1. PICK n \in Ids, k \in Keys, t \in Threads :
          /\ call[t].op = "create" /\ call[t].key = k
          /\ alert' = [alert EXCEPT ![n] = New(k)]
    BY <1>2 DEF Grows
  <2>2. New(k).key = k
    BY DEF New
  <2>3. CASE k = OfflineKey(a)
    <3>1. t = Monitor
      BY <2>1, <2>3 DEF IInv, OfflineRaises, Threads
    <3>2. \A x \in Ids : ~(alert[x].key = OfflineKey(a) /\ alert[x].age = "hour")
      BY <2>1, <2>3, <3>1 DEF IInv, OfflineRaises
    <3> QED
      BY <2>1, <3>2 DEF IInv, TableSound, TypeOK
  <2>4. CASE k # OfflineKey(a)
    BY <2>1, <2>2, <2>4 DEF IInv, TableSound, TypeOK, OneOfflineAlertAnHour
  <2> QED
    BY <2>3, <2>4
<1> QED
  BY <1>1, <1>2, StepRows DEF IInv, TableSound

-----------------------------------------------------------------------------
\* What heartbeats, revocations and the monitor write into an agent's row
\* leaves it one.
LEMMA AgentUpdates ==
  ASSUME NEW x \in AgentRow, NEW n \in 0..SilentCap
  PROVE  /\ [x EXCEPT !.silent = n] \in AgentRow
         /\ [x EXCEPT !.silent = n, !.online = TRUE] \in AgentRow
         /\ [x EXCEPT !.online = FALSE] \in AgentRow
         /\ [x EXCEPT !.revoked = TRUE, !.online = FALSE] \in AgentRow
BY DEF AgentRow

Todo == SUBSET (Agents \cup Jobs \cup Runs)

\* The tick keeps its lists and the agents' rows typed.
LEMMA TickTyped ==
  ASSUME TypeOK, MonitorStep
  PROVE  /\ mon' \in [phase : Phases, todo : Todo, seen : [Agents -> SeenRow]]
         /\ agent' \in [Agents -> AgentRow]
<1>1. /\ mon.phase \in Phases /\ mon.todo \in Todo
      /\ mon.seen \in [Agents -> SeenRow]
      /\ mon = [phase |-> mon.phase, todo |-> mon.todo, seen |-> mon.seen]
  BY DEF TypeOK, Todo
<1>2. NothingSeen \in [Agents -> SeenRow]
  BY AgeAssumption DEF NothingSeen, SeenRow
<1>3. [a \in Agents |-> [silent |-> agent[a].silent, online |-> agent[a].online]]
        \in [Agents -> SeenRow]
  BY DEF TypeOK, AgentRow, SeenRow
<1>4. mon' \in [phase : Phases, todo : Todo, seen : [Agents -> SeenRow]]
  <2>1. CASE TickBegin
    BY <1>1, <2>1 DEF TickBegin, Phases, Todo
  <2>2. CASE ListAgents
    BY <1>3, <2>2 DEF ListAgents, Phases, Todo
  <2>3. CASE ListStale
    BY <1>2, <2>3 DEF ListStale, Phases, Todo
  <2>4. CASE ListJobs
    BY <1>1, <2>4 DEF ListJobs, Phases, Todo, TypeOK
  <2>5. CASE Prune
    BY <1>2, <2>5 DEF Prune, Resting, Phases, Todo
  <2>6. ASSUME NEW x, Done(x)
        PROVE  mon' \in [phase : Phases, todo : Todo, seen : [Agents -> SeenRow]]
    BY <1>1, <2>6 DEF Done, Todo
  <2> QED
    BY <2>1, <2>2, <2>3, <2>4, <2>5, <2>6 DEF MonitorStep, ResolveAlive,
       SkipAgent, FlagAgent, RaiseStale, CheckMissed
<1>5. agent' \in [Agents -> AgentRow]
  <2>1. ASSUME NEW a \in Agents, FlagAgent(a)
        PROVE  agent' \in [Agents -> AgentRow]
    <3>1. agent' = [agent EXCEPT ![a] = [agent[a] EXCEPT !.online = FALSE]]
      BY <2>1 DEF FlagAgent
    <3>2. [agent[a] EXCEPT !.online = FALSE] \in AgentRow
      <4>1. agent[a] \in AgentRow /\ 0 \in 0..SilentCap
        BY AgeAssumption DEF TypeOK
      <4> QED
        BY <4>1, AgentUpdates
    <3> QED
      BY <3>1, <3>2 DEF TypeOK
  <2>2. CASE UNCHANGED agent
    BY <2>2 DEF TypeOK
  <2> QED
    BY <2>1, <2>2 DEF MonitorStep, TickBegin, ListAgents, ListStale, ListJobs,
       Prune, ResolveAlive, SkipAgent, RaiseStale, CheckMissed, world
<1> QED
  BY <1>4, <1>5

\* So do the requests, and time.
LEMMA AgentsTyped ==
  ASSUME TypeOK, NEW a \in Agents,
         \/ Heartbeat(a) \/ Revoke(a) \/ AgentSilent(a)
         \/ \E h \in Handlers : Connect(h, a)
  PROVE  agent' \in [Agents -> AgentRow]
<1>1. agent[a] \in AgentRow /\ 0 \in 0..SilentCap
  BY AgeAssumption DEF TypeOK
<1>2. CASE Heartbeat(a) \/ \E h \in Handlers : Connect(h, a)
  <2> DEFINE x == [agent[a] EXCEPT !.silent = 0, !.online = TRUE]
  <2>1. x \in AgentRow
    BY <1>1, AgentUpdates
  <2>2. agent' = [agent EXCEPT ![a] = x]
    BY <1>2 DEF Heartbeat, Connect, Seen, TypeOK
  <2> QED
    BY <2>1, <2>2 DEF TypeOK
<1>3. CASE Revoke(a)
  <2> DEFINE x == [agent[a] EXCEPT !.revoked = TRUE, !.online = FALSE]
  <2>1. x \in AgentRow
    BY <1>1, AgentUpdates
  <2>2. agent' = [agent EXCEPT ![a] = x]
    BY <1>3 DEF Revoke, TypeOK
  <2> QED
    BY <2>1, <2>2 DEF TypeOK
<1>4. CASE AgentSilent(a)
  <2> DEFINE n == agent[a].silent + 1
             x == [agent[a] EXCEPT !.silent = n]
  <2>1. n \in 0..SilentCap
    BY <1>1, <1>4, AgeAssumption DEF AgentSilent, AgentRow
  <2>2. x \in AgentRow
    BY <1>1, <2>1, AgentUpdates
  <2>3. agent' = [agent EXCEPT ![a] = x]
    BY <1>4 DEF AgentSilent, TypeOK
  <2> HIDE DEF n, x
  <2> QED
    BY <2>2, <2>3 DEF TypeOK
<1> QED
  BY <1>2, <1>3, <1>4

LEMMA TypesKept ==
  ASSUME IInv, [Next]_vars
  PROVE  TypeOK'
<1>1. TypeOK
  BY DEF IInv, TableSound
<1>2. alert' \in [Ids -> Row] /\ call' \in [Threads -> Call]
  BY RowsKept, StepCalls, CallsTyped
<1>3. subjects' \subseteq Agents \cup Jobs \cup Runs
  BY <1>1 DEF TypeOK, Next, vars, world, MonitorStep, TickBegin, ListAgents,
     ListStale, ListJobs, Prune, ResolveAlive, SkipAgent, FlagAgent, RaiseStale,
     CheckMissed, Statement, FindFiring, Bump, Insert, ListFiring, CloseListed,
     ReportFailed, ReportCompleted, Connect, Heartbeat, Revoke, AgentSilent,
     Ack, ResolveByHand, RowAges, Forget, SetSchedule, WindowPasses
<1>4. caughtUp' \subseteq Jobs
  <2>1. CASE \E h \in Handlers, j \in Jobs : ReportCompleted(h, j)
    BY <1>1, <2>1 DEF ReportCompleted, TypeOK
  <2>2. CASE \E j \in Jobs : WindowPasses(j)
    BY <1>1, <2>2 DEF WindowPasses, TypeOK
  <2>3. CASE UNCHANGED caughtUp
    BY <1>1, <2>3 DEF TypeOK
  <2> QED
    BY <2>1, <2>2, <2>3 DEF Next, vars, world, MonitorStep, TickBegin, ListAgents,
     ListStale, ListJobs, Prune, ResolveAlive, SkipAgent, FlagAgent, RaiseStale,
     CheckMissed, Statement, FindFiring, Bump, Insert, ListFiring, CloseListed,
     ReportFailed, Connect, Heartbeat, Revoke, AgentSilent,
     Ack, ResolveByHand, RowAges, Forget, SetSchedule
<1>5. scheduled' \subseteq Jobs
  <2>1. CASE \E j \in Jobs : SetSchedule(j)
    BY <1>1, <2>1 DEF SetSchedule, TypeOK
  <2>2. CASE UNCHANGED scheduled
    BY <1>1, <2>2 DEF TypeOK
  <2> QED
    BY <2>1, <2>2 DEF Next, vars, world, MonitorStep, TickBegin, ListAgents,
     ListStale, ListJobs, Prune, ResolveAlive, SkipAgent, FlagAgent, RaiseStale,
     CheckMissed, Statement, FindFiring, Bump, Insert, ListFiring, CloseListed,
     ReportFailed, ReportCompleted, Connect, Heartbeat, Revoke, AgentSilent,
     Ack, ResolveByHand, RowAges, Forget, WindowPasses
<1>6. /\ mon' \in [phase : Phases, todo : Todo, seen : [Agents -> SeenRow]]
      /\ agent' \in [Agents -> AgentRow]
  <2>1. CASE MonitorStep
    BY <1>1, <2>1, TickTyped
  <2>2. CASE ~MonitorStep
    <3>1. UNCHANGED mon
      BY <2>2 DEF Next, vars, world, Statement, FindFiring, Bump, Insert,
         ListFiring, CloseListed, ReportFailed, ReportCompleted, Connect,
         Heartbeat, Revoke, AgentSilent, Ack, ResolveByHand, RowAges, Forget,
         SetSchedule, WindowPasses
    <3>2. CASE \E a \in Agents : \/ Heartbeat(a) \/ Revoke(a) \/ AgentSilent(a)
                                 \/ \E h \in Handlers : Connect(h, a)
      BY <1>1, <3>1, <3>2, AgentsTyped DEF TypeOK, Todo
    <3>3. CASE UNCHANGED agent
      BY <1>1, <3>1, <3>3 DEF TypeOK, Todo
    <3> QED
      BY <2>2, <3>2, <3>3 DEF Next, vars, world, Statement, FindFiring, Bump,
         Insert, ListFiring, CloseListed, ReportFailed, ReportCompleted, Ack,
         ResolveByHand, RowAges, Forget, SetSchedule, WindowPasses
  <2> QED
    BY <2>1, <2>2
<1> QED
  BY <1>2, <1>3, <1>4, <1>5, <1>6 DEF TypeOK, Todo

LEMMA InitInv == Init => IInv
<1> SUFFICES ASSUME Init PROVE IInv
  OBVIOUS
<1>1. NoAlert \in Row /\ Idle \in Call /\ FreshAgent \in AgentRow
  BY NewRows, CallMembers, AgeAssumption DEF FreshAgent, AgentRow
<1>2. Resting \in [phase : Phases, todo : SUBSET (Agents \cup Jobs \cup Runs),
                   seen : [Agents -> SeenRow]]
  BY AgeAssumption DEF Resting, Phases, NothingSeen, SeenRow
<1>3. TypeOK
  BY <1>1, <1>2 DEF Init, TypeOK
<1>4. OneFiringPerKey /\ OccurrencesCounted /\ RowsFilled
  BY DEF Init, OneFiringPerKey, OccurrencesCounted, RowsFilled, NoAlert
<1>5. OneOfflineAlertAnHour
  BY DEF Init, OneOfflineAlertAnHour, NoAlert, NoKey, OfflineKey
<1>6. OfflineRaises
  BY DEF Init, OfflineRaises, Idle, Threads
<1> QED
  BY <1>3, <1>4, <1>5, <1>6 DEF IInv, TableSound

LEMMA StepInv == IInv /\ [Next]_vars => IInv'
BY TypesKept, RowsKept, OneAnHourKept, OfflineRaisesKept DEF IInv, TableSound

LEMMA Invariance == Spec => []IInv
BY InitInv, StepInv, PTL DEF Spec

\* However raises, resolutions, prunes and people interleave, one row of a key
\* fires, and it has counted every raise that was coalesced into it.
THEOREM Table == Spec => []TableSound
<1>1. IInv => TableSound
  BY DEF IInv
<1> QED
  BY <1>1, Invariance, PTL

\* The flap guard counts before it raises, and nobody else raises its keys.
THEOREM FlapGuard == Spec => []OneOfflineAlertAnHour
<1>1. IInv => OneOfflineAlertAnHour
  BY DEF IInv
<1> QED
  BY <1>1, Invariance, PTL

-----------------------------------------------------------------------------
\* The refinement: which rows of AlertMachine a step moves.
MachineStatus == [i \in Ids |-> alert[i].status]
MachineKey == [i \in Ids |-> alert[i].key]

\* Rows S go from one of the states to another, under the same key unless they
\* leave the table.
Closes(S, from, to) ==
  /\ S \in SUBSET Ids
  /\ \A i \in S : /\ alert[i].status \in from /\ alert'[i].status = to
                  /\ alert'[i].key = IF to = "none" THEN NoKey ELSE alert[i].key
  /\ \A i \in Ids \ S : /\ alert'[i].status = alert[i].status
                        /\ alert'[i].key = alert[i].key

LEMMA ClosesIsClose ==
  ASSUME NEW S, NEW from, NEW to, Closes(S, from, to)
  PROVE  Machine!Close(S, from, to)
BY DEF Closes, Machine!Close

LEMMA GrowsIsInsert ==
  ASSUME TypeOK, Grows
  PROVE  \E i \in Ids : Machine!Insert(i, MachineKey'[i])
<1>1. PICK i \in Ids, k \in Keys :
        /\ alert[i].status = "none" /\ Firing(k) = {}
        /\ alert' = [alert EXCEPT ![i] = New(k)]
  BY DEF Grows
<1>2. New(k).key = k /\ New(k).status = "firing"
  BY DEF New
<1>3. alert'[i] = New(k) /\ \A j \in Ids \ {i} : alert'[j] = alert[j]
  BY <1>1 DEF TypeOK
<1>4. MachineKey'[i] = k
  BY <1>2, <1>3 DEF MachineKey
<1>5. \A j \in Ids : alert[j].key = k => alert[j].status # "firing"
  BY <1>1 DEF Firing
<1>6. /\ alert'[i].status = "firing" /\ alert'[i].key = k
      /\ \A j \in Ids \ {i} : /\ alert'[j].status = alert[j].status
                             /\ alert'[j].key = alert[j].key
  BY <1>2, <1>3
<1>7. Machine!Insert(i, MachineKey'[i])
  <2> DEFINE st == [x \in Ids |-> alert[x].status]
             ky == [x \in Ids |-> alert[x].key]
             n == MachineKey'[i]
  <2>1. st[i] = "none" /\ \A j \in Ids : ky[j] = n => st[j] # "firing"
    BY <1>1, <1>4, <1>5
  <2>2. [x \in Ids |-> alert'[x].status] = [st EXCEPT ![i] = "firing"]
    BY <1>6
  <2>3. [x \in Ids |-> alert'[x].key] = [ky EXCEPT ![i] = n]
    BY <1>4, <1>6
  <2> QED
    BY <2>1, <2>2, <2>3 DEF Machine!Insert
<1> QED
  BY <1>7

Rests == \A i \in Ids : alert'[i].status = alert[i].status
                        /\ alert'[i].key = alert[i].key

\* What each statement that writes the table is to AlertMachine.
LEMMA StepMoves ==
  ASSUME IInv, [Next]_vars
  PROVE  \/ Rests \/ Grows
         \/ \E S \in SUBSET Ids :
              \/ Closes(S, {"firing"}, "acknowledged")
              \/ Closes(S, {"firing", "acknowledged", "resolved"}, "resolved")
              \/ Closes(S, {"acknowledged", "resolved"}, "none")
<1>1. TypeOK /\ \A i \in Ids : alert[i] \in Row
  BY DEF IInv, TableSound, TypeOK
<1>2. \A i \in Ids : alert[i].status \in {"none", "firing", "acknowledged", "resolved"}
  BY <1>1 DEF Row
<1>3. ASSUME NEW t \in Threads, Bump(t)
      PROVE  Rests
  <2> DEFINE i == call[t].id
             x == alert[i]
  <2>1. i \in Ids /\ call[t] \in Call
    BY <1>1, <1>3, CallFields DEF Bump, TypeOK
  <2>2. /\ [x EXCEPT !.occ = More(@), !.counted = More(@)].status = x.status
        /\ [x EXCEPT !.occ = More(@), !.counted = More(@)].key = x.key
    BY <1>1, <2>1 DEF Row
  <2>3. \/ alert' = alert
        \/ alert' = [alert EXCEPT ![i] = [x EXCEPT !.occ = More(@), !.counted = More(@)]]
    BY <1>3 DEF Bump
  <2> QED
    BY <1>1, <2>1, <2>2, <2>3 DEF Rests, TypeOK
<1>4. ASSUME NEW t \in Threads, CloseListed(t)
      PROVE  \E S \in SUBSET Ids :
               Closes(S, {"firing", "acknowledged", "resolved"}, "resolved")
  <2> DEFINE S == {i \in Ids : i \in call[t].ids /\ alert[i].status # "none"}
  <2>1. \A i \in S : /\ alert'[i].status = "resolved"
                     /\ alert'[i].key = alert[i].key
    BY <1>1, <1>4 DEF CloseListed, Row
  <2>2. \A i \in Ids \ S : alert'[i] = alert[i]
    BY <1>4 DEF CloseListed
  <2> QED
    BY <1>2, <2>1, <2>2 DEF Closes
<1>5. ASSUME NEW n \in Ids, Ack(n)
      PROVE  Closes({n}, {"firing"}, "acknowledged")
  <2>1. /\ alert'[n].status = "acknowledged" /\ alert'[n].key = alert[n].key
        /\ \A i \in Ids \ {n} : alert'[i] = alert[i]
    BY <1>1, <1>5 DEF Ack, TypeOK, Row
  <2> QED
    BY <1>5, <2>1 DEF Closes, Ack
<1>6. ASSUME NEW n \in Ids, ResolveByHand(n)
      PROVE  Closes({n}, {"firing", "acknowledged", "resolved"}, "resolved")
  <2>1. /\ alert'[n].status = "resolved" /\ alert'[n].key = alert[n].key
        /\ \A i \in Ids \ {n} : alert'[i] = alert[i]
    BY <1>1, <1>6 DEF ResolveByHand, TypeOK, Row
  <2> QED
    BY <1>6, <2>1 DEF Closes, ResolveByHand
<1>7. ASSUME NEW n \in Ids, RowAges(n)
      PROVE  Rests
  BY <1>1, <1>7 DEF RowAges, Rests, TypeOK, Row
<1>8. NoAlert.status = "none" /\ NoAlert.key = NoKey
  BY DEF NoAlert
<1>9. ASSUME NEW n \in Ids, Forget(n)
      PROVE  Closes({n}, {"acknowledged", "resolved"}, "none")
  <2>1. alert'[n] = NoAlert /\ \A i \in Ids \ {n} : alert'[i] = alert[i]
    BY <1>1, <1>9 DEF Forget, TypeOK
  <2> QED
    BY <1>8, <1>9, <2>1 DEF Closes, Forget
<1>10. ASSUME Prune
       PROVE  \E S \in SUBSET Ids : Closes(S, {"acknowledged", "resolved"}, "none")
  <2> DEFINE S == {i \in Ids : /\ alert[i].age = "expired"
                              /\ alert[i].status \in {"acknowledged", "resolved"}}
  <2>1. \A i \in S : alert'[i] = NoAlert
    BY <1>10 DEF Prune
  <2>2. \A i \in Ids \ S : alert'[i] = alert[i]
    BY <1>2, <1>10 DEF Prune, IInv, RowsFilled
  <2> QED
    BY <1>8, <2>1, <2>2 DEF Closes
<1>11. CASE UNCHANGED alert
  BY <1>11 DEF Rests
<1>12. CASE \E t \in Threads : Statement(t)
  <2>1. PICK t \in Threads : Statement(t)
    BY <1>12
  <2>2. CASE Insert(t)
    <3>1. Grows \/ UNCHANGED alert
      BY <1>1, <2>2, CallFields DEF Insert, Grows, New, Set, TypeOK
    <3> QED
      BY <3>1, <1>11
  <2>3. CASE FindFiring(t) \/ ListFiring(t)
    BY <2>3, <1>11 DEF FindFiring, ListFiring
  <2> QED
    BY <2>1, <2>2, <2>3, <1>3, <1>4 DEF Statement
<1>13. CASE MonitorStep /\ ~Prune
  BY <1>11, <1>13 DEF MonitorStep, TickBegin, ListAgents, ListStale, ListJobs,
     ResolveAlive, SkipAgent, FlagAgent, RaiseStale, CheckMissed
<1>14. CASE \E n \in Ids : Ack(n) \/ ResolveByHand(n) \/ RowAges(n) \/ Forget(n)
  BY <1>5, <1>6, <1>7, <1>9, <1>14
<1> QED
  BY <1>10, <1>11, <1>12, <1>13, <1>14 DEF Next, vars, ReportFailed,
     ReportCompleted, Connect, Heartbeat, Revoke, AgentSilent, SetSchedule,
     WindowPasses

\* The statements, decided on reads that may be stale, implement the table that
\* AlertMachine promises: no closed alert fires again, no firing one is pruned.
THEOREM Implementation == Spec => ImplementsAlertMachine
<1>1. Init => Machine!Init
  BY DEF Init, Machine!Init, NoAlert
<1>2. ASSUME IInv, [Next]_vars
      PROVE  [Machine!Next]_<<MachineStatus, MachineKey>>
  <2>1. CASE Rests
    BY <2>1 DEF Rests, MachineStatus, MachineKey
  <2>2. CASE Grows
    BY <1>2, <2>2, GrowsIsInsert DEF IInv, TableSound, Machine!Next, MachineKey
  <2>3. CASE \E S \in SUBSET Ids :
               \/ Closes(S, {"firing"}, "acknowledged")
               \/ Closes(S, {"firing", "acknowledged", "resolved"}, "resolved")
               \/ Closes(S, {"acknowledged", "resolved"}, "none")
    BY <2>3, ClosesIsClose DEF Machine!Next
  <2> QED
    BY <1>2, <2>1, <2>2, <2>3, StepMoves
<1> QED
  BY <1>1, <1>2, Invariance, PTL DEF Spec, ImplementsAlertMachine, Machine!Spec,
     MachineStatus, MachineKey
=============================================================================
