------------------------ MODULE RunLifecycle_proofs ------------------------
(***************************************************************************)
(* What module RunLifecycle keeps for every set of runs, agents and        *)
(* handler goroutines, and every choice of the thresholds.                 *)
(*                                                                         *)
(* The row's own history (RowHistory) and what a handler that is between   *)
(* its read and its write may still do (PendingReports) are what the       *)
(* invariants of the runs need to be inductive: a report that waits was    *)
(* decided on a claimed status and leads where CanTransition allows.       *)
(***************************************************************************)
EXTENDS RunLifecycle, TLAPS

\* started_at is set by the claim, before any other status is reached.
RowHistory ==
  \A r \in Runs : run[r].status \in {NoRow, "PENDING"} => ~run[r].started

\* What UpdateStatus has checked still holds of what it read.
PendingReports ==
  \A q \in Reqs :
    req[q].op = "report" => CanTransition(req[q].read, req[q].to)

IInv == TypeOK /\ EndTimesMatch /\ NeverClaimed /\ RowHistory /\ PendingReports

-----------------------------------------------------------------------------
\* The fields of a request, by the operation that is being handled.
LEMMA RequestFields ==
  ASSUME NEW x \in Request \cup {Idle}
  PROVE  /\ x.op = "report" => /\ x.run \in Runs
                               /\ x.read \in ClaimedStatus
                               /\ x.to \in BackupRunStatus
                               /\ x.counters \in Counters
         /\ x.op = "progress" => x.run \in Runs /\ x.counters \in Counters
         /\ x.op = "cancel" => x.run \in Runs /\ x.read \in InFlightStatus
BY DEF Request, Idle

\* The age of a row or of a heartbeat stays a number below the threshold that
\* caps it, as the monitor tells no ages apart beyond it.
LEMMA Older_Bounded ==
  ASSUME NEW cap \in Nat, NEW age \in 0..cap
  PROVE  Older(age, cap) \in 0..cap
BY DEF Older

\* What the handlers write into a row leaves it a row.
LEMMA RowUpdates ==
  ASSUME NEW x \in Row, NEW to \in RowStatus, NEW age \in 0..StaleAfter,
         NEW ended \in {NoTime} \cup (0..RetainFor)
  PROVE  /\ [x EXCEPT !.cancel = TRUE, !.idle = age] \in Row
         /\ [x EXCEPT !.cancel = TRUE, !.idle = age, !.status = to] \in Row
         /\ [x EXCEPT !.status = to, !.idle = age, !.ended = ended] \in Row
         /\ [x EXCEPT !.idle = age, !.ended = ended] \in Row
BY DEF Row

\* What a heartbeat, a claim and the monitor write into an agent row leaves it
\* one.
LEMMA AgentRowUpdates ==
  ASSUME NEW x \in AgentRow, NEW age \in 0..QuietCap
  PROVE  /\ [x EXCEPT !.quiet = age] \in AgentRow
         /\ [x EXCEPT !.quiet = age, !.online = TRUE] \in AgentRow
BY DEF AgentRow

\* The thresholds of the monitor are natural numbers.
LEMMA QuietCap_Nat == QuietCap \in Nat /\ StaleAfter \in Nat /\ RetainFor \in Nat
BY ThresholdAssumption DEF QuietCap

\* No run, no request and no sweep under way: the database the server starts
\* with satisfies the invariant.
LEMMA InitInv == Init => IInv
BY AgentOfAssumption, ThresholdAssumption, MaxRestartsAssumption,
   CountersAssumption, QuietCap_Nat
   DEF Init, IInv, TypeOK, EndTimesMatch, NeverClaimed, RowHistory,
       PendingReports, Row, AgentRow, Idle, Visible, RowStatus, NoRow, Deleted,
       BackupRunStatus, InFlightStatus, ClaimedStatus, TerminalStatus, NoTime

\* The parts that speak of rows and requests survive a step that changes
\* neither, and the parts that speak of requests survive their end.
LEMMA RowsUntouched ==
  ASSUME IInv, UNCHANGED <<run, req>>
  PROVE  EndTimesMatch' /\ NeverClaimed' /\ RowHistory' /\ PendingReports'
BY DEF IInv, EndTimesMatch, NeverClaimed, RowHistory, PendingReports, Visible

\* Answering a request, whatever it was, keeps the parts that speak of requests.
LEMMA RequestEnds ==
  ASSUME IInv, NEW q \in Reqs, req' = [req EXCEPT ![q] = Idle]
  PROVE  req' \in [Reqs -> Request \cup {Idle}] /\ PendingReports'
BY DEF IInv, TypeOK, PendingReports, Idle

\* EndTimesMatch, NeverClaimed and RowHistory, as they bind one row.
RowFits(x) ==
  /\ x.status \in {"COMPLETED", "FAILED"} => x.ended # NoTime
  /\ x.ended # NoTime => x.status \in TerminalStatus \cup {Deleted}
  /\ x.status \in BackupRunStatus /\ ~x.started => x.status \in {"PENDING", "CANCELLED"}
  /\ x.status \in {NoRow, "PENDING"} => ~x.started

\* Every row fits.
LEMMA RowsFit ==
  ASSUME IInv, NEW r \in Runs
  PROVE  run[r] \in Row /\ RowFits(run[r])
BY DEF IInv, TypeOK, RowFits, EndTimesMatch, NeverClaimed, RowHistory, Visible

\* A write that leaves the one row it names fitting keeps what is said of all.
LEMMA OneRowWritten ==
  ASSUME IInv, NEW r \in Runs, NEW x \in Row, RowFits(x),
         run' = [run EXCEPT ![r] = x]
  PROVE  run' \in [Runs -> Row] /\ EndTimesMatch' /\ NeverClaimed' /\ RowHistory'
<1>1. run' \in [Runs -> Row]
  BY DEF IInv, TypeOK
<1>2. \A y \in Runs : RowFits(run'[y])
  <2>1. \A y \in Runs : run'[y] = IF y = r THEN x ELSE run[y]
    BY DEF IInv, TypeOK
  <2> QED
    BY <2>1, RowsFit
<1> QED
  BY <1>1, <1>2 DEF RowFits, EndTimesMatch, NeverClaimed, RowHistory, Visible

\* What the handlers change of a row in flight leaves it fitting: a flag, its
\* age, its counters, or its status and end time together.
LEMMA UpdatesFit ==
  ASSUME NEW x \in Row, RowFits(x), NEW n \in Counters
  PROVE  /\ RowFits([x EXCEPT !.cancel = TRUE, !.idle = 0])
         /\ RowFits([x EXCEPT !.cancel = TRUE, !.idle = 0, !.status = "CANCELLED"])
         /\ RowFits([x EXCEPT !.idle = 0, !.counters = n])
<1>1. /\ [x EXCEPT !.cancel = TRUE, !.idle = 0].status = x.status
      /\ [x EXCEPT !.cancel = TRUE, !.idle = 0].ended = x.ended
      /\ [x EXCEPT !.cancel = TRUE, !.idle = 0].started = x.started
      /\ [x EXCEPT !.idle = 0, !.counters = n].status = x.status
      /\ [x EXCEPT !.idle = 0, !.counters = n].ended = x.ended
      /\ [x EXCEPT !.idle = 0, !.counters = n].started = x.started
  BY DEF Row
<1> DEFINE y == [x EXCEPT !.cancel = TRUE, !.idle = 0, !.status = "CANCELLED"]
<1>2. y.status = "CANCELLED"
  BY DEF Row
<1>3. RowFits(y)
  <2> HIDE DEF y
  <2> QED
    BY <1>2 DEF RowFits, TerminalStatus, NoRow
<1> QED
  BY <1>1, <1>3 DEF RowFits

-----------------------------------------------------------------------------
(* One lemma per kind of step. *)

\* A run that is inserted or claimed (RunNow, ClaimRun) keeps the invariant.
LEMMA RunStepInv ==
  ASSUME IInv, NEW r \in Runs, RunStep(r)
  PROVE  IInv'
<1> USE AgentOfAssumption, ThresholdAssumption, QuietCap_Nat
    DEF IInv, TypeOK, EndTimesMatch, NeverClaimed, RowHistory, Row, AgentRow,
        RowStatus, BackupRunStatus, InFlightStatus, ClaimedStatus,
        TerminalStatus, NoRow, Deleted, NoTime, Visible
<1>1. CASE CreateRun(r)
  BY <1>1 DEF CreateRun, PendingReports
<1>2. CASE ClaimRun(r)
  BY <1>2 DEF ClaimRun, Touched, CanCall, PendingReports
<1>3. CASE ExpireRun(r)
  BY <1>3 DEF ExpireRun, Terminal, PendingReports
<1> QED
  BY <1>1, <1>2, <1>3 DEF RunStep

\* Heartbeats, the OFFLINE flip, stops, starts and the deletion of an agent keep
\* the invariant: none of them writes a run.
LEMMA AgentStepInv ==
  ASSUME IInv, NEW a \in Agents, AgentStep(a)
  PROVE  IInv'
<1>1. UNCHANGED <<run, req, sweep, lost, restarts>>
  BY DEF AgentStep, Heartbeat, AgentStops, AgentStarts, DeleteAgent, MarkOffline
<1>2. agent' \in [Agents -> AgentRow]
  <2> USE DEF IInv, TypeOK, AgentRow
  <2>1. CASE Heartbeat(a)
    <3>1. agent' = [agent EXCEPT ![a] =
                      [@ EXCEPT !.quiet = 0, !.online = TRUE]]
      BY <2>1 DEF Heartbeat, Touched
    <3>2. agent[a] \in AgentRow /\ 0 \in 0..QuietCap
      BY QuietCap_Nat DEF AgentRow
    <3>3. [agent[a] EXCEPT !.quiet = 0, !.online = TRUE] \in AgentRow
      BY <3>2, AgentRowUpdates
    <3> HIDE DEF AgentRow
    <3> QED
      BY <3>1, <3>3
  <2>2. CASE AgentStops(a)
    BY <2>2 DEF AgentStops
  <2>3. CASE AgentStarts(a)
    BY <2>3 DEF AgentStarts
  <2>4. CASE DeleteAgent(a)
    BY <2>4 DEF DeleteAgent
  <2>5. CASE MarkOffline(a)
    BY <2>5 DEF MarkOffline
  <2> QED
    BY <2>1, <2>2, <2>3, <2>4, <2>5 DEF AgentStep
<1> QED
  BY <1>1, <1>2, RowsUntouched DEF IInv, TypeOK

\* Cancel keeps the invariant, though it writes on what it read before: it only
\* reads PENDING and claimed runs, and never touches the two times of a run.
LEMMA CancelInv ==
  ASSUME IInv, NEW q \in Reqs,
         (\E r \in Runs : CancelRead(q, r)) \/ CancelWrite(q)
  PROVE  IInv'
<1>1. CASE \E r \in Runs : CancelRead(q, r)
  <2>1. PICK r \in Runs : CancelRead(q, r)
    BY <1>1
  <2>2. run[r].status \in InFlightStatus
    BY <2>1 DEF CancelRead, CanTransition, InFlightStatus, ClaimedStatus
  <2>3. req' \in [Reqs -> Request \cup {Idle}] /\ PendingReports'
    BY <2>1, <2>2 DEF CancelRead, IInv, TypeOK, PendingReports, Request
  <2> QED
    BY <2>1, <2>3 DEF CancelRead, IInv, TypeOK, EndTimesMatch, NeverClaimed,
       RowHistory, Visible
<1>2. CASE CancelWrite(q)
  <2>1. req[q].run \in Runs
    BY <1>2, RequestFields DEF CancelWrite, IInv, TypeOK
  <2>2. req' \in [Reqs -> Request \cup {Idle}] /\ PendingReports'
    BY <1>2, RequestEnds DEF CancelWrite
  <2>3. run' \in [Runs -> Row] /\ EndTimesMatch' /\ NeverClaimed' /\ RowHistory'
    <3> DEFINE r == req[q].run
               flagged == [run[r] EXCEPT !.cancel = TRUE, !.idle = 0]
               ended == [run[r] EXCEPT !.cancel = TRUE, !.idle = 0,
                                       !.status = "CANCELLED"]
    <3>1. run[r] \in Row /\ RowFits(run[r]) /\ 0 \in Counters
      BY <2>1, RowsFit, CountersAssumption
    <3>2. RowFits(flagged) /\ RowFits(ended)
      BY <3>1, UpdatesFit
    <3>3. flagged \in Row /\ ended \in Row
      <4>1. 0 \in 0..StaleAfter /\ NoTime \in {NoTime} \cup (0..RetainFor)
        BY QuietCap_Nat
      <4>2. "CANCELLED" \in RowStatus
        BY DEF RowStatus, BackupRunStatus, TerminalStatus
      <4> QED
        BY <3>1, <4>1, <4>2, RowUpdates
    <3>4. CASE Visible(r) /\ req[q].read = "PENDING"
      <4>1. run' = [run EXCEPT ![r] = ended]
        BY <1>2, <3>4 DEF CancelWrite
      <4> HIDE DEF r, ended
      <4> QED
        BY <2>1, <3>2, <3>3, <4>1, OneRowWritten DEF r
    <3>5. CASE Visible(r) /\ req[q].read # "PENDING"
      <4>1. run' = [run EXCEPT ![r] = [run[r] EXCEPT !.cancel = TRUE, !.idle = 0,
                                                     !.status = @]]
        BY <1>2, <3>5 DEF CancelWrite
      <4>2. \A x \in Row : [x EXCEPT !.cancel = TRUE, !.idle = 0, !.status = @] =
                           [x EXCEPT !.cancel = TRUE, !.idle = 0]
        BY DEF Row
      <4>3. run' = [run EXCEPT ![r] = flagged]
        BY <3>1, <4>1, <4>2
      <4> HIDE DEF r, flagged
      <4> QED
        BY <2>1, <3>2, <3>3, <4>3, OneRowWritten DEF r
    <3>6. CASE ~Visible(r)
      <4>1. run' = run
        BY <1>2, <3>6 DEF CancelWrite
      <4> QED
        BY <4>1 DEF IInv, TypeOK, EndTimesMatch, NeverClaimed, RowHistory, Visible
    <3> QED
      BY <3>4, <3>5, <3>6
  <2> QED
    BY <1>2, <2>2, <2>3 DEF CancelWrite, IInv, TypeOK
<1> QED
  BY <1>1, <1>2

\* The read of UpdateStatus changes the request only, and lets it pass only with
\* a claimed status.
LEMMA ReportReadInv ==
  ASSUME IInv, NEW q \in Reqs, NEW r \in Runs, NEW to \in BackupRunStatus,
         NEW n \in Counters, ReportRead(q, r, to, n)
  PROVE  IInv'
<1>1. CanTransition(run[r].status, to) => run[r].status \in ClaimedStatus
  BY DEF ReportRead, CanTransition, ClaimedStatus, IInv, RowHistory
<1>2. req' \in [Reqs -> Request \cup {Idle}] /\ PendingReports'
  BY <1>1 DEF ReportRead, IInv, TypeOK, PendingReports, Request
<1> QED
  BY <1>2 DEF ReportRead, IInv, TypeOK, EndTimesMatch, NeverClaimed,
     RowHistory, Visible

\* The writes of UpdateStatus keep the invariant: the conditional one finds the
\* claimed status it read, and the progress one writes counters only.
LEMMA ReportWriteInv ==
  ASSUME IInv, NEW q \in Reqs, ReportWrite(q) \/ ProgressWrite(q)
  PROVE  IInv'
<1>1. /\ req[q].run \in Runs
      /\ req[q].counters \in Counters
      /\ req[q].op = "report" => /\ req[q].read \in ClaimedStatus
                                 /\ req[q].to \in BackupRunStatus
                                 /\ CanTransition(req[q].read, req[q].to)
  BY RequestFields DEF ReportWrite, ProgressWrite, IInv, TypeOK, PendingReports
<1>2. req' \in [Reqs -> Request \cup {Idle}] /\ PendingReports'
  BY RequestEnds DEF ReportWrite, ProgressWrite
<1>3. run' \in [Runs -> Row] /\ EndTimesMatch' /\ NeverClaimed' /\ RowHistory'
  <2> DEFINE r == req[q].run
             to == req[q].to
             n == req[q].counters
  <2>1. r \in Runs /\ n \in Counters /\ run[r] \in Row /\ RowFits(run[r])
    BY <1>1, RowsFit
  <2>2. CASE run' = run
    BY <2>2 DEF IInv, TypeOK, EndTimesMatch, NeverClaimed, RowHistory, Visible
  <2>3. CASE ReportWrite(q) /\ run[r].status = req[q].read
    <3> DEFINE ended == IF Ends(to) THEN 0 ELSE run[r].ended
               x == [run[r] EXCEPT !.status = to, !.idle = 0, !.ended = ended,
                                   !.counters = n]
    <3>1. run' = [run EXCEPT ![r] = x]
      BY <2>3 DEF ReportWrite
    <3>2. run[r].status \in ClaimedStatus /\ to \in BackupRunStatus
          /\ to \in {"UPLOADING", "VERIFYING"} \cup TerminalStatus
      BY <1>1, <2>3 DEF ReportWrite, CanTransition, ClaimedStatus, TerminalStatus
    <3>3. run[r].started /\ run[r].ended = NoTime
      BY <2>1, <3>2 DEF RowFits, BackupRunStatus, InFlightStatus, ClaimedStatus,
         TerminalStatus, Deleted
    <3>4. ended \in {NoTime} \cup (0..RetainFor) /\ 0 \in 0..StaleAfter
          /\ to \in RowStatus
      BY <3>2, <3>3, QuietCap_Nat DEF RowStatus
    <3>5. ended # NoTime <=> to \in {"COMPLETED", "FAILED"}
      BY <3>3 DEF Ends, NoTime
    <3> HIDE DEF ended, to, n, r
    <3>6. /\ x \in Row
          /\ x.status = to /\ x.ended = ended /\ x.started = run[r].started
      BY <2>1, <3>4 DEF Row
    <3> HIDE DEF x
    <3>7. RowFits(x)
      BY <3>2, <3>3, <3>5, <3>6 DEF RowFits, TerminalStatus, NoRow
    <3> QED
      BY <2>1, <3>1, <3>6, <3>7, OneRowWritten
  <2>4. CASE ProgressWrite(q) /\ Visible(r)
    <3> DEFINE x == [run[r] EXCEPT !.idle = 0, !.counters = n]
    <3>1. run' = [run EXCEPT ![r] = x]
      BY <2>4 DEF ProgressWrite
    <3>2. 0 \in 0..StaleAfter
      BY QuietCap_Nat
    <3> HIDE DEF r, n
    <3>3. x \in Row
      BY <2>1, <3>2 DEF Row
    <3>4. RowFits(x)
      BY <2>1, UpdatesFit
    <3> HIDE DEF x
    <3> QED
      BY <2>1, <3>1, <3>3, <3>4, OneRowWritten
  <2> QED
    BY <2>2, <2>3, <2>4 DEF ReportWrite, ProgressWrite
<1> QED
  BY <1>2, <1>3 DEF ReportWrite, ProgressWrite, IInv, TypeOK

\* The stale-run sweep keeps the invariant: its condition on the status makes up
\* for the age of its list.
LEMMA SweepInv ==
  ASSUME IInv, SweepList \/ \E s \in sweep : SweepRun(s)
  PROVE  IInv'
<1>1. CASE SweepList
  <2>1. UNCHANGED <<run, req, agent, lost, restarts>>
    BY <1>1 DEF SweepList
  <2>2. sweep' \subseteq Snapshot
    BY <1>1 DEF SweepList, Stale, Claimed, Snapshot, IInv, TypeOK, Row
  <2> QED
    BY <2>1, <2>2, RowsUntouched DEF IInv, TypeOK
<1>2. CASE \E s \in sweep : SweepRun(s)
  <2>1. PICK s \in sweep : SweepRun(s)
    BY <1>2
  <2>2. s.run \in Runs /\ s.read \in ClaimedStatus /\ s.cancel \in BOOLEAN
    BY DEF IInv, TypeOK, Snapshot
  <2>3. /\ sweep' \subseteq Snapshot
        /\ lost' \subseteq Runs
        /\ UNCHANGED <<agent, req, restarts>>
    BY <2>1, <2>2 DEF SweepRun, IInv, TypeOK
  <2>4. CASE UNCHANGED run
    BY <2>3, <2>4, RowsUntouched DEF IInv, TypeOK
  <2>5. CASE run' # run
    <3> DEFINE r == s.run
               to == IF s.cancel THEN "CANCELLED" ELSE "FAILED"
    <3>1. /\ run[r].status = s.read
          /\ run' = [run EXCEPT ![r] = [@ EXCEPT !.status = to, !.idle = 0,
                                                !.ended = 0]]
      BY <2>1, <2>2, <2>5 DEF SweepRun, IInv, TypeOK, Row
    <3>2. run[r].started
      BY <2>2, <3>1 DEF IInv, NeverClaimed, Visible, BackupRunStatus,
         InFlightStatus, ClaimedStatus
    <3>3. /\ run'[r].status = to
          /\ run'[r].ended = 0
          /\ run'[r].started = run[r].started
          /\ \A x \in Runs : x # r => run'[x] = run[x]
      BY <2>2, <3>1 DEF IInv, TypeOK, Row
    <3>4. run' \in [Runs -> Row]
      <4>1. run[r] \in Row /\ 0 \in 0..StaleAfter /\ 0 \in 0..RetainFor
        BY <2>2, QuietCap_Nat DEF IInv, TypeOK
      <4>2. to \in RowStatus
        BY DEF RowStatus, BackupRunStatus, TerminalStatus
      <4>3. [run[r] EXCEPT !.status = to, !.idle = 0, !.ended = 0] \in Row
        BY <4>1, <4>2, RowUpdates
      <4> HIDE DEF to
      <4> QED
        BY <2>2, <3>1, <4>3 DEF IInv, TypeOK
    <3>5. EndTimesMatch'
      BY <3>3 DEF IInv, EndTimesMatch, NoTime, TerminalStatus
    <3>6. NeverClaimed' /\ RowHistory'
      BY <3>2, <3>3 DEF IInv, NeverClaimed, RowHistory, Visible, NoRow
    <3>7. PendingReports'
      BY <2>3 DEF IInv, PendingReports
    <3> QED
      BY <2>3, <3>4, <3>5, <3>6, <3>7 DEF IInv, TypeOK
  <2> QED
    BY <2>4, <2>5
<1> QED
  BY <1>1, <1>2

\* A server restart forgets requests and the sweep, and keeps every row.
LEMMA RestartInv ==
  ASSUME IInv, ServerRestart
  PROVE  IInv'
BY MaxRestartsAssumption DEF ServerRestart, IInv, TypeOK, EndTimesMatch,
   NeverClaimed, RowHistory, PendingReports, Visible, Idle

\* Time passes over rows and agents and changes their ages only.
LEMMA TickInv ==
  ASSUME IInv, Tick
  PROVE  IInv'
<1>1. ASSUME NEW r \in Runs
      PROVE  /\ run'[r] \in Row
             /\ run'[r].status = run[r].status
             /\ run'[r].started = run[r].started
             /\ run'[r].ended = NoTime <=> run[r].ended = NoTime
  <2> DEFINE idle  == IF Claimed(r) THEN Older(run[r].idle, StaleAfter)
                                    ELSE run[r].idle
             ended == IF run[r].ended = NoTime THEN run[r].ended
                      ELSE Older(run[r].ended, RetainFor)
  <2>1. run[r] \in Row
    BY DEF IInv, TypeOK
  <2>2. /\ idle \in 0..StaleAfter
        /\ ended \in {NoTime} \cup (0..RetainFor)
        /\ ended = NoTime <=> run[r].ended = NoTime
    BY <2>1, QuietCap_Nat, Older_Bounded DEF Row, NoTime
  <2>3. run'[r] = [run[r] EXCEPT !.idle = idle, !.ended = ended]
    BY <2>1 DEF Tick, Row
  <2>4. /\ run'[r].status = run[r].status
        /\ run'[r].started = run[r].started
        /\ run'[r].ended = ended
    <3> HIDE DEF idle, ended
    <3> QED
      BY <2>1, <2>3 DEF Row
  <2>5. [run[r] EXCEPT !.idle = idle, !.ended = ended] \in Row
    <3>1. "FAILED" \in RowStatus
      BY DEF RowStatus, BackupRunStatus, TerminalStatus
    <3> HIDE DEF idle, ended
    <3> QED
      BY <2>1, <2>2, <3>1, RowUpdates
  <2> QED
    BY <2>2, <2>3, <2>4, <2>5
<1>2. run' \in [Runs -> Row]
  BY <1>1 DEF Tick
<1>3. agent' \in [Agents -> AgentRow]
  <2>1. ASSUME NEW a \in Agents
        PROVE  Older(agent[a].quiet, QuietCap) \in 0..QuietCap
    BY QuietCap_Nat, Older_Bounded DEF IInv, TypeOK, AgentRow
  <2> QED
    BY <2>1, AgentRowUpdates DEF Tick, IInv, TypeOK
<1>4. UNCHANGED <<req, sweep, lost, restarts>>
  BY DEF Tick
<1> QED
  BY <1>1, <1>2, <1>3, <1>4 DEF IInv, TypeOK, EndTimesMatch, NeverClaimed,
     RowHistory, PendingReports, Visible

\* Every step of the system keeps the invariant, one lemma per kind of step.
LEMMA NextInv == IInv /\ [Next]_vars => IInv'
<1> SUFFICES ASSUME IInv, [Next]_vars
             PROVE  IInv'
  OBVIOUS
<1>1. CASE \E r \in Runs : RunStep(r)
  BY <1>1, RunStepInv
<1>2. CASE \E q \in Reqs : RequestStep(q)
  BY <1>2, CancelInv, ReportReadInv, ReportWriteInv DEF RequestStep
<1>3. CASE \E a \in Agents : AgentStep(a)
  BY <1>3, AgentStepInv
<1>4. CASE SweepList \/ \E s \in sweep : SweepRun(s)
  BY <1>4, SweepInv
<1>5. CASE ServerRestart \/ Tick
  BY <1>5, RestartInv, TickInv
<1>6. CASE UNCHANGED vars
  BY <1>6, RowsUntouched DEF vars, IInv, TypeOK
<1> QED
  BY <1>1, <1>2, <1>3, <1>4, <1>5, <1>6 DEF Next

\* The invariant holds in every reachable state.
LEMMA Invariance == Spec => []IInv
BY InitInv, NextInv, PTL DEF Spec

\* Every column keeps its type, in the rows and in what the handlers remember
\* of them between their reads and their writes.
THEOREM TypeInvariant == Spec => []TypeOK
<1>1. IInv => TypeOK
  BY DEF IInv
<1> QED
  BY <1>1, Invariance, PTL

\* A run that ended has its completed_at and a run in flight has none, although
\* UpdateStatus, Cancel and the stale-run sweep set the two columns apart.
THEOREM EndTimes == Spec => []EndTimesMatch
<1>1. IInv => EndTimesMatch
  BY DEF IInv
<1> QED
  BY <1>1, Invariance, PTL

\* A run nobody has claimed is PENDING or CANCELLED, never anything an agent
\* would have to report.
THEOREM Unclaimed == Spec => []NeverClaimed
<1>1. IInv => NeverClaimed
  BY DEF IInv
<1> QED
  BY <1>1, Invariance, PTL

-----------------------------------------------------------------------------
(* What a step does to the statuses: at most one run moves, and only along *)
(* an edge of the abstract machine.                                        *)

Edge(from, to) ==
  \/ from = NoRow /\ to = "PENDING"
  \/ CanTransition(from, to)
  \/ from \in {"COMPLETED", "FAILED"} /\ to = "CANCELLED"
  \/ from \in TerminalStatus /\ to = Deleted

Moves(r) == /\ Edge(run[r].status, run'[r].status)
            /\ \A x \in Runs \ {r} : run'[x].status = run[x].status

Rests == \A r \in Runs : run'[r].status = run[r].status

\* An insert and a claim move one run along an edge of the machine.
LEMMA RunStepMoves ==
  ASSUME IInv, NEW r \in Runs, RunStep(r)
  PROVE  Moves(r)
BY DEF RunStep, CreateRun, ClaimRun, ExpireRun, Terminal, Moves, Edge,
   CanTransition, IInv, TypeOK, Row

\* Cancel and UpdateStatus leave every status alone or move one run along an
\* edge, a late cancellation included.
LEMMA RequestStepMoves ==
  ASSUME IInv, NEW q \in Reqs, RequestStep(q)
  PROVE  Rests \/ \E r \in Runs : Moves(r)
<1>1. CASE UNCHANGED run
  BY <1>1 DEF Rests
<1>2. CASE CancelWrite(q)
  <2>1. req[q].run \in Runs
    BY <1>2, RequestFields DEF CancelWrite, IInv, TypeOK
  <2>2. /\ \A x \in Runs \ {req[q].run} : run'[x].status = run[x].status
        /\ \/ run'[req[q].run].status = run[req[q].run].status
           \/ Visible(req[q].run) /\ run'[req[q].run].status = "CANCELLED"
    BY <1>2, <2>1 DEF CancelWrite, IInv, TypeOK, Row
  <2> QED
    BY <2>1, <2>2 DEF Rests, Moves, Edge, CanTransition, Visible,
       BackupRunStatus, InFlightStatus, ClaimedStatus, TerminalStatus
<1>3. CASE ReportWrite(q)
  <2>1. req[q].run \in Runs /\ CanTransition(req[q].read, req[q].to)
    BY <1>3, RequestFields DEF ReportWrite, IInv, TypeOK, PendingReports
  <2>2. /\ \A x \in Runs \ {req[q].run} : run'[x].status = run[x].status
        /\ \/ run'[req[q].run].status = run[req[q].run].status
           \/ /\ run[req[q].run].status = req[q].read
              /\ run'[req[q].run].status = req[q].to
    <3>1. CASE run[req[q].run].status = req[q].read
      <4> DEFINE r == req[q].run
                 x == [run[r] EXCEPT !.status = req[q].to, !.idle = 0,
                         !.ended = IF Ends(req[q].to) THEN 0 ELSE run[r].ended,
                         !.counters = req[q].counters]
      <4>1. run' = [run EXCEPT ![r] = x] /\ run \in [Runs -> Row]
        BY <1>3, <3>1 DEF ReportWrite, IInv, TypeOK
      <4>2. run[r] \in Row
        BY <2>1, <4>1
      <4>3. x.status = req[q].to
        BY <4>2 DEF Row
      <4> HIDE DEF x
      <4> QED
        BY <2>1, <3>1, <4>1, <4>3
    <3>2. CASE run' = run
      BY <3>2
    <3> QED
      BY <1>3, <3>1, <3>2 DEF ReportWrite
  <2> DEFINE r == req[q].run
  <2>3. CASE run'[r].status = run[r].status
    BY <2>1, <2>2, <2>3 DEF Rests
  <2>4. CASE run[r].status = req[q].read /\ run'[r].status = req[q].to
    <3>1. CanTransition(run[r].status, run'[r].status)
      BY <2>1, <2>4
    <3> HIDE DEF r
    <3> QED
      BY <2>1, <2>2, <3>1 DEF Moves, Edge, r
  <2> QED
    BY <2>2, <2>3, <2>4
<1>4. CASE ProgressWrite(q)
  <2>1. req[q].run \in Runs
    BY <1>4, RequestFields DEF ProgressWrite, IInv, TypeOK
  <2> QED
    BY <1>4, <2>1 DEF ProgressWrite, Rests, IInv, TypeOK, Row
<1> QED
  BY <1>1, <1>2, <1>3, <1>4 DEF RequestStep, CancelRead, ReportRead

\* The sweep moves the run it is at, if any, from a claimed status to its end.
LEMMA SweepMoves ==
  ASSUME IInv, NEW s \in sweep, SweepRun(s)
  PROVE  Rests \/ Moves(s.run)
<1>1. s.run \in Runs /\ s.read \in ClaimedStatus /\ s.cancel \in BOOLEAN
  BY DEF IInv, TypeOK, Snapshot
<1>2. /\ \A x \in Runs \ {s.run} : run'[x].status = run[x].status
      /\ \/ run'[s.run].status = run[s.run].status
         \/ /\ run[s.run].status = s.read
            /\ run'[s.run].status \in {"CANCELLED", "FAILED"}
  BY <1>1 DEF SweepRun, IInv, TypeOK, Row
<1> QED
  BY <1>1, <1>2 DEF Rests, Moves, Edge, CanTransition, ClaimedStatus

\* Every step moves at most one run, and along an edge of the machine.
LEMMA StepMoves ==
  ASSUME IInv, [Next]_vars
  PROVE  Rests \/ \E r \in Runs : Moves(r)
<1>1. CASE \E r \in Runs : RunStep(r)
  BY <1>1, RunStepMoves
<1>2. CASE \E q \in Reqs : RequestStep(q)
  BY <1>2, RequestStepMoves
<1>3. CASE \E s \in sweep : SweepRun(s)
  <2>1. PICK s \in sweep : SweepRun(s)
    BY <1>3
  <2>2. s.run \in Runs
    BY <2>1 DEF IInv, TypeOK, Snapshot
  <2> QED
    BY <2>1, <2>2, SweepMoves
<1>4. CASE Tick
  BY <1>4 DEF Tick, Rests, IInv, TypeOK, Row
<1>5. CASE UNCHANGED run
  BY <1>5 DEF Rests
<1> QED
  BY <1>1, <1>2, <1>3, <1>4, <1>5 DEF Next, vars, AgentStep, Heartbeat,
     AgentStops, AgentStarts, DeleteAgent, MarkOffline, SweepList,
     ServerRestart

\* Whatever hits a settled run - a late report, a sweep working from an old
\* list, a cancel decided before the run settled - can only turn it CANCELLED.
THEOREM SettledRuns == Spec => SettledOnlyCancelled
<1>1. ASSUME IInv, [Next]_vars
      PROVE  [\A r \in Runs : Terminal(r) =>
                run'[r].status \in {run[r].status, "CANCELLED", Deleted}]_run
  BY <1>1, StepMoves DEF Rests, Moves, Edge, CanTransition, Terminal,
     TerminalStatus, NoRow
<1> QED
  BY <1>1, Invariance, PTL DEF Spec, SettledOnlyCancelled

\* No two claims hand out the same run: RUNNING is entered from PENDING only,
\* by a run that has no started_at yet.
THEOREM Starts == Spec => StartedOnce
<1>1. ASSUME IInv, [Next]_vars
      PROVE  [\A r \in Runs :
                run[r].status # "RUNNING" /\ run'[r].status = "RUNNING" =>
                  run[r].status = "PENDING" /\ ~run[r].started]_run
  <2>1. ASSUME NEW r \in Runs,
               run[r].status # "RUNNING", run'[r].status = "RUNNING"
        PROVE  run[r].status = "PENDING"
    BY <1>1, <2>1, StepMoves DEF Rests, Moves, Edge, CanTransition, Deleted
  <2> QED
    BY <1>1, <2>1 DEF IInv, RowHistory
<1> QED
  BY <1>1, Invariance, PTL DEF Spec, StartedOnce

\* The handlers and the sweep, however they interleave, implement the abstract
\* machine of statuses.
THEOREM Implementation == Spec => ImplementsRunMachine
<1> DEFINE st == [r \in Runs |-> run[r].status]
<1>1. Init => Machine!Init
  BY DEF Init, Machine!Init, Machine!NoRow, NoRow
<1>2. ASSUME IInv, [Next]_vars
      PROVE  [Machine!Next]_st
  <2>1. CASE Rests
    BY <2>1 DEF Rests
  <2>2. CASE \E r \in Runs : Moves(r)
    <3>1. PICK r \in Runs : Moves(r)
      BY <2>2
    <3>2. \A to : run'[r].status = to => Machine!MoveTo(r, to)
      BY <3>1 DEF Moves, Machine!MoveTo
    <3>3. CASE run[r].status = NoRow /\ run'[r].status = "PENDING"
      BY <3>2, <3>3 DEF Machine!Next, Machine!Create, Machine!NoRow, NoRow
    <3>4. CASE CanTransition(run[r].status, run'[r].status)
      BY <3>2, <3>4 DEF Machine!Next, Machine!Transition,
         Machine!CanTransition, CanTransition, Machine!BackupRunStatus,
         Machine!InFlightStatus, Machine!ClaimedStatus, Machine!TerminalStatus
    <3>5. CASE run[r].status \in {"COMPLETED", "FAILED"} /\ run'[r].status = "CANCELLED"
      BY <3>2, <3>5 DEF Machine!Next, Machine!LateCancel
    <3>6. CASE run[r].status \in TerminalStatus /\ run'[r].status = Deleted
      BY <3>2, <3>6 DEF Machine!Next, Machine!Expire, Machine!TerminalStatus,
         TerminalStatus, Machine!Deleted, Deleted
    <3> QED
      BY <3>1, <3>3, <3>4, <3>5, <3>6 DEF Moves, Edge
  <2> QED
    BY <1>2, <2>1, <2>2, StepMoves
<1> QED
  BY <1>1, <1>2, Invariance, PTL DEF Spec, ImplementsRunMachine, Machine!Spec
=============================================================================
