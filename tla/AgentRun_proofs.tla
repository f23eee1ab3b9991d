--------------------------- MODULE AgentRun_proofs ---------------------------
(***************************************************************************)
(* Theorems about AgentRun, for any set of runs and any kinds of faults.   *)
(*                                                                         *)
(* What the runner relies on without looking: the row of the run at hand   *)
(* has been claimed, and once it reports stages its object is stored and   *)
(* verified.  Reports it has given up on concern other runs than the one   *)
(* at hand, and the objects they speak of are never touched again.         *)
(***************************************************************************)
EXTENDS AgentRun, TLAPS

AtHand ==
  pc # "idle" => row[cur].status \notin {NoRow, Deleted, "PENDING"}

ObjectInStage == pc \in Stage => cur \in stored /\ cur \in verified

LateReports ==
  \A m \in late :
    /\ m.run # cur
    /\ row[m.run].status \notin {NoRow, Deleted, "PENDING"}
    /\ m.to = "COMPLETED" => m.run \in stored /\ m.run \in verified

CancelsInserted == \A r \in cancelling : row[r].status \notin {NoRow, Deleted}

IInv ==
  /\ TypeOK
  /\ StageInStep
  /\ AtHand
  /\ ObjectInStage
  /\ LateReports
  /\ CancelsInserted
-----------------------------------------------------------------------------
(* What a step does to the rows: nothing ever takes the cancel flag back. *)

FlagsKept == \A r \in Runs : row[r].cancel => row'[r].cancel

RowsRest == /\ row' \in [Runs -> Row]
            /\ \A r \in Runs : row'[r].status = row[r].status
            /\ FlagsKept

OneMoves(r, to) == /\ row' \in [Runs -> Row]
                   /\ row'[r].status = to
                   /\ \A x \in Runs \ {r} : row'[x].status = row[x].status
                   /\ FlagsKept

\* Every status of the vocabulary is one a row may have.
LEMMA Statuses ==
  /\ BackupRunStatus \subseteq RowStatus
  /\ Stage \subseteq BackupRunStatus
  /\ ClaimedStatus \subseteq BackupRunStatus
  /\ {"PENDING", "CANCELLED", "FAILED", "RUNNING"} \subseteq BackupRunStatus
BY DEF RowStatus, BackupRunStatus, InFlightStatus, ClaimedStatus,
       TerminalStatus, Stage

\* A conditional status write of UpdateStatus, ClaimRun or the sweep moves the
\* row it names.
LEMMA SetStatusMoves ==
  ASSUME TypeOK, NEW r \in Runs, NEW to \in RowStatus, SetStatus(r, to)
  PROVE  OneMoves(r, to)
<1>1. row' = [row EXCEPT ![r] = [@ EXCEPT !.status = to, !.recent = TRUE]]
  BY DEF SetStatus
<1>2. row[r] \in Row
  BY DEF TypeOK
<1>3. /\ [row[r] EXCEPT !.status = to, !.recent = TRUE] \in Row
      /\ [row[r] EXCEPT !.status = to, !.recent = TRUE].status = to
      /\ [row[r] EXCEPT !.status = to, !.recent = TRUE].cancel = row[r].cancel
  BY <1>2 DEF Row
<1> QED
  BY <1>1, <1>3 DEF OneMoves, FlagsKept, TypeOK

\* Cancel's flags and the age of updated_at are not statuses.
LEMMA FlagsRest ==
  ASSUME TypeOK
  PROVE  /\ \A r \in Runs :
              \/ row' = [row EXCEPT ![r].recent = TRUE]
              \/ row' = [row EXCEPT ![r].cancel = TRUE, ![r].recent = TRUE]
              => RowsRest
         /\ row' = [r \in Runs |-> [row[r] EXCEPT !.recent = FALSE]] => RowsRest
         /\ row' = row => RowsRest
<1>1. \A r \in Runs : row[r] \in Row
  BY DEF TypeOK
<1>2. \A x \in Row : /\ [x EXCEPT !.recent = TRUE] \in Row
                     /\ [x EXCEPT !.recent = FALSE] \in Row
                     /\ [x EXCEPT !.cancel = TRUE, !.recent = TRUE] \in Row
                     /\ [x EXCEPT !.recent = TRUE].status = x.status
                     /\ [x EXCEPT !.recent = FALSE].status = x.status
                     /\ [x EXCEPT !.cancel = TRUE, !.recent = TRUE].status = x.status
                     /\ [x EXCEPT !.recent = TRUE].cancel = x.cancel
                     /\ [x EXCEPT !.recent = FALSE].cancel = x.cancel
                     /\ [x EXCEPT !.cancel = TRUE, !.recent = TRUE].cancel
  BY DEF Row
<1>3. ASSUME NEW r \in Runs, row' = [row EXCEPT ![r].recent = TRUE]
      PROVE  RowsRest
  <2>1. row' = [row EXCEPT ![r] = [@ EXCEPT !.recent = TRUE]]
    BY <1>3
  <2> QED
    BY <1>1, <1>2, <2>1 DEF RowsRest, FlagsKept, TypeOK
<1>4. ASSUME NEW r \in Runs,
             row' = [row EXCEPT ![r].cancel = TRUE, ![r].recent = TRUE]
      PROVE  RowsRest
  <2>1. row' = [row EXCEPT ![r] = [@ EXCEPT !.cancel = TRUE, !.recent = TRUE]]
    BY <1>4
  <2> QED
    BY <1>1, <1>2, <2>1 DEF RowsRest, FlagsKept, TypeOK
<1>5. ASSUME row' = [r \in Runs |-> [row[r] EXCEPT !.recent = FALSE]]
      PROVE  RowsRest
  BY <1>1, <1>2, <1>5 DEF RowsRest, FlagsKept
<1>6. ASSUME row' = row PROVE RowsRest
  BY <1>6 DEF RowsRest, FlagsKept, TypeOK
<1> QED
  BY <1>3, <1>4, <1>5, <1>6

-----------------------------------------------------------------------------
(* Steps that leave the runner where it is. *)

\* Whoever writes the row of the run at hand but the runner ends that run, so
\* what the runner relies on survives a step of the server.
LEMMA OthersWrite ==
  ASSUME IInv, UNCHANGED <<pc, cur, storage>>, late' \subseteq late,
         RowsRest \/ \E r \in Runs, to \in RowStatus :
           /\ OneMoves(r, to)
           /\ \/ to \in {"FAILED", "CANCELLED"}
              \/ row[r].status = NoRow
              \/ r # cur /\ to \notin {NoRow, Deleted, "PENDING"}
  PROVE  StageInStep' /\ AtHand' /\ ObjectInStage' /\ LateReports'
<1>1. /\ row' \in [Runs -> Row]
      /\ \A x \in Runs : \/ row'[x].status = row[x].status
                         \/ row'[x].status \in {"FAILED", "CANCELLED"}
                         \/ row[x].status = NoRow
                         \/ x # cur /\ row'[x].status \notin {NoRow, Deleted, "PENDING"}
  BY DEF RowsRest, OneMoves
<1>2. (pc \in DOMAIN Expected => pc # "idle") /\ (pc # "idle" => cur \in Runs)
  BY NoRunAssumption DEF IInv, TypeOK, Expected
<1>3. StageInStep' /\ AtHand'
  BY <1>1, <1>2 DEF IInv, StageInStep, AtHand, Expected, NoRow, Deleted
<1>4. ObjectInStage'
  BY DEF IInv, ObjectInStage, storage
<1>5. LateReports'
  BY <1>1 DEF IInv, LateReports, TypeOK, storage, NoRow, Deleted
<1> QED
  BY <1>3, <1>4, <1>5

\* The server's own steps: inserts, cancels and the stale-run sweep.
LEMMA ServerStepInv ==
  ASSUME IInv, NEW r \in Runs, ServerStep(r)
  PROVE  IInv'
<1>1. CASE CreateRun(r)
  <2>1. OneMoves(r, "PENDING")
    BY <1>1, SetStatusMoves, Statuses DEF CreateRun, IInv
  <2>2. StageInStep' /\ AtHand' /\ ObjectInStage' /\ LateReports'
    BY <1>1, <2>1, OthersWrite, Statuses DEF CreateRun, runner, storage
  <2> QED
    BY <1>1, <2>1, <2>2 DEF CreateRun, IInv, TypeOK, OneMoves, FlagsKept,
       CancelsInserted, runner, storage, socket, NoRow, Deleted
<1>2. CASE CancelRead(r)
  <2>1. RowsRest
    BY <1>2, FlagsRest DEF CancelRead, IInv
  <2>2. StageInStep' /\ AtHand' /\ ObjectInStage' /\ LateReports'
    BY <1>2, <2>1, OthersWrite DEF CancelRead, runner, storage
  <2> QED
    BY <1>2, <2>2 DEF CancelRead, IInv, TypeOK, CancelsInserted, runner,
       storage, socket, NoRow, Deleted
<1>3. CASE CancelWrite(r)
  <2>1. [status |-> "CANCELLED", cancel |-> TRUE, recent |-> TRUE] \in Row
    BY Statuses DEF Row
  <2>2. OneMoves(r, "CANCELLED")
    BY <1>3, <2>1 DEF CancelWrite, OneMoves, FlagsKept, IInv, TypeOK
  <2>3. StageInStep' /\ AtHand' /\ ObjectInStage' /\ LateReports'
    BY <1>3, <2>2, OthersWrite, Statuses DEF CancelWrite, runner, storage
  <2> QED
    BY <1>3, <2>2, <2>3 DEF CancelWrite, FlagsKept, socket, IInv, TypeOK, OneMoves,
       CancelsInserted, runner, storage, NoRow, Deleted
<1>4. CASE CancelClaimed(r)
  <2>1. RowsRest
    BY <1>4, FlagsRest DEF CancelClaimed, IInv
  <2>2. StageInStep' /\ AtHand' /\ ObjectInStage' /\ LateReports'
    BY <1>4, <2>1, OthersWrite DEF CancelClaimed, runner, storage
  <2> QED
    BY <1>4, <2>1, <2>2 DEF CancelClaimed, SendCancel, IInv, TypeOK, RowsRest, FlagsKept,
       CancelsInserted, runner, storage
<1>5. CASE SweepRun(r)
  <2> DEFINE to == IF row[r].cancel THEN "CANCELLED" ELSE "FAILED"
  <2>1. to \in {"FAILED", "CANCELLED"} /\ to \in RowStatus
    BY Statuses
  <2>2. SetStatus(r, to)
    BY <1>5 DEF SweepRun
  <2> HIDE DEF to
  <2>3. OneMoves(r, to)
    BY <2>1, <2>2, SetStatusMoves DEF IInv
  <2>4. StageInStep' /\ AtHand' /\ ObjectInStage' /\ LateReports'
    BY <1>5, <2>1, <2>3, OthersWrite DEF SweepRun, runner, storage
  <2> QED
    BY <1>5, <2>1, <2>3, <2>4 DEF SweepRun, IInv, TypeOK, OneMoves, FlagsKept,
       CancelsInserted, runner, storage, socket, NoRow, Deleted
<1> QED
  BY <1>1, <1>2, <1>3, <1>4, <1>5 DEF ServerStep

\* A report the runner has given up on concerns a run it is done with, and
\* when it says COMPLETED its object is the one that was verified.
LEMMA LateReportInv ==
  ASSUME IInv, NEW m \in late, LateReport(m)
  PROVE  IInv'
<1>1. /\ m.run \in Runs /\ m.run # cur
      /\ row[m.run].status \notin {NoRow, Deleted, "PENDING"}
      /\ m.to \in RowStatus
  BY Statuses DEF IInv, TypeOK, LateReports
<1>2. CanTransition(row[m.run].status, m.to) => m.to \notin {NoRow, Deleted, "PENDING"}
  BY DEF CanTransition, NoRow, Deleted
<1>3. RowsRest \/ /\ OneMoves(m.run, m.to)
                  /\ m.to \notin {NoRow, Deleted, "PENDING"}
  BY <1>1, <1>2, FlagsRest, SetStatusMoves DEF LateReport, IInv
<1>4. StageInStep' /\ AtHand' /\ ObjectInStage' /\ LateReports'
  BY <1>1, <1>3, OthersWrite DEF LateReport, runner, storage
<1> QED
  BY <1>1, <1>3, <1>4 DEF LateReport, IInv, TypeOK, RowsRest, FlagsKept, OneMoves,
     CancelsInserted, runner, storage, socket

\* The socket, the poll without work, the clock and progress reports leave
\* every status and the runner's place alone.
LEMMA QuietStepInv ==
  ASSUME IInv,
         (\E r \in Runs : Deliver(r)) \/ Heartbeat \/ TimePasses \/ Progress
  PROVE  IInv'
<1>1. CASE \E r \in Runs : Deliver(r)
  <2>1. PICK r \in Runs : Deliver(r)
    BY <1>1
  <2> QED
    BY <2>1 DEF Deliver, IInv, TypeOK, StageInStep, AtHand, ObjectInStage,
       LateReports, CancelsInserted, server, runner, storage
<1>2. CASE Heartbeat
  BY <1>2 DEF Heartbeat, IInv, TypeOK, StageInStep, AtHand, ObjectInStage,
     LateReports, CancelsInserted, runner, storage, socket
<1>3. CASE TimePasses
  <2>1. RowsRest
    BY <1>3, FlagsRest DEF TimePasses, IInv
  <2>2. StageInStep' /\ AtHand' /\ ObjectInStage' /\ LateReports'
    BY <1>3, <2>1, OthersWrite DEF TimePasses, runner, storage
  <2> QED
    BY <1>3, <2>1, <2>2 DEF TimePasses, IInv, TypeOK, RowsRest, FlagsKept,
       CancelsInserted, runner, storage, socket
<1>4. CASE Progress
  <2>1. cur \in Runs
    BY <1>4 DEF Progress, IInv, TypeOK
  <2>2. RowsRest
    BY <1>4, <2>1, FlagsRest DEF Progress, IInv
  <2>3. StageInStep' /\ AtHand' /\ ObjectInStage' /\ LateReports'
    BY <1>4, <2>1, <2>2, OthersWrite DEF Progress, storage
  <2>4. cancelSeen' \in BOOLEAN
    <3>1. CancelledByUser(FALSE) \in BOOLEAN
      BY DEF CancelledByUser
    <3> QED
      BY <1>4, <3>1 DEF Progress, IInv, TypeOK
  <2> QED
    BY <1>4, <2>2, <2>3, <2>4 DEF Progress, IInv, TypeOK, RowsRest, FlagsKept,
       CancelsInserted, storage, socket
<1> QED
  BY <1>1, <1>2, <1>3, <1>4

-----------------------------------------------------------------------------
(* Steps of the runner. *)

\* A claimed run is the runner's alone: no report it has given up on is of it.
LEMMA ClaimInv ==
  ASSUME IInv, NEW r \in Runs, ClaimRun(r)
  PROVE  IInv'
<1>1. OneMoves(r, "RUNNING")
  BY SetStatusMoves, Statuses DEF ClaimRun, IInv
<1>2. StageInStep' /\ AtHand' /\ ObjectInStage'
  BY <1>1 DEF ClaimRun, OneMoves, StageInStep, Expected, AtHand,
     ObjectInStage, Stage, NoRow, Deleted
<1>3. LateReports' /\ CancelsInserted'
  BY <1>1 DEF ClaimRun, OneMoves, IInv, TypeOK, LateReports, CancelsInserted,
     storage, NoRow, Deleted
<1>4. TypeOK'
  BY <1>1, NoRunAssumption DEF ClaimRun, OneMoves, FlagsKept, IInv, TypeOK, RunnerPc,
     storage, socket
<1> QED
  BY <1>2, <1>3, <1>4 DEF IInv

\* Letting go of the run at hand, with or without a report left behind.
LEMMA ReturnInv ==
  ASSUME IInv, Return, RowsRest, UNCHANGED <<fresh, cancelling, wire, storage>>,
         cancelled' \subseteq cancelled,
         late' = late \/ /\ pc \in Stage \cup {"reportFailed", "reportCancelled"}
                         /\ \E to \in BackupRunStatus :
                              /\ late' = late \cup {[run |-> cur, to |-> to]}
                              /\ to = "COMPLETED" => pc = "COMPLETED"
  PROVE  IInv'
<1>1. StageInStep' /\ AtHand' /\ ObjectInStage'
  BY DEF Return, StageInStep, Expected, AtHand, ObjectInStage, Stage
<1>2. CancelsInserted'
  BY DEF RowsRest, IInv, TypeOK, CancelsInserted
<1>3. \A m \in late' : /\ m \in [run : Runs, to : BackupRunStatus]
                       /\ row[m.run].status \notin {NoRow, Deleted, "PENDING"}
                       /\ m.to = "COMPLETED" => m.run \in stored /\ m.run \in verified
  <2>1. \A m \in late : /\ m \in [run : Runs, to : BackupRunStatus]
                        /\ row[m.run].status \notin {NoRow, Deleted, "PENDING"}
                        /\ m.to = "COMPLETED" => m.run \in stored /\ m.run \in verified
    BY DEF IInv, TypeOK, LateReports
  <2>2. ASSUME pc \in Stage \cup {"reportFailed", "reportCancelled"},
               NEW to \in BackupRunStatus, to = "COMPLETED" => pc = "COMPLETED"
        PROVE  /\ cur \in Runs
               /\ row[cur].status \notin {NoRow, Deleted, "PENDING"}
               /\ to = "COMPLETED" => cur \in stored /\ cur \in verified
    BY <2>2 DEF IInv, TypeOK, AtHand, ObjectInStage, Stage
  <2> QED
    BY <2>1, <2>2
<1>4. LateReports'
  BY <1>3, NoRunAssumption DEF LateReports, Return, RowsRest, storage
<1>5. TypeOK'
  BY <1>3 DEF IInv, TypeOK, Return, RowsRest, FlagsKept, RunnerPc, storage
<1> QED
  BY <1>1, <1>2, <1>4, <1>5 DEF IInv

\* Moving on with the run at hand while its row stands still.
LEMMA GotoInv ==
  ASSUME IInv, NEW at \in RunnerPc \ {"idle"}, pc # "idle", Goto(at),
         UNCHANGED <<row, fresh, cancelling, late, socket>>,
         at \in DOMAIN Expected =>
           row[cur].status \in {Expected[at], "FAILED", "CANCELLED"},
         \A r \in Runs \ {cur} : /\ r \in stored => r \in stored'
                                 /\ r \in verified => r \in verified',
         stored' \subseteq Runs, verified' \subseteq Runs,
         at \in Stage => cur \in stored' /\ cur \in verified'
  PROVE  IInv'
<1>1. StageInStep' /\ AtHand' /\ ObjectInStage' /\ CancelsInserted'
  BY DEF Goto, IInv, StageInStep, Expected, AtHand, ObjectInStage,
     CancelsInserted
<1>2. LateReports'
  BY DEF Goto, IInv, TypeOK, LateReports
<1>3. TypeOK'
  BY DEF Goto, IInv, TypeOK, socket
<1> QED
  BY <1>1, <1>2, <1>3 DEF IInv

\* The steps of executeBackup between its reports.
LEMMA WorkInv ==
  ASSUME IInv,
         ClaimAnswered \/ WorkFails \/ PayloadReady \/ Upload \/ HeadMatches
           \/ HeadFails \/ Drop
  PROVE  IInv'
<1> USE DEF server, runner, socket, storage
<1>1. /\ pc # "idle" => cur \in Runs
      /\ pc \in {"claimed", "working", "upload", "head"} =>
           row[cur].status \in {"RUNNING", "FAILED", "CANCELLED"}
  BY DEF IInv, TypeOK, StageInStep, Expected
<1>2. stored \subseteq Runs /\ verified \subseteq Runs
  BY DEF IInv, TypeOK
<1>3. CASE ClaimAnswered
  BY <1>1, <1>2, <1>3, GotoInv DEF ClaimAnswered, RunnerPc, Stage, Expected
<1>4. CASE WorkFails
  BY <1>1, <1>2, <1>4, GotoInv DEF WorkFails, RunnerPc, Stage, Expected
<1>5. CASE PayloadReady
  BY <1>1, <1>2, <1>5, GotoInv DEF PayloadReady, RunnerPc, Stage, Expected
<1>6. CASE Upload
  BY <1>1, <1>2, <1>6, GotoInv DEF Upload, RunnerPc, Stage, Expected
<1>7. CASE HeadMatches
  BY <1>1, <1>2, <1>7, GotoInv DEF HeadMatches, RunnerPc, Stage, Expected
<1>8. CASE HeadFails
  BY <1>1, <1>2, <1>8, GotoInv DEF HeadFails, DeleteObject, RunnerPc, Stage,
     Expected
<1>9. CASE Drop
  BY <1>1, <1>2, <1>9, GotoInv DEF Drop, DeleteObject, RunnerPc, Stage,
     Expected
<1> QED
  BY <1>3, <1>4, <1>5, <1>6, <1>7, <1>8, <1>9

\* A stage report that is taken moves the row to the stage the runner is at,
\* and the runner on to the next, to the deletion, or to the end.
LEMMA StageInv ==
  ASSUME IInv, ReportStage
  PROVE  IInv' /\ OneMoves(cur, pc)
<1>1. cur \in Runs /\ cur \in stored /\ cur \in verified
  BY DEF ReportStage, Stage, IInv, TypeOK, ObjectInStage
<1>2. OneMoves(cur, pc)
  BY <1>1, SetStatusMoves, Statuses DEF ReportStage, IInv
<1>3. pc \notin {NoRow, Deleted, "PENDING"}
  BY DEF ReportStage, Stage, NoRow, Deleted
<1>4. \/ pc' = "drop" /\ UNCHANGED <<cur, cancelSeen>>
      \/ pc' = "idle" /\ cur' = NoRun /\ cancelSeen' = FALSE
      \/ /\ pc = "UPLOADING" /\ pc' = "VERIFYING"
         /\ UNCHANGED <<cur, cancelSeen>>
      \/ /\ pc = "VERIFYING" /\ pc' = "COMPLETED"
         /\ UNCHANGED <<cur, cancelSeen>>
  BY DEF ReportStage, Stage, Goto, Return, NextStage
<1>5. StageInStep' /\ AtHand' /\ ObjectInStage'
  BY <1>1, <1>2, <1>3, <1>4 DEF ReportStage, OneMoves, StageInStep, Expected,
     AtHand, ObjectInStage, Stage, storage
<1>6. LateReports' /\ CancelsInserted'
  BY <1>1, <1>2, <1>3, <1>4, NoRunAssumption DEF ReportStage, OneMoves, IInv,
     TypeOK, LateReports, CancelsInserted, storage
<1>7. TypeOK'
  <2>1. cancelled' \subseteq Runs
    BY DEF ReportStage, IInv, TypeOK
  <2> QED
    BY <1>2, <1>4, <2>1, NoRunAssumption DEF ReportStage, OneMoves, FlagsKept, IInv,
       TypeOK, RunnerPc, Stage, storage
<1> QED
  BY <1>2, <1>5, <1>6, <1>7 DEF IInv

\* failRun and cancelRun: the report moves the row of the run at hand, if it
\* is still taken, and the runner is free again.
LEMMA LastReportInv ==
  ASSUME IInv, NEW at \in {"reportFailed", "reportCancelled"},
         NEW to \in {"FAILED", "CANCELLED"}, LastReport(at, to),
         cancelled' \subseteq cancelled
  PROVE  /\ IInv'
         /\ RowsRest \/ (CanTransition(row[cur].status, to) /\ OneMoves(cur, to))
<1>1. cur \in Runs
  BY DEF LastReport, IInv, TypeOK
<1>2. to \in RowStatus /\ to \notin {NoRow, Deleted, "PENDING"}
  BY Statuses DEF NoRow, Deleted
<1>3. RowsRest \/ (CanTransition(row[cur].status, to) /\ OneMoves(cur, to))
  <2>1. CASE CanTransition(row[cur].status, to)
    <3>1. SetStatus(cur, to)
      BY <2>1 DEF LastReport, SetStatus
    <3> QED
      BY <1>1, <1>2, <2>1, <3>1, SetStatusMoves DEF IInv
  <2>2. CASE ~CanTransition(row[cur].status, to)
    BY <2>2, FlagsRest DEF LastReport, IInv
  <2> QED
    BY <2>1, <2>2
<1>4. StageInStep' /\ AtHand' /\ ObjectInStage'
  BY DEF LastReport, Return, StageInStep, Expected, AtHand, ObjectInStage, Stage
<1>5. LateReports' /\ CancelsInserted'
  BY <1>1, <1>2, <1>3, NoRunAssumption DEF LastReport, Return, RowsRest,
     OneMoves, IInv, TypeOK, LateReports, CancelsInserted, storage
<1>6. TypeOK'
  BY <1>3 DEF LastReport, Return, RowsRest, OneMoves, FlagsKept, IInv, TypeOK, RunnerPc,
     storage
<1> QED
  BY <1>3, <1>4, <1>5, <1>6 DEF IInv

\* Ways out of executeBackup that report nothing the server takes at once: a
\* lost claim, a refused or a lost report, the end of the process.
LEMMA GiveUpInv ==
  ASSUME IInv,
         ClaimAnswerLost \/ ReportRefused \/ ReportLost \/ AgentRestart
  PROVE  IInv' /\ RowsRest
<1> USE DEF server, runner, socket, storage
<1>1. RowsRest
  BY FlagsRest DEF ClaimAnswerLost, ReportRefused, ReportLost, AgentRestart, IInv
<1>2. CASE ClaimAnswerLost
  BY <1>1, <1>2, ReturnInv DEF ClaimAnswerLost
<1>3. CASE ReportRefused
  BY <1>1, <1>3, ReturnInv DEF ReportRefused
<1>4. CASE ReportLost
  <2> DEFINE to == CASE pc = "reportFailed"    -> "FAILED"
                     [] pc = "reportCancelled" -> "CANCELLED"
                     [] OTHER                  -> pc
  <2>1. to \in BackupRunStatus /\ (to = "COMPLETED" => pc = "COMPLETED")
    BY <1>4, Statuses DEF ReportLost, Stage
  <2>2. late' = late \/ late' = late \cup {[run |-> cur, to |-> to]}
    BY <1>4 DEF ReportLost
  <2> HIDE DEF to
  <2>3. cancelled' \subseteq cancelled
    BY <1>4 DEF ReportLost
  <2> QED
    BY <1>1, <1>4, <2>1, <2>2, <2>3, ReturnInv DEF ReportLost
<1>5. CASE AgentRestart
  BY <1>1, <1>5, ReturnInv DEF AgentRestart
<1> QED
  BY <1>1, <1>2, <1>3, <1>4, <1>5

-----------------------------------------------------------------------------
(* The theorems. *)

\* The agent polls for the first time: nothing has been run yet.
LEMMA InitInv == Init => IInv
<1> SUFFICES ASSUME Init PROVE IInv
  OBVIOUS
<1>1. [status |-> NoRow, cancel |-> FALSE, recent |-> FALSE] \in Row
  BY DEF Row, RowStatus
<1>2. TypeOK
  BY <1>1, NoRunAssumption DEF Init, TypeOK, RunnerPc
<1>3. StageInStep /\ AtHand /\ ObjectInStage /\ LateReports /\ CancelsInserted
  BY DEF Init, StageInStep, Expected, AtHand, ObjectInStage, Stage,
     LateReports, CancelsInserted
<1> QED
  BY <1>2, <1>3 DEF IInv

\* Every step of the agent and of the server keeps the invariant.
LEMMA NextInv == IInv /\ [Next]_vars => IInv'
<1> SUFFICES ASSUME IInv, [Next]_vars
             PROVE  IInv'
  OBVIOUS
<1>1. CASE \E r \in Runs : ServerStep(r)
  BY <1>1, ServerStepInv
<1>2. CASE (\E r \in Runs : Deliver(r)) \/ Heartbeat \/ TimePasses \/ Progress
  BY <1>2, QuietStepInv
<1>3. CASE \E r \in Runs : ClaimRun(r)
  BY <1>3, ClaimInv
<1>4. CASE \E m \in late : LateReport(m)
  BY <1>4, LateReportInv
<1>5. CASE Execute
  <2>1. CASE ReportFailed
    BY <2>1, LastReportInv DEF ReportFailed
  <2>2. CASE ReportCancelled
    BY <2>2, LastReportInv DEF ReportCancelled
  <2> QED
    BY <1>5, <2>1, <2>2, WorkInv, StageInv, GiveUpInv DEF Execute
<1>6. CASE AgentRestart
  BY <1>6, GiveUpInv
<1>7. CASE UNCHANGED vars
  BY <1>7 DEF vars, server, runner, socket, storage, IInv, TypeOK, StageInStep,
     AtHand, ObjectInStage, LateReports, CancelsInserted
<1> QED
  BY <1>1, <1>2, <1>3, <1>4, <1>5, <1>6, <1>7 DEF Next

\* The invariant holds in every reachable state.
LEMMA Invariance == Spec => []IInv
BY InitInv, NextInv, PTL DEF Spec

\* Rows, runner, socket and storage keep their shape; the runner has a run at
\* hand exactly when it is not between polls.
THEOREM TypeInvariant == Spec => []TypeOK
<1>1. IInv => TypeOK
  BY DEF IInv
<1> QED
  BY <1>1, Invariance, PTL

\* executeBackup never reports a stage the row is not ready for, unless
\* somebody else has ended the run.
THEOREM InStep == Spec => []StageInStep
<1>1. IInv => StageInStep
  BY DEF IInv
<1> QED
  BY <1>1, Invariance, PTL

-----------------------------------------------------------------------------
\* What a step does to the statuses, along the edges of the abstract machine.
Moves(r) == \E to \in RowStatus :
  /\ OneMoves(r, to)
  /\ \/ row[r].status = NoRow /\ to = "PENDING"
     \/ to \in BackupRunStatus /\ CanTransition(row[r].status, to)
     \/ row[r].status \in {"COMPLETED", "FAILED"} /\ to = "CANCELLED"
  /\ to = "COMPLETED" => r \in stored /\ r \in verified

\* Every step moves at most one run along an edge, and a run to COMPLETED only
\* with its object stored and verified.
LEMMA StepMoves ==
  ASSUME IInv, [Next]_vars
  PROVE  RowsRest \/ \E r \in Runs : Moves(r)
<1>1. ASSUME NEW r \in Runs, CreateRun(r)
      PROVE  Moves(r)
  BY <1>1, SetStatusMoves, Statuses DEF CreateRun, Moves, IInv
<1>2. ASSUME NEW r \in Runs, CancelWrite(r)
      PROVE  RowsRest \/ Moves(r)
  <2>1. [status |-> "CANCELLED", cancel |-> TRUE, recent |-> TRUE] \in Row
    BY Statuses DEF Row
  <2>2. OneMoves(r, "CANCELLED")
    BY <1>2, <2>1 DEF CancelWrite, OneMoves, FlagsKept, IInv, TypeOK
  <2>3. row[r].status \in BackupRunStatus
    BY <1>2 DEF CancelWrite, IInv, TypeOK, CancelsInserted, Row, RowStatus
  <2> QED
    BY <2>2, <2>3, Statuses DEF Moves, RowsRest, OneMoves, CanTransition,
       BackupRunStatus, InFlightStatus, ClaimedStatus, TerminalStatus
<1>3. ASSUME NEW r \in Runs, SweepRun(r)
      PROVE  Moves(r)
  <2> DEFINE to == IF row[r].cancel THEN "CANCELLED" ELSE "FAILED"
  <2>1. SetStatus(r, to) /\ to \in {"CANCELLED", "FAILED"}
    BY <1>3 DEF SweepRun
  <2> HIDE DEF to
  <2>2. OneMoves(r, to)
    BY <2>1, SetStatusMoves, Statuses DEF IInv
  <2> QED
    BY <1>3, <2>1, <2>2, Statuses DEF SweepRun, Moves, CanTransition,
       ClaimedStatus
<1>4. ASSUME NEW r \in Runs, ClaimRun(r)
      PROVE  Moves(r)
  BY <1>4, SetStatusMoves, Statuses DEF ClaimRun, Moves, CanTransition, IInv
<1>5. ASSUME NEW m \in late, LateReport(m)
      PROVE  RowsRest \/ (m.run \in Runs /\ Moves(m.run))
  <2>1. m.run \in Runs /\ m.to \in BackupRunStatus
    BY DEF IInv, TypeOK
  <2>2. m.to = "COMPLETED" => m.run \in stored /\ m.run \in verified
    BY DEF IInv, LateReports
  <2> QED
    BY <1>5, <2>1, <2>2, FlagsRest, SetStatusMoves, Statuses
       DEF LateReport, Moves, IInv
<1>6. ASSUME ReportStage
      PROVE  cur \in Runs /\ Moves(cur)
  <2>1. cur \in Runs /\ cur \in stored /\ cur \in verified
    BY <1>6 DEF ReportStage, Stage, IInv, TypeOK, ObjectInStage
  <2> QED
    BY <1>6, <2>1, StageInv, Statuses DEF ReportStage, Moves
<1>7. ASSUME ReportFailed \/ ReportCancelled
      PROVE  RowsRest \/ (cur \in Runs /\ Moves(cur))
  <2>1. cur \in Runs
    BY <1>7 DEF ReportFailed, ReportCancelled, LastReport, IInv, TypeOK
  <2>2. RowsRest \/ \E to \in {"FAILED", "CANCELLED"} :
                       CanTransition(row[cur].status, to) /\ OneMoves(cur, to)
    BY <1>7, LastReportInv DEF ReportFailed, ReportCancelled
  <2> QED
    BY <2>1, <2>2, Statuses DEF Moves
<1>8. CASE row' = row
  BY <1>8, FlagsRest DEF IInv
<1>9. ASSUME NEW r \in Runs, CancelClaimed(r)
      PROVE  RowsRest
  BY <1>9, FlagsRest DEF CancelClaimed, IInv
<1>10. CASE TimePasses
  BY <1>10, FlagsRest DEF TimePasses, IInv
<1>11. CASE Progress
  <2>1. cur \in Runs
    BY <1>11 DEF Progress, IInv, TypeOK
  <2> QED
    BY <1>11, <2>1, FlagsRest DEF Progress, IInv
<1>12. ASSUME (\E r \in Runs : CancelRead(r) \/ Deliver(r)) \/ Heartbeat
                \/ ClaimAnswered \/ WorkFails \/ PayloadReady \/ Upload
                \/ HeadMatches \/ HeadFails \/ Drop \/ UNCHANGED vars
       PROVE  row' = row
  BY <1>12 DEF CancelRead, Deliver, Heartbeat, ClaimAnswered, WorkFails,
     PayloadReady, Upload, HeadMatches, HeadFails, Drop, vars, server
<1> QED
  BY <1>1, <1>2, <1>3, <1>4, <1>5, <1>6, <1>7, <1>8, <1>9, <1>10, <1>11,
     <1>12, GiveUpInv DEF Next, ServerStep, Execute

\* No loss, crash, cancel or sweep makes a run COMPLETED without its object in
\* storage and verified.
THEOREM StoredWhenCompleted == Spec => CompletedWhenStored
<1>1. ASSUME IInv, [Next]_vars
      PROVE  [\A r \in Runs :
                row[r].status # "COMPLETED" /\ row'[r].status = "COMPLETED" =>
                  r \in stored /\ r \in verified]_vars
  BY <1>1, StepMoves DEF RowsRest, Moves, OneMoves
<1> QED
  BY <1>1, Invariance, PTL DEF Spec, CompletedWhenStored

\* The agent and the server together, with any faults, implement the abstract
\* machine of statuses.
THEOREM Implementation == Spec => ImplementsRunMachine
<1> DEFINE st == [r \in Runs |-> row[r].status]
<1>1. Init => Machine!Init
  BY DEF Init, Machine!Init, Machine!NoRow, NoRow
<1>2. ASSUME IInv, [Next]_vars
      PROVE  [Machine!Next]_st
  <2>1. CASE RowsRest
    BY <2>1 DEF RowsRest
  <2>2. CASE \E r \in Runs : Moves(r)
    <3>1. PICK r \in Runs : Moves(r)
      BY <2>2
    <3>2. PICK to \in RowStatus :
            /\ OneMoves(r, to)
            /\ \/ row[r].status = NoRow /\ to = "PENDING"
               \/ to \in BackupRunStatus /\ CanTransition(row[r].status, to)
               \/ row[r].status \in {"COMPLETED", "FAILED"} /\ to = "CANCELLED"
      BY <3>1 DEF Moves
    <3>3. Machine!MoveTo(r, to)
      BY <3>2 DEF OneMoves, Machine!MoveTo
    <3>4. CASE row[r].status = NoRow /\ to = "PENDING"
      BY <3>3, <3>4 DEF Machine!Next, Machine!Create, Machine!NoRow, NoRow
    <3>5. CASE to \in BackupRunStatus /\ CanTransition(row[r].status, to)
      BY <3>3, <3>5 DEF Machine!Next, Machine!Transition,
         Machine!CanTransition, CanTransition, Machine!BackupRunStatus,
         Machine!InFlightStatus, Machine!ClaimedStatus, Machine!TerminalStatus
    <3>6. CASE row[r].status \in {"COMPLETED", "FAILED"} /\ to = "CANCELLED"
      BY <3>3, <3>6 DEF Machine!Next, Machine!LateCancel
    <3> QED
      BY <3>2, <3>4, <3>5, <3>6
  <2> QED
    BY <1>2, <2>1, <2>2, StepMoves
<1> QED
  BY <1>1, <1>2, Invariance, PTL DEF Spec, ImplementsRunMachine, Machine!Spec
=============================================================================
