--------------------------- MODULE Streams_proofs ---------------------------
(***************************************************************************)
(* What module Streams keeps for any number of overlapping streams of the  *)
(* agent, any number of senders and commands, and every capacity of the    *)
(* channels.                                                               *)
(*                                                                         *)
(* Each part of StreamsSound is inductive beside the types, and the types  *)
(* need one more fact: a sender that is between the lookup and the channel *)
(* holds a stream and a command (SendersBusy).                             *)
(***************************************************************************)
EXTENDS Streams, SequenceTheorems, TLAPS

SendersBusy ==
  \A t \in Senders :
    sender[t] # Free => sender[t].to \in Streams /\ sender[t].cmd \in 1..Commands

IInv == StreamsSound /\ SendersBusy

-----------------------------------------------------------------------------
\* The records of the model, and what the steps write into them.
StreamRow == [at : Phases, cancelled : BOOLEAN]

LEMMA StreamUpdates ==
  ASSUME NEW x \in StreamRow, NEW p \in Phases
  PROVE  /\ [x EXCEPT !.at = p] \in StreamRow /\ [x EXCEPT !.at = p].at = p
         /\ [x EXCEPT !.cancelled = TRUE] \in StreamRow
         /\ [x EXCEPT !.cancelled = TRUE].at = x.at
BY DEF StreamRow

AgentRow == [online : BOOLEAN, rotated : 0..MaxRotations, disconnect : BOOLEAN]

RunRow == [status : {"PENDING", "RUNNING", "UPLOADING", "COMPLETED", "FAILED"},
           started : BOOLEAN, ended : BOOLEAN]

Timed(x) == Ends(x.status) => x.ended

\* A report that ends the run stamps it.
LEMMA RunUpdates ==
  ASSUME NEW x \in RunRow, NEW to \in EventStatus \cup {x.status}
  PROVE  /\ [status |-> to, started |-> x.started \/ to = "RUNNING",
             ended |-> x.ended \/ Ends(to)] \in RunRow
         /\ Timed([status |-> to, started |-> x.started \/ to = "RUNNING",
                   ended |-> x.ended \/ Ends(to)])
         /\ [x EXCEPT !.status = to, !.ended = x.ended \/ Ends(to)] \in RunRow
         /\ Timed([x EXCEPT !.status = to, !.ended = x.ended \/ Ends(to)])
<1> DEFINE a == x.started \/ to = "RUNNING"
           b == x.ended \/ Ends(to)
<1>1. /\ to \in {"PENDING", "RUNNING", "UPLOADING", "COMPLETED", "FAILED"}
      /\ x.started \in BOOLEAN /\ x.ended \in BOOLEAN
  BY DEF RunRow, EventStatus
<1>2. a \in BOOLEAN /\ b \in BOOLEAN /\ (Ends(to) => b)
  OBVIOUS
<1> HIDE DEF a, b
<1>3. /\ [status |-> to, started |-> a, ended |-> b] \in RunRow
      /\ Timed([status |-> to, started |-> a, ended |-> b])
  BY <1>1, <1>2 DEF RunRow, Timed
<1>4. /\ [x EXCEPT !.status = to, !.ended = b] \in RunRow
      /\ Timed([x EXCEPT !.status = to, !.ended = b])
  BY <1>1, <1>2 DEF RunRow, Timed
<1> QED
  BY <1>3, <1>4 DEF a, b

\* A stream that moves on moves alone.
LEMMA MovesAlone ==
  ASSUME TypeOK, NEW c \in Streams, NEW p \in Phases, Moves(c, p)
  PROVE  /\ stream' \in [Streams -> StreamRow]
         /\ stream'[c].at = p
         /\ \A o \in Streams \ {c} : stream'[o] = stream[o]
<1> DEFINE x == [stream[c] EXCEPT !.at = p]
<1>1. stream \in [Streams -> StreamRow]
  BY DEF TypeOK, StreamRow
<1>2. x \in StreamRow /\ x.at = p
  BY <1>1, StreamUpdates
<1>3. stream' = [stream EXCEPT ![c] = x]
  BY DEF Moves
<1> HIDE DEF x
<1> QED
  BY <1>1, <1>2, <1>3

\* DisconnectAgent moves no stream.
LEMMA CancelMovesNone ==
  ASSUME TypeOK, DisconnectAgent
  PROVE  /\ stream' \in [Streams -> StreamRow]
         /\ \A o \in Streams : stream'[o].at = stream[o].at
<1>1. stream \in [Streams -> StreamRow]
  BY DEF TypeOK, StreamRow
<1>2. CASE entry = None
  BY <1>1, <1>2 DEF DisconnectAgent
<1>3. CASE entry # None
  <2> DEFINE x == [stream[entry] EXCEPT !.cancelled = TRUE]
  <2>1. entry \in Streams
    BY <1>3 DEF TypeOK
  <2>2. x \in StreamRow /\ x.at = stream[entry].at
    BY <1>1, <2>1 DEF StreamRow
  <2>3. stream' = [stream EXCEPT ![entry] = x]
    BY <1>3 DEF DisconnectAgent
  <2> HIDE DEF x
  <2> QED
    BY <1>1, <2>1, <2>2, <2>3
<1> QED
  BY <1>2, <1>3

\* What a stream does to itself.
StreamStep(c) ==
  \/ Authenticate(c) \/ Enlist(c) \/ WriteOnline(c)
  \/ SendFails(c) \/ Break(c) \/ Cleanup(c)

\* Whatever the streams do, the table names one that is being served.
LEMMA EntryKept ==
  ASSUME IInv, [Next]_vars
  PROVE  /\ stream' \in [Streams -> StreamRow]
         /\ entry' \in Streams \cup {None}
         /\ EntryIsServed'
<1>1. /\ TypeOK /\ EntryIsServed /\ None \notin Streams
      /\ stream \in [Streams -> StreamRow] /\ entry \in Streams \cup {None}
  BY StreamsAssumption DEF IInv, StreamsSound, TypeOK, StreamRow
<1>2. ASSUME NEW c \in Streams, StreamStep(c)
      PROVE  /\ stream' \in [Streams -> StreamRow]
             /\ entry' \in Streams \cup {None}
             /\ EntryIsServed'
  <2>1. CASE Authenticate(c)
    <3>1. Moves(c, "authenticated") /\ entry' = entry /\ stream[c].at = "unopened"
      BY <2>1 DEF Authenticate
    <3> QED
      BY <1>1, <3>1, MovesAlone DEF Phases, EntryIsServed
  <2>2. CASE Enlist(c)
    <3>1. Moves(c, "listed") /\ entry' = c
      BY <2>2 DEF Enlist
    <3> QED
      BY <1>1, <3>1, MovesAlone DEF Phases, EntryIsServed
  <2>3. CASE WriteOnline(c)
    <3>1. Moves(c, "serving") /\ entry' = entry
      BY <2>3 DEF WriteOnline
    <3> QED
      BY <1>1, <3>1, MovesAlone DEF Phases, EntryIsServed
  <2>4. CASE SendFails(c) \/ Break(c)
    <3>1. Moves(c, "ended") /\ entry' = entry
      BY <2>4 DEF SendFails, Break
    <3> QED
      BY <1>1, <3>1, MovesAlone DEF Phases, EntryIsServed
  <2>5. CASE Unlist(c)
    <3>1. Moves(c, "unlisted") /\ entry' = None
      BY <2>5 DEF Unlist
    <3> QED
      BY <1>1, <3>1, MovesAlone DEF Phases, EntryIsServed
  <2>6. CASE WriteOffline(c)
    <3>1. Moves(c, "gone") /\ entry' = entry /\ stream[c].at = "unlisted"
      BY <2>6 DEF WriteOffline
    <3> QED
      BY <1>1, <3>1, MovesAlone DEF Phases, EntryIsServed
  <2> QED
    BY <1>2, <2>1, <2>2, <2>3, <2>4, <2>5, <2>6 DEF StreamStep, Cleanup
<1>3. CASE DisconnectAgent
  <2>1. entry' = entry
    BY <1>3 DEF DisconnectAgent
  <2> QED
    BY <1>1, <1>3, <2>1, CancelMovesNone DEF EntryIsServed
<1>4. CASE UNCHANGED tables
  BY <1>1, <1>4 DEF tables, EntryIsServed
<1> QED
  BY <1>2, <1>3, <1>4 DEF Next, StreamStep, vars, tables, Deliver, Event,
     ReportProgress, LookUp, Put, Rotate, Revoke

\* The agent is shown ONLINE by a stream that has still to clean up behind it.
LEMMA QuietKept ==
  ASSUME IInv, [Next]_vars
  PROVE  QuietAgentOffline'
<1> DEFINE Quiet(c) == stream[c].at \in {"unopened", "authenticated", "gone"}
<1>1. TypeOK /\ ((\A c \in Streams : Quiet(c)) => ~agent.online)
  BY DEF IInv, StreamsSound, QuietAgentOffline
<1> SUFFICES ASSUME \A c \in Streams : Quiet(c)'
             PROVE  ~agent'.online
  BY DEF QuietAgentOffline
<1>2. ASSUME NEW c \in Streams, StreamStep(c)
      PROVE  ~agent'.online
  <2>1. CASE Authenticate(c)
    <3>1. Moves(c, "authenticated") /\ agent' = agent /\ Quiet(c)
      BY <2>1 DEF Authenticate
    <3>2. \A o \in Streams \ {c} : stream'[o] = stream[o]
      BY <1>1, <3>1, MovesAlone DEF Phases
    <3> QED
      BY <1>1, <3>1, <3>2
  <2>2. CASE Enlist(c) \/ WriteOnline(c) \/ SendFails(c) \/ Break(c) \/ Unlist(c)
    <3>1. PICK p \in {"listed", "serving", "ended", "unlisted"} : Moves(c, p)
      BY <2>2 DEF Enlist, WriteOnline, SendFails, Break, Unlist
    <3>2. stream'[c].at = p
      BY <1>1, <3>1, MovesAlone DEF Phases
    <3> QED
      BY <3>2
  <2>3. CASE WriteOffline(c)
    BY <1>1, <2>3 DEF WriteOffline, TypeOK
  <2> QED
    BY <1>2, <2>1, <2>2, <2>3 DEF StreamStep, Cleanup
<1>3. CASE DisconnectAgent
  <2>1. agent'.online = agent.online
    BY <1>1, <1>3 DEF DisconnectAgent, TypeOK
  <2> QED
    BY <1>1, <1>3, <2>1, CancelMovesNone
<1>4. CASE Rotate \/ Revoke
  <2> DEFINE n == agent.rotated + 1
  <2>1. \/ agent' = [agent EXCEPT !.rotated = n, !.disconnect = TRUE]
        \/ agent' = [rotated |-> n, disconnect |-> TRUE, online |-> FALSE]
    BY <1>4 DEF Rotate, Revoke
  <2>2. agent \in AgentRow /\ stream' = stream
    BY <1>1, <1>4 DEF Rotate, Revoke, TypeOK, AgentRow, tables
  <2> HIDE DEF n
  <2>3. [agent EXCEPT !.rotated = n, !.disconnect = TRUE].online = agent.online
    BY <2>2 DEF AgentRow
  <2>4. [rotated |-> n, disconnect |-> TRUE, online |-> FALSE].online = FALSE
    OBVIOUS
  <2>5. agent'.online = agent.online \/ agent'.online = FALSE
    BY <2>1, <2>3, <2>4, Zenon
  <2> QED
    BY <1>1, <2>2, <2>5
<1>5. CASE UNCHANGED <<tables, agent>>
  BY <1>1, <1>5 DEF tables
<1> QED
  BY <1>2, <1>3, <1>4, <1>5 DEF Next, StreamStep, vars, tables, Deliver, Event,
     ReportProgress, LookUp, Put

\* Every event that ends a run stamps it, and no event takes the stamp away.
LEMMA RunKept ==
  ASSUME IInv, [Next]_vars
  PROVE  run' \in RunRow /\ events' \in 0..MaxEvents /\ EndedRunTimed'
<1>1. run \in RunRow /\ events \in 0..MaxEvents /\ Timed(run)
  BY DEF IInv, StreamsSound, TypeOK, RunRow, EndedRunTimed, Timed
<1>2. Counted => events' \in 0..MaxEvents
  BY <1>1, StreamsAssumption DEF Counted
<1>3. Timed(run') => EndedRunTimed'
  BY DEF Timed, EndedRunTimed
<1>4. ASSUME NEW c \in Streams, NEW to \in EventStatus, Event(c, to)
      PROVE  run' \in RunRow /\ events' \in 0..MaxEvents /\ Timed(run')
  <2> DEFINE x == [status |-> to, started |-> run.started \/ to = "RUNNING",
                   ended |-> run.ended \/ Ends(to)]
  <2>1. run' = x /\ Counted
    BY <1>4 DEF Event
  <2>2. x \in RunRow /\ Timed(x)
    BY <1>1, RunUpdates
  <2> HIDE DEF x
  <2> QED
    BY <1>2, <2>1, <2>2 DEF Timed
<1>5. ASSUME NEW to \in EventStatus \cup {run.status}, ReportProgress(to)
      PROVE  run' \in RunRow /\ events' \in 0..MaxEvents /\ Timed(run')
  <2> DEFINE x == [run EXCEPT !.status = to, !.ended = run.ended \/ Ends(to)]
  <2>1. run' = x /\ Counted
    BY <1>5 DEF ReportProgress
  <2>2. x \in RunRow /\ Timed(x)
    BY <1>1, RunUpdates
  <2> HIDE DEF x
  <2> QED
    BY <1>2, <2>1, <2>2 DEF Timed
<1>6. CASE UNCHANGED <<run, events>>
  BY <1>1, <1>6 DEF EndedRunTimed, Timed
<1> QED
  BY <1>3, <1>4, <1>5, <1>6 DEF Next, vars, Authenticate, Enlist, WriteOnline,
     Deliver, SendFails, Break, Cleanup, Unlist, WriteOffline, LookUp, Put,
     Rotate, Revoke, DisconnectAgent

\* The agent's row stays one.
LEMMA AgentKept ==
  ASSUME TypeOK, [Next]_vars
  PROVE  agent' \in AgentRow
<1>1. agent \in AgentRow
  BY DEF TypeOK, AgentRow
<1>2. CASE \E c \in Streams : WriteOnline(c) \/ WriteOffline(c)
  <2>1. PICK b \in BOOLEAN : agent' = [agent EXCEPT !.online = b]
    BY <1>2 DEF WriteOnline, WriteOffline
  <2> QED
    BY <1>1, <2>1 DEF AgentRow
<1>3. CASE Rotate \/ Revoke
  <2> DEFINE n == agent.rotated + 1
  <2>1. agent.rotated \in 0..MaxRotations /\ agent.rotated < MaxRotations
    BY <1>1, <1>3 DEF Rotate, Revoke, AgentRow
  <2>2. n \in 0..MaxRotations
    BY <2>1, StreamsAssumption
  <2>3. \/ agent' = [agent EXCEPT !.rotated = n, !.disconnect = TRUE]
        \/ agent' = [rotated |-> n, disconnect |-> TRUE, online |-> FALSE]
    BY <1>3 DEF Rotate, Revoke
  <2> HIDE DEF n
  <2>4. [agent EXCEPT !.rotated = n, !.disconnect = TRUE] \in AgentRow
    BY <1>1, <2>2 DEF AgentRow
  <2>5. [rotated |-> n, disconnect |-> TRUE, online |-> FALSE] \in AgentRow
    BY <2>2 DEF AgentRow
  <2> QED
    BY <2>3, <2>4, <2>5
<1>4. CASE DisconnectAgent
  <2>1. agent' = [agent EXCEPT !.disconnect = FALSE]
    BY <1>4 DEF DisconnectAgent
  <2> QED
    BY <1>1, <2>1 DEF AgentRow
<1>5. CASE UNCHANGED agent
  BY <1>1, <1>5
<1> QED
  BY <1>2, <1>3, <1>4, <1>5 DEF Next, vars, Authenticate, Enlist, Deliver, Event,
     ReportProgress, LookUp, Put, SendFails, Break, Cleanup, Unlist

CommandsTyped ==
  /\ send \in [Streams -> Seq(1..Commands)] /\ sent \in [Streams -> Seq(1..Commands)]
  /\ \A c \in Streams : Len(send[c]) <= SendBuffer
  /\ failed \in [Streams -> 0..Commands]
  /\ sender \in [Senders -> [to : Streams \cup {None}, cmd : 0..Commands]]
  /\ issued \in 0..Commands /\ accepted \subseteq 1..Commands

\* What lies in the channels are commands that were issued, no more of them
\* than a channel holds.
LEMMA CommandsKept ==
  ASSUME IInv, [Next]_vars
  PROVE  CommandsTyped' /\ SendersBusy'
<1>1. CommandsTyped /\ SendersBusy /\ entry \in Streams \cup {None}
  BY DEF IInv, StreamsSound, TypeOK, CommandsTyped
<1>2. ASSUME NEW c \in Streams, Deliver(c) \/ SendFails(c)
      PROVE  CommandsTyped' /\ SendersBusy'
  <2>1. send[c] \in Seq(1..Commands) /\ send[c] # <<>> /\ sent[c] \in Seq(1..Commands)
    BY <1>1, <1>2 DEF CommandsTyped, Deliver, SendFails
  <2>2. /\ Head(send[c]) \in 1..Commands /\ Tail(send[c]) \in Seq(1..Commands)
        /\ Len(Tail(send[c])) = Len(send[c]) - 1
    BY <2>1, HeadTailProperties
  <2>3. Append(sent[c], Head(send[c])) \in Seq(1..Commands)
    BY <2>1, <2>2
  <2>4. Len(Tail(send[c])) <= SendBuffer
    BY <1>1, <2>1, <2>2, StreamsAssumption DEF CommandsTyped
  <2>5. /\ \/ /\ sent' = [sent EXCEPT ![c] = Append(sent[c], Head(send[c]))]
              /\ failed' = failed
           \/ /\ failed' = [failed EXCEPT ![c] = Head(send[c])]
              /\ sent' = sent
        /\ send' = [send EXCEPT ![c] = Tail(send[c])]
        /\ UNCHANGED <<sender, issued, accepted>>
    BY <1>2 DEF Deliver, SendFails
  <2>6. /\ send' \in [Streams -> Seq(1..Commands)]
        /\ \A o \in Streams : Len(send'[o]) <= SendBuffer
    BY <1>1, <2>2, <2>4, <2>5 DEF CommandsTyped
  <2>7. sent' \in [Streams -> Seq(1..Commands)] /\ failed' \in [Streams -> 0..Commands]
    <3>1. Head(send[c]) \in 0..Commands
      BY <2>2
    <3> QED
      BY <1>1, <2>3, <2>5, <3>1 DEF CommandsTyped
  <2> QED
    BY <1>1, <2>5, <2>6, <2>7 DEF CommandsTyped, SendersBusy
<1>3. ASSUME NEW t \in Senders, LookUp(t)
      PROVE  CommandsTyped' /\ SendersBusy'
  <2>1. issued + 1 \in 1..Commands /\ UNCHANGED <<send, sent, failed, accepted>>
    BY <1>1, <1>3, StreamsAssumption DEF LookUp, CommandsTyped
  <2>2. CASE entry = None
    BY <1>1, <1>3, <2>1, <2>2 DEF LookUp, CommandsTyped, SendersBusy
  <2>3. CASE entry # None
    BY <1>1, <1>3, <2>1, <2>3 DEF LookUp, CommandsTyped, SendersBusy
  <2> QED
    BY <2>2, <2>3
<1>4. ASSUME NEW t \in Senders, Put(t)
      PROVE  CommandsTyped' /\ SendersBusy'
  <2> DEFINE c == sender[t].to
             n == sender[t].cmd
  <2>1. c \in Streams /\ n \in 1..Commands
    BY <1>1, <1>4 DEF Put, SendersBusy
  <2>2. Free \in [to : Streams \cup {None}, cmd : 0..Commands]
    BY StreamsAssumption DEF Free
  <2>3. sender' = [sender EXCEPT ![t] = Free] /\ UNCHANGED <<sent, failed, issued>>
    BY <1>4 DEF Put
  <2>4. CASE Len(send[c]) < SendBuffer
    <3>1. /\ send' = [send EXCEPT ![c] = Append(send[c], n)]
          /\ accepted' = accepted \cup {n}
      BY <1>4, <2>4 DEF Put
    <3>2. /\ Append(send[c], n) \in Seq(1..Commands)
          /\ Len(Append(send[c], n)) = Len(send[c]) + 1
          /\ Len(send[c]) \in Nat
      BY <1>1, <2>1 DEF CommandsTyped
    <3>3. Len(Append(send[c], n)) <= SendBuffer
      BY <2>4, <3>2, StreamsAssumption
    <3> HIDE DEF c, n
    <3> QED
      BY <1>1, <2>1, <2>2, <2>3, <3>1, <3>2, <3>3 DEF CommandsTyped, SendersBusy
  <2>5. CASE ~(Len(send[c]) < SendBuffer)
    <3>1. UNCHANGED <<send, accepted>>
      BY <1>4, <2>5 DEF Put
    <3> HIDE DEF c, n
    <3> QED
      BY <1>1, <2>2, <2>3, <3>1 DEF CommandsTyped, SendersBusy
  <2> QED
    BY <2>4, <2>5
<1>5. CASE UNCHANGED commands
  BY <1>1, <1>5 DEF commands, CommandsTyped, SendersBusy
<1> QED
  BY <1>2, <1>3, <1>4, <1>5 DEF Next, vars, commands, Authenticate, Enlist,
     WriteOnline, Break, Cleanup, Unlist, WriteOffline, Event, ReportProgress,
     Rotate, Revoke, DisconnectAgent

LEMMA InitInv == Init => IInv
BY StreamsAssumption DEF Init, IInv, StreamsSound, TypeOK, EntryIsServed,
   QuietAgentOffline, EndedRunTimed, SendersBusy, Phases, Free, Ends

LEMMA StepInv == IInv /\ [Next]_vars => IInv'
<1> SUFFICES ASSUME IInv, [Next]_vars PROVE IInv'
  OBVIOUS
<1>1. TypeOK
  BY DEF IInv, StreamsSound
<1>2. TypeOK'
  BY <1>1, EntryKept, RunKept, AgentKept, CommandsKept
     DEF TypeOK, StreamRow, AgentRow, RunRow, CommandsTyped
<1> QED
  BY <1>2, EntryKept, QuietKept, RunKept, CommandsKept DEF IInv, StreamsSound

\* However many streams of the agent overlap, the table names one that is
\* served, an agent none of whose streams is left is OFFLINE, and a run that
\* has ended has its end time.
THEOREM Sound == Spec => []StreamsSound
<1>1. IInv => StreamsSound
  BY DEF IInv
<1> QED
  BY <1>1, InitInv, StepInv, PTL DEF Spec
=============================================================================
