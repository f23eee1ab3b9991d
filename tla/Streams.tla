------------------------------- MODULE Streams -------------------------------
(***************************************************************************)
(* The gRPC side of the server (grpcserver/server.go): the table of live   *)
(* streams, Connect with its deferred cleanup, SendCommand, DisconnectAgent *)
(* and handleEvent, for one agent that may hold several streams at once,   *)
(* an old one that the server has not seen end beside its successor.       *)
(*                                                                         *)
(* Connect is a goroutine of its own for each stream; the lock covers the  *)
(* table only, so table writes and row writes are separate actions.  The   *)
(* stream's reader is a second goroutine, which may still be in            *)
(* handleEvent when the cleanup has run.  Resolving the offline alert is   *)
(* module Alerts.                                                          *)
(***************************************************************************)
EXTENDS Integers, Sequences

CONSTANTS
  Streams,     \* streams of the agent, in the order they may be opened
  None,
  Commands,    \* commands that may be sent, 1..n
  Senders,     \* goroutines in SendCommand
  SendBuffer,  \* capacity of agentConn.send (16)
  MaxEvents,   \* bound: events that are handled
  MaxRotations \* bound: calls of DisconnectAgent

ASSUME StreamsAssumption ==
  /\ None \notin Streams /\ SendBuffer \in Nat \ {0}
  /\ Commands \in Nat /\ MaxEvents \in Nat /\ MaxRotations \in Nat

VARIABLES
  stream,   \* per stream: where its Connect is, whether it was cancelled
  entry,    \* s.streams[agent]
  send,     \* the channel of each stream's agentConn
  sent,     \* commands written to the stream
  failed,   \* per stream: the command whose Send failed, 0 for none
  sender,   \* SendCommand between the lookup and the channel
  issued,   \* commands handed to SendCommand so far
  accepted, \* commands for which it returned true
  agent,    \* its row's status, rotations so far, DisconnectAgent to come
  run,      \* one run of the agent
  events    \* events handled so far

vars == <<stream, entry, send, sent, failed, sender, issued, accepted, agent, run,
          events>>
tables == <<entry, stream>>
commands == <<send, sent, failed, sender, issued, accepted>>

Phases == {"unopened", "authenticated", "listed", "serving", "ended",
           "unlisted", "gone"}

TypeOK ==
  /\ stream \in [Streams -> [at : Phases, cancelled : BOOLEAN]]
  /\ entry \in Streams \cup {None}
  /\ send \in [Streams -> Seq(1..Commands)] /\ sent \in [Streams -> Seq(1..Commands)]
  /\ \A c \in Streams : Len(send[c]) <= SendBuffer
  /\ failed \in [Streams -> 0..Commands]
  /\ sender \in [Senders -> [to : Streams \cup {None}, cmd : 0..Commands]]
  /\ issued \in 0..Commands /\ accepted \subseteq 1..Commands
  /\ agent \in [online : BOOLEAN, rotated : 0..MaxRotations, disconnect : BOOLEAN]
  /\ run \in [status : {"PENDING", "RUNNING", "UPLOADING", "COMPLETED", "FAILED"},
              started : BOOLEAN, ended : BOOLEAN]
  /\ events \in 0..MaxEvents

Free == [to |-> None, cmd |-> 0]

Init ==
  /\ stream = [c \in Streams |-> [at |-> "unopened", cancelled |-> FALSE]]
  /\ entry = None
  /\ send = [c \in Streams |-> <<>>] /\ sent = [c \in Streams |-> <<>>]
  /\ failed = [c \in Streams |-> 0]
  /\ sender = [t \in Senders |-> Free]
  /\ issued = 0 /\ accepted = {}
  /\ agent = [online |-> FALSE, rotated |-> 0, disconnect |-> FALSE]
  /\ run = [status |-> "PENDING", started |-> FALSE, ended |-> FALSE]
  /\ events = 0

-----------------------------------------------------------------------------
\* Connect

Moves(c, to) == stream' = [stream EXCEPT ![c].at = to]

\* authenticateAgent on the first message.
Authenticate(c) ==
  /\ stream[c].at = "unopened" /\ Moves(c, "authenticated")
  /\ UNCHANGED <<entry, commands, agent, run, events>>

Enlist(c) ==
  /\ stream[c].at = "authenticated"
  /\ Moves(c, "listed") /\ entry' = c
  /\ UNCHANGED <<commands, agent, run, events>>

WriteOnline(c) ==
  /\ stream[c].at = "listed"
  /\ Moves(c, "serving") /\ agent' = [agent EXCEPT !.online = TRUE]
  /\ UNCHANGED <<entry, commands, run, events>>

\* The select loop's send case.
Deliver(c) ==
  /\ stream[c].at = "serving" /\ send[c] # <<>>
  /\ sent' = [sent EXCEPT ![c] = Append(@, Head(send[c]))]
  /\ send' = [send EXCEPT ![c] = Tail(@)]
  /\ UNCHANGED <<tables, failed, sender, issued, accepted, agent, run, events>>

\* The same case, and Send fails: the command is off the channel, and lost.
SendFails(c) ==
  /\ stream[c].at = "serving" /\ send[c] # <<>>
  /\ Moves(c, "ended")
  /\ failed' = [failed EXCEPT ![c] = Head(send[c])]
  /\ send' = [send EXCEPT ![c] = Tail(@)]
  /\ UNCHANGED <<entry, sent, sender, issued, accepted, agent, run, events>>

\* Recv fails, or the context was cancelled.
Break(c) ==
  /\ stream[c].at = "serving" /\ Moves(c, "ended")
  /\ UNCHANGED <<entry, commands, agent, run, events>>

\* Mutant: only the stream in the table stops.
StopOwner(c) == stream[c].cancelled /\ entry = c /\ Break(c)

\* The context was cancelled.
Stop(c) == stream[c].cancelled /\ Break(c)

\* Mutant: the cleanup of a stream that lost its entry does nothing.
UnlistOwner(c) ==
  /\ stream[c].at = "ended"
  /\ IF entry = c THEN Moves(c, "unlisted") /\ entry' = None
                  ELSE Moves(c, "gone") /\ UNCHANGED entry
  /\ UNCHANGED <<commands, agent, run, events>>

\* The deferred delete: by the agent's id, whosever entry it is.
Unlist(c) ==
  /\ stream[c].at = "ended"
  /\ Moves(c, "unlisted") /\ entry' = None
  /\ UNCHANGED <<commands, agent, run, events>>

WriteOffline(c) ==
  /\ stream[c].at = "unlisted"
  /\ Moves(c, "gone") /\ agent' = [agent EXCEPT !.online = FALSE]
  /\ UNCHANGED <<entry, commands, run, events>>

-----------------------------------------------------------------------------
\* SendCommand and DisconnectAgent

\* The lookup under the read lock; no stream: false.
LookUp(t) ==
  /\ sender[t] = Free /\ issued < Commands
  /\ issued' = issued + 1
  /\ sender' = IF entry = None THEN sender
               ELSE [sender EXCEPT ![t] = [to |-> entry, cmd |-> issued + 1]]
  /\ UNCHANGED <<tables, send, sent, failed, accepted, agent, run, events>>

\* Mutant: a full channel makes room for the new command.
PutOverOldest(t) ==
  /\ sender[t] # Free
  /\ LET c == sender[t].to IN
     send' = [send EXCEPT ![c] = Append(IF Len(@) < SendBuffer THEN @ ELSE Tail(@),
                                        sender[t].cmd)]
  /\ accepted' = accepted \cup {sender[t].cmd}
  /\ sender' = [sender EXCEPT ![t] = Free]
  /\ UNCHANGED <<tables, sent, failed, issued, agent, run, events>>

\* The select with a default: never blocks, false when the channel is full.
\* The stream may have ended since the lookup; the channel still takes it.
Put(t) ==
  /\ sender[t] # Free
  /\ LET c == sender[t].to IN
     IF Len(send[c]) < SendBuffer
     THEN /\ send' = [send EXCEPT ![c] = Append(@, sender[t].cmd)]
          /\ accepted' = accepted \cup {sender[t].cmd}
     ELSE UNCHANGED <<send, accepted>>
  /\ sender' = [sender EXCEPT ![t] = Free]
  /\ UNCHANGED <<tables, sent, failed, issued, agent, run, events>>

\* RotateToken and Revoke write the row, and then call DisconnectAgent.
Rotate ==
  /\ agent.rotated < MaxRotations /\ ~agent.disconnect
  /\ agent' = [agent EXCEPT !.rotated = @ + 1, !.disconnect = TRUE]
  /\ UNCHANGED <<tables, commands, run, events>>

Revoke ==
  /\ agent.rotated < MaxRotations /\ ~agent.disconnect
  /\ agent' = [rotated |-> agent.rotated + 1, disconnect |-> TRUE,
               online |-> FALSE]
  /\ UNCHANGED <<tables, commands, run, events>>

DisconnectAgent ==
  /\ agent.disconnect
  /\ agent' = [agent EXCEPT !.disconnect = FALSE]
  /\ stream' = IF entry = None THEN stream
               ELSE [stream EXCEPT ![entry].cancelled = TRUE]
  /\ UNCHANGED <<entry, commands, run, events>>

-----------------------------------------------------------------------------
\* handleEvent and ReportProgress: the run's row, by id, in any status

Counted == events < MaxEvents /\ events' = events + 1

\* The reader of c, which the cleanup does not wait for.
Reading(c) == stream[c].at \in {"serving", "ended", "unlisted", "gone"}

Ends(to) == to \in {"COMPLETED", "FAILED"}

Event(c, to) ==
  /\ Reading(c) /\ Counted
  /\ run' = [status |-> to, started |-> run.started \/ to = "RUNNING",
             ended |-> run.ended \/ Ends(to)]
  /\ UNCHANGED <<tables, commands, agent>>

\* The unary call: any status the request names, or none.
ReportProgress(to) ==
  /\ Counted
  /\ run' = [run EXCEPT !.status = to, !.ended = @ \/ Ends(to)]
  /\ UNCHANGED <<tables, commands, agent>>

EventStatus == {"RUNNING", "UPLOADING", "COMPLETED", "FAILED"}

Cleanup(c) == Unlist(c) \/ WriteOffline(c)

Next ==
  \/ \E c \in Streams : \/ Authenticate(c) \/ Enlist(c) \/ WriteOnline(c)
                        \/ Deliver(c) \/ SendFails(c) \/ Break(c) \/ Cleanup(c)
                        \/ \E to \in EventStatus : Event(c, to)
  \/ \E to \in EventStatus \cup {run.status} : ReportProgress(to)
  \/ \E t \in Senders : LookUp(t) \/ Put(t)
  \/ Rotate \/ Revoke \/ DisconnectAgent

\* Every goroutine that was started goes on; nothing ends a healthy stream.
Fairness ==
  /\ \A c \in Streams : WF_vars(Enlist(c) \/ WriteOnline(c) \/ Cleanup(c))
  /\ \A c \in Streams : WF_vars(Stop(c)) /\ WF_vars(Deliver(c))
  /\ \A t \in Senders : WF_vars(Put(t))
  /\ WF_vars(DisconnectAgent)

Spec == Init /\ [][Next]_vars /\ Fairness

-----------------------------------------------------------------------------
\* Properties

\* The table never names a stream whose Connect has returned, so that no
\* command is handed to nobody while a live stream waits (server.go:97-115).
EntryIsServed ==
  entry # None => stream[entry].at \in {"listed", "serving", "ended"}

\* Once every stream that was opened has been cleaned up the agent is shown
\* OFFLINE, in whatever order the ONLINE of a new stream and the OFFLINE of an
\* old one were written (server.go:100-115).
QuietAgentOffline ==
  (\A c \in Streams : stream[c].at \in {"unopened", "authenticated", "gone"})
  => ~agent.online

\* An ended run has its end time, although the events of both streams and the
\* unary report write its row in any order (server.go:164-190, 257-272).
EndedRunTimed == Ends(run.status) => run.ended

\* What the overlap of two streams leaves standing (server.go:97-190, 257-272).
StreamsSound == TypeOK /\ EntryIsServed /\ QuietAgentOffline /\ EndedRunTimed

\* A command SendCommand reported as sent is written to a stream, unless the
\* stream whose channel took it ends: then it is left in that channel, or was
\* the one command whose Send failed.  The channel loses nothing it has taken,
\* and the select loop serves it until the last moment (server.go:131-143,
\* 320-334).
LostWith(c, n) ==
  /\ stream[c].at \in {"ended", "unlisted", "gone"}
  /\ failed[c] = n \/ \E i \in DOMAIN send[c] : send[c][i] = n

AcceptedDelivered ==
  \A n \in 1..Commands :
    (n \in accepted)
    ~> \E c \in Streams : LostWith(c, n) \/ \E i \in DOMAIN sent[c] : sent[c][i] = n

\* A stream that DisconnectAgent reached ends, also one that had not begun to
\* serve (server.go:48-55, 141).
CancelledStreamEnds ==
  \A c \in Streams : stream[c].cancelled ~> stream[c].at = "gone"
=============================================================================
