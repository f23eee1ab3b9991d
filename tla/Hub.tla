-------------------------------- MODULE Hub --------------------------------
(***************************************************************************)
(* The WebSocket hub (realtime/hub.go) and the agent's socket client       *)
(* (agent/internal/agent/realtime.go).                                     *)
(*                                                                         *)
(* An agent's socket is seen differently at its two ends: the server has a *)
(* reader, a writer and an entry in agentPeers, the client has w.conn, and *)
(* each end learns of a broken connection on its own.  A dashboard's peer  *)
(* is in the set of its organisation; Publish and the peer's writer run    *)
(* in parallel and meet in the peer's bounded channel.                     *)
(***************************************************************************)
EXTENDS Integers, Sequences

CONSTANTS
  Socks,       \* names of the agent's sockets; a name both ends are done with is
               \* that of a later socket
  Dashboards,  \* dashboard peers
  Runs,        \* runs of the agent that may be cancelled
  None,
  SendBuffer,  \* capacity of peer.send (64)
  MaxEvents,   \* bound: events that are published
  MaxBreaks    \* bound: connections that break and dials that give up

ASSUME HubAssumption ==
  /\ None \notin Socks /\ SendBuffer \in Nat \ {0} /\ MaxEvents \in Nat
  /\ MaxBreaks \in Nat

VARIABLES
  server,     \* server end of each socket: none, open, closed, gone
  registered, \* agentPeers[agent]
  client,     \* client end of each socket: none, dialled, open, closed
  conn,       \* WSClient.conn
  send,       \* peer.send of each socket
  wire,       \* frames written and not yet read
  cancelled,  \* WSClient.cancelled
  asked,      \* Cancel handlers between the lookup and the channel; done ones
  breaks,     \* connections broken and dials given up so far
  peer,       \* dashboards: none, open, closed, gone
  subscribed, \* orgPeers[org]
  inbox,      \* peer.send of each dashboard, and what was written to it
  doomed,     \* dashboards that a closeSlow goroutine is about to close
  published   \* events published so far

sockets == <<server, registered, client, conn, send, wire, cancelled, asked, breaks>>
boards == <<peer, subscribed, inbox, doomed, published>>
vars == <<sockets, boards>>

TypeOK ==
  /\ server \in [Socks -> {"none", "open", "closed", "gone"}]
  /\ registered \in Socks \cup {None}
  /\ client \in [Socks -> {"none", "dialled", "open", "closed"}]
  /\ conn \in Socks \cup {None}
  /\ send \in [Socks -> Seq(Runs)] /\ wire \in [Socks -> Seq(Runs)]
  /\ \A s \in Socks : Len(send[s]) <= SendBuffer
  /\ cancelled \subseteq Runs
  /\ asked \in [Runs -> {"no", "done"} \cup Socks]
  /\ breaks \in 0..MaxBreaks
  /\ peer \in [Dashboards -> {"none", "open", "closed", "gone"}]
  /\ subscribed \subseteq Dashboards /\ doomed \subseteq Dashboards
  /\ inbox \in [Dashboards -> [queue : Seq(1..MaxEvents), got : Seq(1..MaxEvents),
                              since : 0..MaxEvents]]
  /\ \A d \in Dashboards : Len(inbox[d].queue) <= SendBuffer
  /\ published \in 0..MaxEvents

Init ==
  /\ server = [s \in Socks |-> "none"] /\ registered = None
  /\ client = [s \in Socks |-> "none"] /\ conn = None
  /\ send = [s \in Socks |-> <<>>] /\ wire = [s \in Socks |-> <<>>]
  /\ cancelled = {} /\ asked = [r \in Runs |-> "no"] /\ breaks = 0
  /\ peer = [d \in Dashboards |-> "none"]
  /\ subscribed = {} /\ doomed = {} /\ published = 0
  /\ inbox = [d \in Dashboards |-> [queue |-> <<>>, got |-> <<>>, since |-> 0]]

-----------------------------------------------------------------------------
\* The agent's socket: serveAgent and dialAndServe

Breaks == breaks < MaxBreaks /\ breaks' = breaks + 1

\* No goroutine of either side knows this socket any more, or yet.
Unused(s) ==
  /\ <<client[s], server[s]>> \in {<<"none", "none">>, <<"closed", "gone">>}
  /\ \A r \in Runs : asked[r] # s

\* Run dials again only when dialAndServe has returned.
Dial(s) ==
  /\ Unused(s)
  /\ \A o \in Socks : client[o] \in {"none", "closed"}
  /\ client' = [client EXCEPT ![s] = "dialled"]
  /\ server' = [server EXCEPT ![s] = "none"]
  /\ send' = [send EXCEPT ![s] = <<>>]
  /\ UNCHANGED <<registered, conn, wire, cancelled, asked, breaks, boards>>

\* Under the lock: the old peer's connection is closed and its entry taken.
Accept(s) ==
  /\ client[s] # "none" /\ server[s] = "none"
  /\ server' = [o \in Socks |-> IF o = s THEN "open"
                  ELSE IF o = registered /\ server[o] = "open" THEN "closed"
                  ELSE server[o]]
  /\ registered' = s
  /\ UNCHANGED <<client, conn, send, wire, cancelled, asked, breaks, boards>>

\* The dial gives up; the handshake is lost, or the server may still take the
\* socket.
DialFails(s) ==
  /\ client[s] = "dialled" /\ Breaks
  /\ client' = [client EXCEPT ![s] = "closed"]
  /\ \/ UNCHANGED server
     \/ server[s] = "none" /\ server' = [server EXCEPT ![s] = "gone"]
  /\ UNCHANGED <<registered, conn, send, wire, cancelled, asked, boards>>

\* The handshake is answered: w.conn is set and the reader starts.
Connected(s) ==
  /\ client[s] = "dialled" /\ server[s] # "none"
  /\ client' = [client EXCEPT ![s] = "open"] /\ conn' = s
  /\ UNCHANGED <<server, registered, send, wire, cancelled, asked, breaks, boards>>

\* Each end notices by itself that the connection broke, or that the other end
\* has closed it, by a failed read or write, the server's pong deadline or the
\* client's TCP keep-alive.
ServerNotices(s) ==
  /\ server[s] = "open"
  /\ IF client[s] = "closed" THEN UNCHANGED breaks ELSE Breaks
  /\ server' = [server EXCEPT ![s] = "closed"]
  /\ UNCHANGED <<registered, client, conn, send, wire, cancelled, asked, boards>>

ClientCloses(s) ==
  /\ client[s] = "open"
  /\ IF server[s] = "open" THEN Breaks ELSE UNCHANGED breaks
  /\ client' = [client EXCEPT ![s] = "closed"]
  /\ conn' = IF conn = s THEN None ELSE conn
  /\ wire' = [wire EXCEPT ![s] = <<>>]
  /\ UNCHANGED <<server, registered, send, cancelled, asked, boards>>

ClientNotices(s) == server[s] \in {"closed", "gone"} /\ ClientCloses(s)
ServerHears(s) == client[s] = "closed" /\ ServerNotices(s)

\* Mutant: the entry is removed whoever holds it.
LeaveUnlessNamed(s) ==
  /\ server[s] = "closed"
  /\ server' = [server EXCEPT ![s] = "gone"] /\ registered' = None
  /\ UNCHANGED <<client, conn, send, wire, cancelled, asked, breaks, boards>>

\* readLoop has returned: the entry goes only if it is still this peer's.
Leave(s) ==
  /\ server[s] = "closed"
  /\ server' = [server EXCEPT ![s] = "gone"]
  /\ registered' = IF registered = s THEN None ELSE registered
  /\ UNCHANGED <<client, conn, send, wire, cancelled, asked, breaks, boards>>

-----------------------------------------------------------------------------
\* A cancel command on its way to the client

\* Cancel calls SendToAgent: the lookup under the read lock.
CancelRun(r) ==
  /\ asked[r] = "no"
  /\ asked' = [asked EXCEPT ![r] = IF registered = None THEN "done" ELSE registered]
  /\ UNCHANGED <<server, registered, client, conn, send, wire, cancelled, breaks, boards>>

\* The select with an empty default: a full channel drops the command.
Enqueue(r) ==
  /\ asked[r] \in Socks
  /\ LET s == asked[r] IN
     send' = IF Len(send[s]) < SendBuffer THEN [send EXCEPT ![s] = Append(@, r)]
             ELSE send
  /\ asked' = [asked EXCEPT ![r] = "done"]
  /\ UNCHANGED <<server, registered, client, conn, wire, cancelled, breaks, boards>>

\* writePump; it outlives the reader until a write fails.
Write(s) ==
  /\ send[s] # <<>> /\ server[s] = "open"
  /\ wire' = IF client[s] = "closed" THEN wire
             ELSE [wire EXCEPT ![s] = Append(@, Head(send[s]))]
  /\ send' = [send EXCEPT ![s] = Tail(@)]
  /\ UNCHANGED <<server, registered, client, conn, cancelled, asked, breaks, boards>>

\* Mutant: the client takes the newest frame only.
ReadNewest(s) ==
  /\ client[s] = "open" /\ wire[s] # <<>>
  /\ cancelled' = cancelled \cup {wire[s][Len(wire[s])]}
  /\ wire' = [wire EXCEPT ![s] = <<>>]
  /\ UNCHANGED <<server, registered, client, conn, send, asked, breaks, boards>>

\* The client's reader: markCancelled.
Read(s) ==
  /\ client[s] = "open" /\ wire[s] # <<>>
  /\ cancelled' = cancelled \cup {Head(wire[s])}
  /\ wire' = [wire EXCEPT ![s] = Tail(@)]
  /\ UNCHANGED <<server, registered, client, conn, send, asked, breaks, boards>>

-----------------------------------------------------------------------------
\* Dashboards: serveDashboard, subscribe, Publish

Open(d) ==
  /\ peer[d] = "none"
  /\ peer' = [peer EXCEPT ![d] = "open"]
  /\ UNCHANGED <<sockets, subscribed, inbox, doomed, published>>

\* A subscribe frame of a member; the reader may handle it although the
\* connection has been closed since.
Subscribe(d) ==
  /\ peer[d] \in {"open", "closed"} /\ d \notin subscribed
  /\ subscribed' = subscribed \cup {d}
  /\ inbox' = [inbox EXCEPT ![d].since = published]
  /\ UNCHANGED <<sockets, peer, doomed, published>>

Full(d) == Len(inbox[d].queue) = SendBuffer

Sent(d) == IF d \in subscribed /\ ~Full(d)
           THEN [inbox[d] EXCEPT !.queue = Append(@, published + 1)]
           ELSE inbox[d]

\* Mutant: a peer whose channel is full only misses the event.
PublishOrDrop ==
  /\ published < MaxEvents /\ published' = published + 1
  /\ inbox' = [d \in Dashboards |-> Sent(d)]
  /\ UNCHANGED <<sockets, peer, subscribed, doomed>>

\* Under the read lock; a goroutine closes each peer whose channel is full.
Publish ==
  /\ published < MaxEvents /\ published' = published + 1
  /\ inbox' = [d \in Dashboards |-> Sent(d)]
  /\ doomed' = doomed \cup {d \in subscribed : Full(d)}
  /\ UNCHANGED <<sockets, peer, subscribed>>

Closing(d) == peer' = [peer EXCEPT ![d] = IF @ = "open" THEN "closed" ELSE @]

\* The goroutine's closeSlow.
CloseSlow(d) ==
  /\ d \in doomed /\ Closing(d)
  /\ doomed' = doomed \ {d}
  /\ UNCHANGED <<sockets, subscribed, inbox, published>>

\* writePump
WriteBoard(d) ==
  /\ peer[d] = "open" /\ inbox[d].queue # <<>>
  /\ inbox' = [inbox EXCEPT ![d].queue = Tail(@),
                            ![d].got = Append(@, Head(inbox[d].queue))]
  /\ UNCHANGED <<sockets, peer, subscribed, doomed, published>>

\* The browser leaves, a ping or a write fails, the pong deadline passes.
BoardBreaks(d) ==
  /\ peer[d] = "open" /\ Closing(d)
  /\ UNCHANGED <<sockets, subscribed, inbox, doomed, published>>

\* readLoop has returned: removePeer
RemovePeer(d) ==
  /\ peer[d] = "closed"
  /\ peer' = [peer EXCEPT ![d] = "gone"]
  /\ subscribed' = subscribed \ {d}
  /\ UNCHANGED <<sockets, inbox, doomed, published>>

-----------------------------------------------------------------------------
AgentSocket(s) ==
  \/ Dial(s) \/ DialFails(s) \/ Accept(s) \/ Connected(s)
  \/ ServerNotices(s) \/ ClientCloses(s) \/ Leave(s)
  \/ Write(s) \/ Read(s)

Board(d) ==
  \/ Open(d) \/ Subscribe(d) \/ CloseSlow(d) \/ WriteBoard(d)
  \/ BoardBreaks(d) \/ RemovePeer(d)

Next ==
  \/ \E s \in Socks : AgentSocket(s)
  \/ \E r \in Runs : CancelRun(r) \/ Enqueue(r)
  \/ \E d \in Dashboards : Board(d)
  \/ Publish

\* Every goroutine goes on; nothing makes a connection break, and an end whose
\* other end is closed notices.
Fairness ==
  /\ \A s \in Socks :
       /\ WF_vars(Dial(s)) /\ WF_vars(Accept(s)) /\ WF_vars(Connected(s))
       /\ WF_vars(Leave(s)) /\ WF_vars(Write(s)) /\ WF_vars(Read(s))
       /\ WF_vars(ClientNotices(s)) /\ WF_vars(ServerHears(s))
  /\ \A r \in Runs : WF_vars(Enqueue(r))
  /\ \A d \in Dashboards : WF_vars(CloseSlow(d)) /\ WF_vars(RemovePeer(d))

Spec == Init /\ [][Next]_vars /\ Fairness

-----------------------------------------------------------------------------
\* Properties

\* The one socket of the agent that the server keeps open is the one commands
\* are sent to, also when the handler of a socket that was replaced returns
\* last, or a handshake is answered after its dial gave up (hub.go:245-282).
OpenSocketRegistered ==
  \A s \in Socks : server[s] = "open" => registered = s

\* A dashboard that is kept has every event since its subscription, in order:
\* one that missed an event is closed, and never shown a stale list for good
\* (hub.go:138-145).
KeptBoardMissesNothing ==
  \A d \in subscribed :
    peer[d] = "open" /\ d \notin doomed
    => inbox[d].got \o inbox[d].queue
       = [i \in 1..(published - inbox[d].since) |-> inbox[d].since + i]

\* A dashboard that has left is in no organisation's set, even when its last
\* frame was a subscribe (hub.go:284-332).
NoGonePeerSubscribed == \A d \in subscribed : peer[d] # "gone"

\* The tables name live peers, and each live peer (hub.go:245-332).
PeersSound == TypeOK /\ OpenSocketRegistered /\ NoGonePeerSubscribed

\* A cancel in the channel of the agent's socket reaches the client, unless
\* the connection is lost first (hub.go:163-172, realtime.go:155-170).
CancelArrives ==
  \A s \in Socks, r \in Runs :
    (\E i \in DOMAIN send[s] : send[s][i] = r)
    ~> (r \in cancelled \/ server[s] # "open" \/ client[s] = "closed")

\* Once connections stop breaking the agent is reachable for good: its client
\* holds a socket that is open at both ends and is the one the server sends its
\* commands to, however the sockets before it were replaced and whichever of
\* their handlers returned last (realtime.go:108-126, hub.go:249-282).
AgentReconnects ==
  <>[](/\ conn # None /\ registered = conn
       /\ server[conn] = "open" /\ client[conn] = "open")
=============================================================================
