----------------------------- MODULE Hub_proofs -----------------------------
(***************************************************************************)
(* What module Hub keeps for any number of sockets, dashboards and runs,   *)
(* and for every capacity of the channels.                                 *)
(*                                                                         *)
(* PeersSound is inductive.  KeptBoardMissesNothing is not: a dashboard    *)
(* that subscribes must not hold an event yet, and one that has not been   *)
(* opened must not be in the set (BoardSound).                             *)
(***************************************************************************)
EXTENDS Hub, SequenceTheorems, TLAPS

BoardRow == [queue : Seq(1..MaxEvents), got : Seq(1..MaxEvents), since : 0..MaxEvents]

\* b holds every event after its subscription, up to event n.
Complete(b, n) == b.got \o b.queue = [i \in 1..(n - b.since) |-> b.since + i]

BoardSound(d) ==
  /\ peer[d] = "none" => d \notin subscribed
  /\ peer[d] = "gone" => d \notin subscribed
  /\ d \notin subscribed /\ peer[d] # "gone"
     => inbox[d].queue = <<>> /\ inbox[d].got = <<>>
  /\ d \in subscribed /\ peer[d] = "open" /\ d \notin doomed
     => Complete(inbox[d], published)

RowSound(d) ==
  /\ inbox[d] \in BoardRow
  /\ Len(inbox[d].queue) <= SendBuffer
  /\ inbox[d].since <= published

BoardsTyped ==
  /\ peer \in [Dashboards -> {"none", "open", "closed", "gone"}]
  /\ subscribed \subseteq Dashboards /\ doomed \subseteq Dashboards
  /\ inbox \in [Dashboards -> BoardRow]
  /\ published \in 0..MaxEvents

BoardsInv ==
  BoardsTyped /\ \A d \in Dashboards : RowSound(d) /\ BoardSound(d)

SocketsTyped ==
  /\ server \in [Socks -> {"none", "open", "closed", "gone"}]
  /\ registered \in Socks \cup {None}
  /\ client \in [Socks -> {"none", "dialled", "open", "closed"}]
  /\ conn \in Socks \cup {None}
  /\ send \in [Socks -> Seq(Runs)] /\ wire \in [Socks -> Seq(Runs)]
  /\ \A s \in Socks : Len(send[s]) <= SendBuffer
  /\ cancelled \subseteq Runs
  /\ asked \in [Runs -> {"no", "done"} \cup Socks]
  /\ breaks \in 0..MaxBreaks

SocketsInv == SocketsTyped /\ OpenSocketRegistered

IInv == SocketsInv /\ BoardsInv

-----------------------------------------------------------------------------
\* Sequences of consecutive events.

LEMMA NextNumber ==
  ASSUME NEW n \in Nat, NEW k \in Nat
  PROVE  Append([i \in 1..n |-> k + i], k + n + 1) = [i \in 1..(n + 1) |-> k + i]
<1> DEFINE s == [i \in 1..n |-> k + i]
           t == [i \in 1..(n + 1) |-> k + i]
<1>1. s \in Seq(Nat) /\ Len(s) = n
  OBVIOUS
<1>2. t \in Seq(Nat) /\ Len(t) = n + 1
  OBVIOUS
<1>3. /\ Append(s, k + n + 1) \in Seq(Nat) /\ Len(Append(s, k + n + 1)) = n + 1
      /\ \A i \in 1..n : Append(s, k + n + 1)[i] = s[i]
      /\ Append(s, k + n + 1)[n + 1] = k + n + 1
  <2>1. k + n + 1 \in Nat
    OBVIOUS
  <2> HIDE DEF s
  <2> QED
    BY <1>1, <2>1, AppendProperties
<1>4. \A i \in 1..(n + 1) : Append(s, k + n + 1)[i] = t[i]
  <2> SUFFICES ASSUME NEW i \in 1..(n + 1) PROVE Append(s, k + n + 1)[i] = t[i]
    OBVIOUS
  <2>1. CASE i = n + 1
    BY <1>3, <2>1
  <2>2. CASE i \in 1..n
    BY <1>3, <2>2
  <2> QED
    BY <2>1, <2>2
<1> HIDE DEF s, t
<1>5. Append(s, k + n + 1) = t
  BY <1>2, <1>3, <1>4, SeqEqual
<1> QED
  BY <1>5 DEF s, t

\* The last element of the second sequence is the last of both.
LEMMA AppendRight ==
  ASSUME NEW S, NEW g \in Seq(S), NEW q \in Seq(S), NEW e \in S
  PROVE  g \o Append(q, e) = Append(g \o q, e)
<1>1. <<e>> \in Seq(S) /\ g \o q \in Seq(S)
  BY ConcatProperties
<1>2. Append(q, e) = q \o <<e>> /\ Append(g \o q, e) = (g \o q) \o <<e>>
  BY <1>1, AppendIsConcat
<1> QED
  BY <1>1, <1>2, ConcatAssociative

\* An element that moves from one sequence to the other leaves both as they are.
LEMMA MoveHead ==
  ASSUME NEW S, NEW g \in Seq(S), NEW q \in Seq(S), q # <<>>
  PROVE  Append(g, Head(q)) \o Tail(q) = g \o q
<1>1. /\ Head(q) \in S /\ Tail(q) \in Seq(S) /\ Len(Tail(q)) = Len(q) - 1
      /\ \A i \in 1..Len(Tail(q)) : Tail(q)[i] = q[i + 1]
  BY HeadTailProperties
<1>2. <<Head(q)>> \in Seq(S)
  BY <1>1
<1>3. <<Head(q)>> \o Tail(q) = q
  <2>1. /\ <<Head(q)>> \o Tail(q) \in Seq(S)
        /\ Len(<<Head(q)>> \o Tail(q)) = Len(q)
        /\ \A i \in 1..Len(q) : (<<Head(q)>> \o Tail(q))[i] = q[i]
    <3>1. Len(<<Head(q)>>) = 1 /\ <<Head(q)>>[1] = q[1] /\ Len(q) \in Nat \ {0}
      BY LenProperties
    <3>2. /\ <<Head(q)>> \o Tail(q) \in Seq(S)
          /\ Len(<<Head(q)>> \o Tail(q)) = Len(q)
          /\ \A i \in 1..Len(q) :
               (<<Head(q)>> \o Tail(q))[i] = IF i <= 1 THEN <<Head(q)>>[i] ELSE Tail(q)[i - 1]
      BY <1>1, <1>2, <3>1, ConcatProperties
    <3>3. ASSUME NEW i \in 1..Len(q) PROVE (<<Head(q)>> \o Tail(q))[i] = q[i]
      <4>1. CASE i = 1
        BY <3>1, <3>2, <4>1
      <4>2. CASE i # 1
        <5>1. i - 1 \in 1..Len(Tail(q)) /\ ~(i <= 1) /\ (i - 1) + 1 = i
          BY <1>1, <3>1, <4>2
        <5> QED
          BY <1>1, <3>2, <5>1
      <4> QED
        BY <4>1, <4>2
    <3> QED
      BY <3>2, <3>3
  <2> QED
    BY <2>1, SeqEqual
<1>4. Append(g, Head(q)) = g \o <<Head(q)>>
  BY <1>1, AppendIsConcat
<1> QED
  BY <1>1, <1>2, <1>3, <1>4, ConcatAssociative

-----------------------------------------------------------------------------
\* What the steps write into a dashboard's row.

\* One that subscribes has missed nothing.
LEMMA RowSubscribed ==
  ASSUME NEW b \in BoardRow, NEW n \in 0..MaxEvents, b.queue = <<>>, b.got = <<>>
  PROVE  LET x == [b EXCEPT !.since = n]
         IN  /\ x \in BoardRow /\ x.queue = <<>> /\ x.since = n
             /\ Complete(x, n)
<1> DEFINE x == [b EXCEPT !.since = n]
<1>1. x \in BoardRow /\ x.queue = <<>> /\ x.got = <<>> /\ x.since = n
  BY DEF BoardRow
<1> HIDE DEF x
<1>2. n - x.since = 0
  BY <1>1
<1>3. [i \in 1..0 |-> x.since + i] = <<>>
  OBVIOUS
<1>4. x.got \o x.queue = <<>>
  BY <1>1
<1>5. Complete(x, n)
  BY <1>2, <1>3, <1>4 DEF Complete
<1> QED
  BY <1>1, <1>5 DEF x

\* An event that finds room is the next one.
LEMMA RowQueued ==
  ASSUME NEW b \in BoardRow, NEW n \in Nat, n < MaxEvents, b.since <= n,
         Len(b.queue) < SendBuffer
  PROVE  LET x == [b EXCEPT !.queue = Append(b.queue, n + 1)]
         IN  /\ x \in BoardRow /\ Len(x.queue) <= SendBuffer /\ x.since = b.since
             /\ Complete(b, n) => Complete(x, n + 1)
<1> DEFINE q == Append(b.queue, n + 1)
           x == [b EXCEPT !.queue = q]
<1>1. /\ b.queue \in Seq(1..MaxEvents) /\ b.got \in Seq(1..MaxEvents)
      /\ b.since \in 0..MaxEvents
  BY DEF BoardRow
<1>2. n + 1 \in 1..MaxEvents
  BY HubAssumption
<1>3. q \in Seq(1..MaxEvents) /\ Len(q) = Len(b.queue) + 1 /\ Len(b.queue) \in Nat
  BY <1>1, <1>2, AppendProperties, LenProperties
<1>4. b.got \o q = Append(b.got \o b.queue, n + 1)
  <2> DEFINE S == 1..MaxEvents
             e == n + 1
             r == b.queue
             g == b.got
  <2>1. g \in Seq(S) /\ r \in Seq(S) /\ e \in S
    BY <1>1, <1>2
  <2> HIDE DEF S, e, r, g
  <2>2. g \o Append(r, e) = Append(g \o r, e)
    BY <2>1, AppendRight
  <2> QED
    BY <2>2 DEF e, r, g
<1> HIDE DEF q
<1>5. /\ x \in BoardRow /\ x.queue = q /\ x.got = b.got /\ x.since = b.since
  BY <1>3 DEF BoardRow
<1> HIDE DEF x
<1>6. Len(x.queue) <= SendBuffer
  BY <1>3, <1>5, HubAssumption
<1>7. ASSUME Complete(b, n) PROVE Complete(x, n + 1)
  <2> DEFINE k == b.since
             m == n - b.since
  <2>1. k \in Nat /\ m \in Nat /\ k + m + 1 = n + 1 /\ (n + 1) - k = m + 1
    BY <1>1
  <2>2. b.got \o b.queue = [i \in 1..m |-> k + i]
    BY <1>7 DEF Complete
  <2>3. x.got \o x.queue = Append(b.got \o b.queue, n + 1)
    BY <1>4, <1>5
  <2> HIDE DEF k, m
  <2>4. Append([i \in 1..m |-> k + i], k + m + 1) = [i \in 1..(m + 1) |-> k + i]
    BY <2>1, NextNumber
  <2>5. x.got \o x.queue = [i \in 1..((n + 1) - k) |-> k + i]
    BY <2>1, <2>2, <2>3, <2>4
  <2> QED
    BY <1>5, <2>5 DEF Complete, k
<1> QED
  BY <1>5, <1>6, <1>7 DEF x, q

\* An event that is written is still the dashboard's.
LEMMA RowWritten ==
  ASSUME NEW b \in BoardRow, b.queue # <<>>, Len(b.queue) <= SendBuffer
  PROVE  LET x == [b EXCEPT !.queue = Tail(b.queue),
                            !.got = Append(b.got, Head(b.queue))]
         IN  /\ x \in BoardRow /\ Len(x.queue) <= SendBuffer /\ x.since = b.since
             /\ \A n \in Nat : Complete(b, n) => Complete(x, n)
<1> DEFINE q == Tail(b.queue)
           g == Append(b.got, Head(b.queue))
           x == [b EXCEPT !.queue = q, !.got = g]
<1>1. /\ b.queue \in Seq(1..MaxEvents) /\ b.got \in Seq(1..MaxEvents)
  BY DEF BoardRow
<1>2. /\ Head(b.queue) \in 1..MaxEvents
      /\ q \in Seq(1..MaxEvents) /\ Len(q) = Len(b.queue) - 1 /\ Len(b.queue) \in Nat
  BY <1>1, HeadTailProperties, LenProperties
<1>3. g \in Seq(1..MaxEvents)
  BY <1>1, <1>2, AppendProperties
<1>4. g \o q = b.got \o b.queue
  BY <1>1, MoveHead
<1> HIDE DEF q, g
<1>5. /\ x \in BoardRow /\ x.queue = q /\ x.got = g /\ x.since = b.since
  BY <1>2, <1>3 DEF BoardRow
<1> HIDE DEF x
<1>6. Len(x.queue) <= SendBuffer
  BY <1>2, <1>5, HubAssumption
<1>7. \A n \in Nat : Complete(b, n) => Complete(x, n)
  BY <1>4, <1>5 DEF Complete
<1> QED
  BY <1>5, <1>6, <1>7 DEF x, q, g

-----------------------------------------------------------------------------
\* The dashboards.

\* Only the row of d changes.
LEMMA OneRow ==
  ASSUME BoardsInv, NEW d \in Dashboards, NEW x \in BoardRow,
         inbox' = [inbox EXCEPT ![d] = x]
  PROVE  /\ inbox' \in [Dashboards -> BoardRow] /\ inbox'[d] = x
         /\ \A o \in Dashboards \ {d} : inbox'[o] = inbox[o]
BY DEF BoardsInv, BoardsTyped

\* A dashboard's connection is closed.
LEMMA ClosingKeeps ==
  ASSUME BoardsInv, NEW d \in Dashboards, Closing(d),
         UNCHANGED <<subscribed, inbox, published>>,
         doomed' \subseteq doomed, \A o \in Dashboards \ {d} : o \in doomed' <=> o \in doomed
  PROVE  BoardsInv'
<1>1. /\ peer' \in [Dashboards -> {"none", "open", "closed", "gone"}]
      /\ peer'[d] = IF peer[d] = "open" THEN "closed" ELSE peer[d]
      /\ \A o \in Dashboards \ {d} : peer'[o] = peer[o]
  BY DEF BoardsInv, BoardsTyped, Closing
<1>2. BoardsTyped'
  BY <1>1 DEF BoardsInv, BoardsTyped
<1>3. \A o \in Dashboards : RowSound(o)'
  BY DEF BoardsInv, RowSound
<1>4. BoardSound(d)'
  BY <1>1 DEF BoardsInv, BoardSound
<1>5. ASSUME NEW o \in Dashboards \ {d} PROVE BoardSound(o)'
  BY <1>1, <1>5 DEF BoardsInv, BoardSound
<1> QED
  BY <1>2, <1>3, <1>4, <1>5 DEF BoardsInv

\* A step of one dashboard, or of the publisher.
LEMMA BoardsKept ==
  ASSUME BoardsInv, \/ \E d \in Dashboards : Board(d)
                    \/ Publish \/ UNCHANGED boards
  PROVE  BoardsInv'
<1>1. ASSUME NEW d \in Dashboards, Open(d) PROVE BoardsInv'
  <2>1. /\ peer' = [peer EXCEPT ![d] = "open"] /\ peer[d] = "none"
        /\ UNCHANGED <<subscribed, inbox, doomed, published>>
    BY <1>1 DEF Open
  <2>2. d \notin subscribed
    BY <2>1 DEF BoardsInv, BoardSound
  <2>3. BoardsTyped' /\ peer'[d] = "open" /\ \A o \in Dashboards \ {d} : peer'[o] = peer[o]
    BY <2>1 DEF BoardsInv, BoardsTyped
  <2>4. \A o \in Dashboards : RowSound(o)'
    BY <2>1 DEF BoardsInv, RowSound
  <2>5. BoardSound(d)'
    BY <2>1, <2>2, <2>3 DEF BoardsInv, BoardSound
  <2>6. ASSUME NEW o \in Dashboards \ {d} PROVE BoardSound(o)'
    BY <2>1, <2>3, <2>6 DEF BoardsInv, BoardSound
  <2> QED
    BY <2>3, <2>4, <2>5, <2>6 DEF BoardsInv
<1>2. ASSUME NEW d \in Dashboards, Subscribe(d) PROVE BoardsInv'
  <2> DEFINE x == [inbox[d] EXCEPT !.since = published]
  <2>1. /\ peer[d] \in {"open", "closed"} /\ d \notin subscribed
        /\ subscribed' = subscribed \cup {d} /\ inbox' = [inbox EXCEPT ![d] = x]
        /\ UNCHANGED <<peer, doomed, published>>
    BY <1>2 DEF Subscribe
  <2>2. inbox[d] \in BoardRow /\ published \in 0..MaxEvents
    BY DEF BoardsInv, BoardsTyped
  <2>3. inbox[d].queue = <<>> /\ inbox[d].got = <<>>
    BY <2>1 DEF BoardsInv, BoardSound
  <2>4. x \in BoardRow /\ x.queue = <<>> /\ x.since = published /\ Complete(x, published)
    BY <2>2, <2>3, RowSubscribed
  <2> HIDE DEF x
  <2>5. /\ inbox' \in [Dashboards -> BoardRow] /\ inbox'[d] = x
        /\ \A o \in Dashboards \ {d} : inbox'[o] = inbox[o]
    BY <2>1, <2>4, OneRow
  <2>6. BoardsTyped'
    BY <2>1, <2>5 DEF BoardsInv, BoardsTyped
  <2>7. RowSound(d)' /\ BoardSound(d)'
    <3>1. Len(x.queue) <= SendBuffer /\ x.since <= published
      BY <2>2, <2>4, HubAssumption
    <3>2. RowSound(d)'
      BY <2>1, <2>4, <2>5, <3>1 DEF RowSound
    <3>3. BoardSound(d)'
      BY <2>1, <2>4, <2>5 DEF BoardSound, Complete
    <3> QED
      BY <3>2, <3>3
  <2>8. ASSUME NEW o \in Dashboards \ {d} PROVE RowSound(o)' /\ BoardSound(o)'
    <3>1. inbox'[o] = inbox[o] /\ (o \in subscribed' <=> o \in subscribed)
      BY <2>1, <2>5, <2>8
    <3> QED
      BY <2>1, <3>1 DEF BoardsInv, RowSound, BoardSound, Complete
  <2> QED
    BY <2>6, <2>7, <2>8 DEF BoardsInv
<1>3. ASSUME NEW d \in Dashboards, CloseSlow(d) PROVE BoardsInv'
  BY <1>3, ClosingKeeps DEF CloseSlow
<1>4. ASSUME NEW d \in Dashboards, BoardBreaks(d) PROVE BoardsInv'
  BY <1>4, ClosingKeeps DEF BoardBreaks
<1>5. ASSUME NEW d \in Dashboards, WriteBoard(d) PROVE BoardsInv'
  <2> DEFINE x == [inbox[d] EXCEPT !.queue = Tail(inbox[d].queue),
                                   !.got = Append(inbox[d].got, Head(inbox[d].queue))]
  <2>1. /\ peer[d] = "open" /\ inbox[d].queue # <<>>
        /\ UNCHANGED <<peer, subscribed, doomed, published>>
    BY <1>5 DEF WriteBoard
  <2>2. /\ inbox[d] \in BoardRow /\ Len(inbox[d].queue) <= SendBuffer
        /\ inbox[d].since <= published /\ published \in Nat
        /\ inbox \in [Dashboards -> BoardRow]
    BY DEF BoardsInv, BoardsTyped, RowSound
  <2>3. inbox' = [inbox EXCEPT ![d] = x]
    BY <1>5, <2>2 DEF WriteBoard, BoardRow
  <2>4. /\ x \in BoardRow /\ Len(x.queue) <= SendBuffer /\ x.since = inbox[d].since
        /\ Complete(inbox[d], published) => Complete(x, published)
    BY <2>1, <2>2, RowWritten
  <2> HIDE DEF x
  <2>5. /\ inbox' \in [Dashboards -> BoardRow] /\ inbox'[d] = x
        /\ \A o \in Dashboards \ {d} : inbox'[o] = inbox[o]
    BY <2>3, <2>4, OneRow
  <2>6. BoardsTyped'
    BY <2>1, <2>5 DEF BoardsInv, BoardsTyped
  <2>7. d \in subscribed
    BY <2>1 DEF BoardsInv, BoardSound
  <2>8. RowSound(d)' /\ BoardSound(d)'
    BY <2>1, <2>2, <2>4, <2>5, <2>7 DEF BoardsInv, RowSound, BoardSound, Complete
  <2>9. ASSUME NEW o \in Dashboards \ {d} PROVE RowSound(o)' /\ BoardSound(o)'
    BY <2>1, <2>5, <2>9 DEF BoardsInv, RowSound, BoardSound, Complete
  <2> QED
    BY <2>6, <2>8, <2>9 DEF BoardsInv
<1>6. ASSUME NEW d \in Dashboards, RemovePeer(d) PROVE BoardsInv'
  <2>1. /\ peer' = [peer EXCEPT ![d] = "gone"] /\ subscribed' = subscribed \ {d}
        /\ UNCHANGED <<inbox, doomed, published>>
    BY <1>6 DEF RemovePeer
  <2>2. BoardsTyped' /\ peer'[d] = "gone" /\ \A o \in Dashboards \ {d} : peer'[o] = peer[o]
    BY <2>1 DEF BoardsInv, BoardsTyped
  <2>3. \A o \in Dashboards : RowSound(o)'
    BY <2>1 DEF BoardsInv, RowSound
  <2>4. BoardSound(d)'
    BY <2>1, <2>2 DEF BoardsInv, BoardSound
  <2>5. ASSUME NEW o \in Dashboards \ {d} PROVE BoardSound(o)'
    BY <2>1, <2>2, <2>5 DEF BoardsInv, BoardSound
  <2> QED
    BY <2>2, <2>3, <2>4, <2>5 DEF BoardsInv
<1>7. ASSUME Publish PROVE BoardsInv'
  <2>1. /\ published < MaxEvents /\ published' = published + 1
        /\ inbox' = [d \in Dashboards |-> Sent(d)]
        /\ doomed' = doomed \cup {d \in subscribed : Full(d)}
        /\ UNCHANGED <<peer, subscribed>>
    BY <1>7 DEF Publish
  <2>2. published \in Nat /\ published + 1 \in 0..MaxEvents
    BY <2>1, HubAssumption DEF BoardsInv, BoardsTyped
  <2>3. ASSUME NEW d \in Dashboards
        PROVE  /\ Sent(d) \in BoardRow /\ Len(Sent(d).queue) <= SendBuffer
               /\ Sent(d).since = inbox[d].since
               /\ d \notin subscribed => Sent(d) = inbox[d]
               /\ d \in subscribed /\ ~Full(d) /\ Complete(inbox[d], published)
                  => Complete(Sent(d), published + 1)
    <3>1. /\ inbox[d] \in BoardRow /\ Len(inbox[d].queue) <= SendBuffer
          /\ inbox[d].since <= published
      BY <2>3 DEF BoardsInv, RowSound
    <3>2. CASE d \in subscribed /\ ~Full(d)
      <4> DEFINE x == [inbox[d] EXCEPT !.queue = Append(inbox[d].queue, published + 1)]
      <4>1. Len(inbox[d].queue) < SendBuffer
        <5>1. Len(inbox[d].queue) \in Nat
          BY <3>1, LenProperties DEF BoardRow
        <5> QED
          BY <3>1, <3>2, <5>1, HubAssumption DEF Full
      <4>2. /\ x \in BoardRow /\ Len(x.queue) <= SendBuffer /\ x.since = inbox[d].since
            /\ Complete(inbox[d], published) => Complete(x, published + 1)
        BY <2>1, <2>2, <3>1, <4>1, RowQueued
      <4>3. Sent(d) = x
        BY <3>1, <3>2 DEF Sent, BoardRow
      <4> HIDE DEF x
      <4> QED
        BY <3>2, <4>2, <4>3
    <3>3. CASE ~(d \in subscribed /\ ~Full(d))
      <4>1. Sent(d) = inbox[d]
        BY <3>3 DEF Sent
      <4> QED
        BY <3>1, <3>3, <4>1
    <3> QED
      BY <3>2, <3>3
  <2>4. \A d \in Dashboards : inbox'[d] = Sent(d)
    BY <2>1
  <2>5. BoardsTyped'
    BY <2>1, <2>2, <2>3 DEF BoardsInv, BoardsTyped
  <2>6. ASSUME NEW d \in Dashboards PROVE RowSound(d)' /\ BoardSound(d)'
    <3>1. inbox[d].since \in Nat /\ inbox[d].since <= published
      BY <2>6 DEF BoardsInv, RowSound, BoardRow
    <3>2. inbox[d].since <= published + 1
      BY <2>2, <3>1
    <3>3. inbox'[d] = Sent(d) /\ peer' = peer /\ subscribed' = subscribed
      BY <2>1, <2>4, <2>6
    <3>4. RowSound(d)'
      BY <2>1, <2>3, <2>6, <3>2, <3>3 DEF RowSound
    <3>5. d \notin doomed' /\ d \in subscribed => d \notin doomed /\ ~Full(d)
      BY <2>1
    <3>6. d \in subscribed /\ peer[d] = "open" /\ d \notin doomed'
          => Complete(Sent(d), published + 1)
      BY <2>3, <2>6, <3>5 DEF BoardsInv, BoardSound
    <3>7. BoardSound(d)'
      BY <2>1, <2>3, <2>6, <3>3, <3>6 DEF BoardsInv, BoardSound, Complete
    <3> QED
      BY <3>4, <3>7
  <2> QED
    BY <2>5, <2>6 DEF BoardsInv
<1>8. ASSUME UNCHANGED boards PROVE BoardsInv'
  BY <1>8 DEF boards, BoardsInv, BoardsTyped, RowSound, BoardSound
<1> QED
  BY <1>1, <1>2, <1>3, <1>4, <1>5, <1>6, <1>7, <1>8 DEF Board

-----------------------------------------------------------------------------
\* The agent's sockets.

\* The two ends of the sockets and the entry.
LEMMA EndsKept ==
  ASSUME SocketsInv, NEW s \in Socks, AgentSocket(s)
  PROVE  /\ server' \in [Socks -> {"none", "open", "closed", "gone"}]
         /\ registered' \in Socks \cup {None}
         /\ client' \in [Socks -> {"none", "dialled", "open", "closed"}]
         /\ conn' \in Socks \cup {None}
         /\ OpenSocketRegistered'
         /\ breaks' \in 0..MaxBreaks
<1>1. SocketsTyped /\ OpenSocketRegistered /\ None \notin Socks
  BY HubAssumption DEF SocketsInv
<1>b. /\ Breaks => breaks' \in 0..MaxBreaks
      /\ UNCHANGED breaks => breaks' \in 0..MaxBreaks
  BY <1>1, HubAssumption DEF Breaks, SocketsTyped
<1>2. CASE Dial(s) \/ DialFails(s)
  BY <1>1, <1>b, <1>2 DEF Dial, DialFails, SocketsTyped, OpenSocketRegistered
<1>3. CASE Accept(s)
  <2>1. /\ registered' = s /\ UNCHANGED <<client, conn, breaks>>
        /\ server' = [o \in Socks |-> IF o = s THEN "open"
                        ELSE IF o = registered /\ server[o] = "open" THEN "closed"
                        ELSE server[o]]
    BY <1>3 DEF Accept
  <2>2. server' \in [Socks -> {"none", "open", "closed", "gone"}]
    BY <1>1, <2>1 DEF SocketsTyped
  <2>3. \A o \in Socks \ {s} : server'[o] # "open"
    BY <1>1, <2>1 DEF OpenSocketRegistered
  <2> QED
    BY <1>1, <1>b, <2>1, <2>2, <2>3 DEF SocketsTyped, OpenSocketRegistered
<1>4. CASE Connected(s)
  BY <1>1, <1>b, <1>4 DEF Connected, SocketsTyped, OpenSocketRegistered
<1>5. CASE ServerNotices(s)
  BY <1>1, <1>b, <1>5 DEF ServerNotices, SocketsTyped, OpenSocketRegistered
<1>6. CASE ClientCloses(s)
  BY <1>1, <1>b, <1>6 DEF ClientCloses, SocketsTyped, OpenSocketRegistered
<1>7. CASE Leave(s)
  BY <1>1, <1>b, <1>7 DEF Leave, SocketsTyped, OpenSocketRegistered
<1>8. CASE Write(s) \/ Read(s)
  BY <1>1, <1>b, <1>8 DEF Write, Read, SocketsTyped, OpenSocketRegistered
<1> QED
  BY <1>2, <1>3, <1>4, <1>5, <1>6, <1>7, <1>8 DEF AgentSocket

FramesTyped ==
  /\ send \in [Socks -> Seq(Runs)] /\ wire \in [Socks -> Seq(Runs)]
  /\ \A s \in Socks : Len(send[s]) <= SendBuffer
  /\ cancelled \subseteq Runs
  /\ asked \in [Runs -> {"no", "done"} \cup Socks]

\* The cancel commands on their way.
LEMMA FramesKept ==
  ASSUME SocketsInv, \/ \E s \in Socks : AgentSocket(s)
                     \/ \E r \in Runs : CancelRun(r) \/ Enqueue(r)
  PROVE  FramesTyped'
<1>1. FramesTyped /\ registered \in Socks \cup {None}
  BY DEF SocketsInv, SocketsTyped, FramesTyped
<1>2. ASSUME NEW s \in Socks, ClientCloses(s) PROVE FramesTyped'
  <2>1. wire' = [wire EXCEPT ![s] = <<>>] /\ UNCHANGED <<send, cancelled, asked>>
    BY <1>2 DEF ClientCloses
  <2>2. <<>> \in Seq(Runs)
    OBVIOUS
  <2> QED
    BY <1>1, <2>1, <2>2 DEF FramesTyped
<1>3. ASSUME NEW s \in Socks, Write(s) PROVE FramesTyped'
  <2>1. /\ send[s] \in Seq(Runs) /\ send[s] # <<>> /\ wire[s] \in Seq(Runs)
        /\ Len(send[s]) <= SendBuffer
    BY <1>1, <1>3 DEF FramesTyped, Write
  <2>2. /\ Head(send[s]) \in Runs /\ Tail(send[s]) \in Seq(Runs)
        /\ Len(Tail(send[s])) = Len(send[s]) - 1 /\ Len(send[s]) \in Nat
    BY <2>1, HeadTailProperties, LenProperties
  <2>3. Append(wire[s], Head(send[s])) \in Seq(Runs)
    BY <2>1, <2>2, AppendProperties
  <2>4. Len(Tail(send[s])) <= SendBuffer
    BY <2>1, <2>2, HubAssumption
  <2>5. /\ \/ wire' = wire
           \/ wire' = [wire EXCEPT ![s] = Append(wire[s], Head(send[s]))]
        /\ send' = [send EXCEPT ![s] = Tail(send[s])]
        /\ UNCHANGED <<cancelled, asked>>
    BY <1>3 DEF Write
  <2>6. wire' \in [Socks -> Seq(Runs)]
    BY <1>1, <2>3, <2>5 DEF FramesTyped
  <2> QED
    BY <1>1, <2>2, <2>4, <2>5, <2>6 DEF FramesTyped
<1>4. ASSUME NEW s \in Socks, Read(s) PROVE FramesTyped'
  <2>1. wire[s] \in Seq(Runs) /\ wire[s] # <<>>
    BY <1>1, <1>4 DEF FramesTyped, Read
  <2>2. Head(wire[s]) \in Runs /\ Tail(wire[s]) \in Seq(Runs)
    BY <2>1, HeadTailProperties
  <2>3. /\ cancelled' = cancelled \cup {Head(wire[s])}
        /\ wire' = [wire EXCEPT ![s] = Tail(wire[s])]
        /\ UNCHANGED <<send, asked>>
    BY <1>4 DEF Read
  <2> QED
    BY <1>1, <2>2, <2>3 DEF FramesTyped
<1>5. ASSUME NEW r \in Runs, CancelRun(r) PROVE FramesTyped'
  <2>1. /\ asked' = [asked EXCEPT ![r] = IF registered = None THEN "done" ELSE registered]
        /\ UNCHANGED <<send, wire, cancelled>>
    BY <1>5 DEF CancelRun
  <2>2. (IF registered = None THEN "done" ELSE registered) \in {"no", "done"} \cup Socks
    BY <1>1
  <2> QED
    BY <1>1, <2>1, <2>2 DEF FramesTyped
<1>6. ASSUME NEW r \in Runs, Enqueue(r) PROVE FramesTyped'
  <2> DEFINE s == asked[r]
             q == Append(send[s], r)
  <2>1. s \in Socks /\ send[s] \in Seq(Runs) /\ Len(send[s]) <= SendBuffer
    BY <1>1, <1>6 DEF FramesTyped, Enqueue
  <2>2. q \in Seq(Runs) /\ Len(q) = Len(send[s]) + 1 /\ Len(send[s]) \in Nat
    BY <2>1, AppendProperties, LenProperties
  <2>3. /\ \/ send' = send
           \/ Len(send[s]) < SendBuffer /\ send' = [send EXCEPT ![s] = q]
        /\ asked' = [asked EXCEPT ![r] = "done"]
        /\ UNCHANGED <<wire, cancelled>>
    BY <1>6 DEF Enqueue
  <2>4. Len(send[s]) < SendBuffer => Len(q) <= SendBuffer
    BY <2>2, HubAssumption
  <2> HIDE DEF s, q
  <2>5. send' \in [Socks -> Seq(Runs)] /\ \A o \in Socks : Len(send'[o]) <= SendBuffer
    <3>1. send \in [Socks -> Seq(Runs)] /\ \A o \in Socks : Len(send[o]) <= SendBuffer
      BY <1>1 DEF FramesTyped
    <3>2. CASE send' = send
      BY <3>1, <3>2
    <3>3. CASE Len(send[s]) < SendBuffer /\ send' = [send EXCEPT ![s] = q]
      <4>1. q \in Seq(Runs) /\ Len(q) <= SendBuffer
        BY <2>2, <2>4, <3>3
      <4>2. send' \in [Socks -> Seq(Runs)] /\ send'[s] = q
            /\ \A o \in Socks \ {s} : send'[o] = send[o]
        BY <2>1, <3>1, <3>3, <4>1
      <4> QED
        BY <3>1, <4>1, <4>2
    <3> QED
      BY <2>3, <3>2, <3>3
  <2> QED
    BY <1>1, <2>3, <2>5 DEF FramesTyped
<1>8. ASSUME NEW s \in Socks, Dial(s) PROVE FramesTyped'
  <2>1. send' = [send EXCEPT ![s] = <<>>] /\ UNCHANGED <<wire, cancelled, asked>>
    BY <1>8 DEF Dial
  <2>2. <<>> \in Seq(Runs) /\ Len(<<>>) <= SendBuffer
    BY EmptySeq, HubAssumption
  <2> QED
    BY <1>1, <2>1, <2>2 DEF FramesTyped
<1>7. ASSUME UNCHANGED <<send, wire, cancelled, asked>> PROVE FramesTyped'
  BY <1>1, <1>7 DEF FramesTyped
<1> QED
  BY <1>2, <1>3, <1>4, <1>5, <1>6, <1>7, <1>8 DEF AgentSocket, DialFails, Accept,
     Connected, ServerNotices, Leave

LEMMA SocketsKept ==
  ASSUME SocketsInv, \/ \E s \in Socks : AgentSocket(s)
                     \/ \E r \in Runs : CancelRun(r) \/ Enqueue(r)
                     \/ UNCHANGED sockets
  PROVE  SocketsInv'
<1>1. CASE \E s \in Socks : AgentSocket(s)
  BY <1>1, EndsKept, FramesKept DEF SocketsInv, SocketsTyped, FramesTyped
<1>2. CASE \E r \in Runs : CancelRun(r) \/ Enqueue(r)
  BY <1>2, FramesKept
     DEF SocketsInv, SocketsTyped, FramesTyped, OpenSocketRegistered, CancelRun, Enqueue
<1>3. CASE UNCHANGED sockets
  BY <1>3 DEF sockets, SocketsInv, SocketsTyped, OpenSocketRegistered
<1> QED
  BY <1>1, <1>2, <1>3

-----------------------------------------------------------------------------
LEMMA InitInv == Init => IInv
<1> SUFFICES ASSUME Init PROVE IInv
  OBVIOUS
<1>1. SocketsInv
  BY HubAssumption DEF Init, SocketsInv, SocketsTyped, OpenSocketRegistered
<1>2. <<>> \in Seq(1..MaxEvents) /\ Len(<<>>) = 0 /\ 0 \in 0..MaxEvents
  BY EmptySeq, HubAssumption
<1>3. [queue |-> <<>>, got |-> <<>>, since |-> 0] \in BoardRow
  BY <1>2 DEF BoardRow
<1>4. BoardsTyped
  BY <1>2, <1>3 DEF Init, BoardsTyped
<1>5. \A d \in Dashboards : RowSound(d) /\ BoardSound(d)
  BY <1>2, <1>3, HubAssumption DEF Init, RowSound, BoardSound
<1> QED
  BY <1>1, <1>4, <1>5 DEF IInv, BoardsInv

LEMMA StepInv == IInv /\ [Next]_vars => IInv'
<1> SUFFICES ASSUME IInv, [Next]_vars PROVE IInv'
  OBVIOUS
<1>1. \/ (\E s \in Socks : AgentSocket(s)) /\ UNCHANGED boards
      \/ (\E r \in Runs : CancelRun(r) \/ Enqueue(r)) /\ UNCHANGED boards
      \/ (\E d \in Dashboards : Board(d)) /\ UNCHANGED sockets
      \/ Publish /\ UNCHANGED sockets
      \/ UNCHANGED sockets /\ UNCHANGED boards
  BY DEF Next, vars, AgentSocket, Board, Dial, DialFails, Accept, Connected,
     ServerNotices, ClientCloses, Leave, Write, Read, CancelRun, Enqueue, Open,
     Subscribe, CloseSlow, WriteBoard, BoardBreaks, RemovePeer, Publish
<1> QED
  BY <1>1, SocketsKept, BoardsKept DEF IInv

\* For any number of sockets of the agent and of dashboards, the server sends
\* commands to the one socket it keeps open, and no dashboard that has left is
\* in a set.
THEOREM Peers == Spec => []PeersSound
<1>1. IInv => PeersSound
  BY DEF IInv, SocketsInv, SocketsTyped, BoardsInv, BoardsTyped, RowSound,
     BoardSound, BoardRow, PeersSound, TypeOK, NoGonePeerSubscribed
<1> QED
  BY <1>1, InitInv, StepInv, PTL DEF Spec

\* However many events are published and however small the channels, a
\* dashboard that is kept has every event since it subscribed, in order.
THEOREM NothingMissed == Spec => []KeptBoardMissesNothing
<1>1. IInv => KeptBoardMissesNothing
  BY DEF IInv, BoardsInv, BoardsTyped, BoardSound, Complete, KeptBoardMissesNothing
<1> QED
  BY <1>1, InitInv, StepInv, PTL DEF Spec
=============================================================================
