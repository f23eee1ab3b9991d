-------------------------- MODULE Restores_proofs --------------------------
(***************************************************************************)
(* What the engines bring back of any source, and what the way of the data *)
(* keeps for any number of restores and destinations and every order of    *)
(* calls.                                                                  *)
(*                                                                         *)
(* The engines: a dump is one section for a collection, one behind the     *)
(* other (Layout), and a replay of it goes section by section and row by   *)
(* row (SectionTrace); Ready says what an engine has done between two      *)
(* sections, Within what it has done in one (Replayed).  The inductions    *)
(* are on sets of numbers (CountingTo).                                    *)
(*                                                                         *)
(* The way: the file in the agent's hand is the whole payload from the     *)
(* dump to the report, and a restore exists only after a run that          *)
(* completed (StageInv); so what a completed run has stored stays as it    *)
(* is.  A restore is begun by the one claim that finds its row PENDING     *)
(* (RowsInv), so nothing tells of its end before it (WorkInv), and what it *)
(* left in its destination is known from there to its row (WholeInv,       *)
(* BlameInv).                                                              *)
(***************************************************************************)
EXTENDS Restores, FiniteSetTheorems, WellFoundedInduction, TLAPS

-----------------------------------------------------------------------------
\* Induction over the natural numbers, for a set: the provers here instantiate
\* no operator, and every property of a number is one of a set of numbers.

LEMMA NatLess ==
    ASSUME NEW x \in Nat, NEW y \in Nat, x < y
    PROVE  <<x, y>> \in {ss \in Nat \X Nat : ss[1] < ss[2]}
<1> DEFINE p == <<x, y>>
<1>1. p \in Nat \X Nat /\ p[1] < p[2]
  OBVIOUS
<1> HIDE DEF p
<1>2. p \in {ss \in Nat \X Nat : ss[1] < ss[2]}
  BY <1>1
<1> QED
  BY <1>2 DEF p

LEMMA LeastNat ==
    ASSUME NEW T, T \subseteq Nat, T # {}
    PROVE  \E x \in T : \A y \in T : x <= y
<1> DEFINE Less == {ss \in Nat \X Nat : ss[1] < ss[2]}
<1>1. IsWellFoundedOn(Less, Nat)
  BY NatLessThanWellFounded, Zenon DEF OpToRel
<1>2. PICK x \in T : \A y \in T : ~(<<y, x>> \in Less)
  <2> HIDE DEF Less
  <2> QED
    BY <1>1, WFMin, Zenon
<1>3. ASSUME NEW y \in T, y < x PROVE FALSE
  BY <1>2, <1>3, NatLess
<1> QED
  BY <1>3

LEMMA Counting ==
    ASSUME NEW S, 0 \in S, \A n \in Nat : n \in S => n + 1 \in S
    PROVE  \A n \in Nat : n \in S
<1> DEFINE T == Nat \ S
<1> SUFFICES ASSUME T # {} PROVE FALSE
  OBVIOUS
<1>1. PICK x \in T : \A y \in T : x <= y
  <2> HIDE DEF T
  <2>1. T \subseteq Nat
    BY DEF T
  <2> QED
    BY <2>1, LeastNat
<1>2. x \in Nat /\ x # 0 /\ x - 1 \in Nat /\ (x - 1) + 1 = x
  OBVIOUS
<1>3. x - 1 \in T
  BY <1>2
<1> QED
  BY <1>1, <1>2, <1>3

\* The same up to a bound.
LEMMA CountingTo ==
    ASSUME NEW N \in Nat, NEW S, 0 \in S, \A n \in 1..N : n - 1 \in S => n \in S
    PROVE  \A n \in 0..N : n \in S
<1> DEFINE U == {n \in Nat : n <= N => n \in S}
<1>1. 0 \in U
  OBVIOUS
<1>2. ASSUME NEW n \in Nat, n \in U PROVE n + 1 \in U
  <2>1. CASE n + 1 <= N
    <3>1. n + 1 \in 1..N /\ (n + 1) - 1 = n /\ n \in S
      BY <1>2, <2>1
    <3> QED
      BY <3>1
  <2> QED
    BY <2>1
<1>3. \A n \in Nat : n \in U
  <2> HIDE DEF U
  <2> QED
    BY <1>1, <1>2, Counting
<1> QED
  BY <1>3

-----------------------------------------------------------------------------
\* The recursive definitions of Payloads have the values they are written to
\* have: a function on 0..n is extended to n + 1.

LEMMA WalkedDef ==
    ASSUME NEW j
    PROVE  /\ Walked(j)[0] = <<>>
           /\ \A n \in 1..Len(Entries) :
                Walked(j)[n] = IF Walks(Entries[n], j)
                               THEN Append(Walked(j)[n - 1], Entries[n])
                               ELSE Walked(j)[n - 1]
<1> DEFINE N == Len(Entries)
           V(g, n) == IF n = 0 THEN <<>>
                      ELSE IF Walks(Entries[n], j) THEN Append(g[n - 1], Entries[n])
                      ELSE g[n - 1]
           F(g, m) == [n \in 0..m |-> V(g, n)]
           S == {m \in Nat : \E g : g = F(g, m)}
<1>1. N \in Nat
  BY SourceAssumption
<1>2. 0 \in S
  <2> DEFINE g == [n \in 0..0 |-> <<>>]
  <2>1. \A n \in 0..0 : n = 0
    OBVIOUS
  <2>2. g = F(g, 0)
    BY <2>1, Zenon
  <2> QED
    BY <2>2, Zenon
<1>3. ASSUME NEW m \in 1..N, m - 1 \in S PROVE m \in S
  <2>1. PICK g : g = F(g, m - 1)
    BY <1>3
  <2> DEFINE h == [n \in 0..m |-> IF n = m THEN V(g, m) ELSE g[n]]
  <2>2. \A n \in 0..(m - 1) : h[n] = g[n] /\ g[n] = V(g, n)
    <3>1. \A n \in 0..(m - 1) : n # m /\ n \in 0..m
      BY <1>1
    <3> QED
      BY <2>1, <3>1, Zenon
  <2>3. ASSUME NEW n \in 0..m PROVE h[n] = V(h, n)
    <3>1. CASE n = m
      <4>1. m # 0 /\ m - 1 \in 0..(m - 1) /\ h[m - 1] = g[m - 1] /\ m \in 0..m
        BY <1>1, <2>2
      <4>2. h[m] = V(g, m) /\ V(g, m) = V(h, m)
        BY <4>1, Zenon
      <4> QED
        BY <3>1, <4>2
    <3>2. CASE n # m /\ n # 0
      <4>1. n \in 0..(m - 1) /\ n - 1 \in 0..(m - 1)
        BY <1>1, <3>2
      <4>2. h[n] = V(g, n) /\ h[n - 1] = g[n - 1]
        BY <2>2, <4>1, Zenon
      <4> QED
        BY <4>2, Zenon
    <3>3. CASE n # m /\ n = 0
      <4>1. n \in 0..(m - 1)
        BY <1>1, <3>3
      <4>2. h[n] = V(g, n)
        BY <2>2, <4>1, Zenon
      <4> QED
        BY <3>3, <4>2, Zenon
    <3> QED
      BY <3>1, <3>2, <3>3
  <2>4. h = F(h, m)
    <3> HIDE DEF V
    <3>1. h = [n \in 0..m |-> h[n]]
      OBVIOUS
    <3> HIDE DEF h
    <3> QED
      BY <2>3, <3>1
  <2>5. m \in Nat
    BY <1>1
  <2> QED
    BY <2>4, <2>5, Zenon
<1>4. N \in S
  <2> HIDE DEF S, N
  <2> QED
    BY <1>1, <1>2, <1>3, CountingTo
<1> DEFINE w == Walked(j)
<1>5. w = CHOOSE g : g = F(g, N)
  BY DEF Walked
<1>6. w = F(w, N)
  <2>1. \E g : g = F(g, N)
    BY <1>4
  <2> HIDE DEF w, F
  <2> QED
    BY <1>5, <2>1, Zenon
<1>7. ASSUME NEW n \in 0..N PROVE w[n] = V(w, n)
  BY <1>6, Zenon
<1>8. 0 \in 0..N /\ \A n \in 1..N : n \in 0..N /\ n # 0
  BY <1>1
<1> QED
  BY <1>7, <1>8, Zenon

LEMMA DumpedDef ==
    ASSUME NEW kind
    PROVE  /\ Dumped(kind)[0] = <<>>
           /\ \A n \in 1..Len(Collections) :
                Dumped(kind)[n] = Dumped(kind)[n - 1] \o Section(kind, Collections[n])
<1> DEFINE N == Len(Collections)
           V(g, n) == IF n = 0 THEN <<>> ELSE g[n - 1] \o Section(kind, Collections[n])
           F(g, m) == [n \in 0..m |-> V(g, n)]
           S == {m \in Nat : \E g : g = F(g, m)}
<1>1. N \in Nat
  BY SourceAssumption
<1>2. 0 \in S
  <2> DEFINE g == [n \in 0..0 |-> <<>>]
  <2>1. \A n \in 0..0 : n = 0
    OBVIOUS
  <2>2. g = F(g, 0)
    BY <2>1, Zenon
  <2> QED
    BY <2>2, Zenon
<1>3. ASSUME NEW m \in 1..N, m - 1 \in S PROVE m \in S
  <2>1. PICK g : g = F(g, m - 1)
    BY <1>3
  <2> DEFINE h == [n \in 0..m |-> IF n = m THEN V(g, m) ELSE g[n]]
  <2>2. \A n \in 0..(m - 1) : h[n] = g[n] /\ g[n] = V(g, n)
    <3>1. \A n \in 0..(m - 1) : n # m /\ n \in 0..m
      BY <1>1
    <3> QED
      BY <2>1, <3>1, Zenon
  <2>3. ASSUME NEW n \in 0..m PROVE h[n] = V(h, n)
    <3>1. CASE n = m
      <4>1. m # 0 /\ m - 1 \in 0..(m - 1) /\ h[m - 1] = g[m - 1] /\ m \in 0..m
        BY <1>1, <2>2
      <4>2. h[m] = V(g, m) /\ V(g, m) = V(h, m)
        BY <4>1, Zenon
      <4> QED
        BY <3>1, <4>2
    <3>2. CASE n # m /\ n # 0
      <4>1. n \in 0..(m - 1) /\ n - 1 \in 0..(m - 1)
        BY <1>1, <3>2
      <4>2. h[n] = V(g, n) /\ h[n - 1] = g[n - 1]
        BY <2>2, <4>1, Zenon
      <4> QED
        BY <4>2, Zenon
    <3>3. CASE n # m /\ n = 0
      <4>1. n \in 0..(m - 1)
        BY <1>1, <3>3
      <4>2. h[n] = V(g, n)
        BY <2>2, <4>1, Zenon
      <4> QED
        BY <3>3, <4>2, Zenon
    <3> QED
      BY <3>1, <3>2, <3>3
  <2>4. h = F(h, m)
    <3> HIDE DEF V
    <3>1. h = [n \in 0..m |-> h[n]]
      OBVIOUS
    <3> HIDE DEF h
    <3> QED
      BY <2>3, <3>1
  <2>5. m \in Nat
    BY <1>1
  <2> QED
    BY <2>4, <2>5, Zenon
<1>4. N \in S
  <2> HIDE DEF S, N
  <2> QED
    BY <1>1, <1>2, <1>3, CountingTo
<1> DEFINE w == Dumped(kind)
<1>5. w = CHOOSE g : g = F(g, N)
  BY DEF Dumped
<1>6. w = F(w, N)
  <2>1. \E g : g = F(g, N)
    BY <1>4
  <2> HIDE DEF w, F
  <2> QED
    BY <1>5, <2>1, Zenon
<1>7. ASSUME NEW n \in 0..N PROVE w[n] = V(w, n)
  BY <1>6, Zenon
<1>8. 0 \in 0..N /\ \A n \in 1..N : n \in 0..N /\ n # 0
  BY <1>1
<1> QED
  BY <1>7, <1>8, Zenon

LEMMA TraceDef ==
    ASSUME NEW kind, NEW db, NEW items, Len(items) \in Nat
    PROVE  /\ Trace(kind, db, items)[0] = Empty(db)
           /\ \A n \in 1..Len(items) :
                Trace(kind, db, items)[n] =
                  Onward(kind, Trace(kind, db, items)[n - 1], items[n])
<1> DEFINE N == Len(items)
           V(g, n) == IF n = 0 THEN Empty(db) ELSE Onward(kind, g[n - 1], items[n])
           F(g, m) == [n \in 0..m |-> V(g, n)]
           S == {m \in Nat : \E g : g = F(g, m)}
<1>1. N \in Nat
  OBVIOUS
<1>2. 0 \in S
  <2> DEFINE g == [n \in 0..0 |-> Empty(db)]
  <2>1. \A n \in 0..0 : n = 0
    OBVIOUS
  <2>2. g = F(g, 0)
    BY <2>1, Zenon
  <2> QED
    BY <2>2, Zenon
<1>3. ASSUME NEW m \in 1..N, m - 1 \in S PROVE m \in S
  <2>1. PICK g : g = F(g, m - 1)
    BY <1>3
  <2> DEFINE h == [n \in 0..m |-> IF n = m THEN V(g, m) ELSE g[n]]
  <2>2. \A n \in 0..(m - 1) : h[n] = g[n] /\ g[n] = V(g, n)
    <3>1. \A n \in 0..(m - 1) : n # m /\ n \in 0..m
      BY <1>1
    <3> QED
      BY <2>1, <3>1, Zenon
  <2>3. ASSUME NEW n \in 0..m PROVE h[n] = V(h, n)
    <3>1. CASE n = m
      <4>1. m # 0 /\ m - 1 \in 0..(m - 1) /\ h[m - 1] = g[m - 1] /\ m \in 0..m
        BY <1>1, <2>2
      <4>2. h[m] = V(g, m) /\ V(g, m) = V(h, m)
        BY <4>1, Zenon
      <4> QED
        BY <3>1, <4>2
    <3>2. CASE n # m /\ n # 0
      <4>1. n \in 0..(m - 1) /\ n - 1 \in 0..(m - 1)
        BY <1>1, <3>2
      <4>2. h[n] = V(g, n) /\ h[n - 1] = g[n - 1]
        BY <2>2, <4>1, Zenon
      <4> QED
        BY <4>2, Zenon
    <3>3. CASE n # m /\ n = 0
      <4>1. n \in 0..(m - 1)
        BY <1>1, <3>3
      <4>2. h[n] = V(g, n)
        BY <2>2, <4>1, Zenon
      <4> QED
        BY <3>3, <4>2, Zenon
    <3> QED
      BY <3>1, <3>2, <3>3
  <2>4. h = F(h, m)
    <3> HIDE DEF V
    <3>1. h = [n \in 0..m |-> h[n]]
      OBVIOUS
    <3> HIDE DEF h
    <3> QED
      BY <2>3, <3>1
  <2>5. m \in Nat
    BY <1>1
  <2> QED
    BY <2>4, <2>5, Zenon
<1>4. N \in S
  <2> HIDE DEF S, N
  <2> QED
    BY <1>1, <1>2, <1>3, CountingTo
<1> DEFINE w == Trace(kind, db, items)
<1>5. w = CHOOSE g : g = F(g, N)
  BY DEF Trace
<1>6. w = F(w, N)
  <2>1. \E g : g = F(g, N)
    BY <1>4
  <2> HIDE DEF w, F
  <2> QED
    BY <1>5, <2>1, Zenon
<1>7. ASSUME NEW n \in 0..N PROVE w[n] = V(w, n)
  BY <1>6, Zenon
<1>8. 0 \in 0..N /\ \A n \in 1..N : n \in 0..N /\ n # 0
  BY <1>1
<1> QED
  BY <1>7, <1>8, Zenon

LEMMA OnwardDef ==
    ASSUME NEW kind, NEW s, NEW item
    PROVE  Onward(kind, s, item) = IF s.ok THEN Step(kind, s, item) ELSE s
<1> DEFINE t == IF s.ok THEN Step(kind, s, item) ELSE s
<1>1. {IF u.ok THEN Step(kind, u, item) ELSE u : u \in {s}} = {t}
  OBVIOUS
<1> HIDE DEF t
<1>2. (CHOOSE x \in {t} : TRUE) = t
  OBVIOUS
<1> QED
  BY <1>1, <1>2 DEF Onward, t

LEMMA FinishDef == ASSUME NEW s PROVE Finish(s) = BuildIndexes(Flush(s))
<1> DEFINE u == Flush(s)
           t == BuildIndexes(u)
<1>1. {BuildIndexes(v) : v \in {u}} = {t}
  OBVIOUS
<1> HIDE DEF t
<1>2. (CHOOSE x \in {t} : TRUE) = t
  OBVIOUS
<1> QED
  BY <1>1, <1>2 DEF Finish, t

-----------------------------------------------------------------------------
\* What a backup writes.

Visited(j) == {e \in ToSet(Entries) : Walks(e, j)}

\* The archive holds the entries that the walk visits, and nothing else.
LEMMA Archived ==
    ASSUME NEW j
    PROVE  /\ Archive(j) \in Seq(Visited(j))
           /\ \A e \in Visited(j) : \E p \in 1..Len(Archive(j)) : Archive(j)[p] = e
<1> DEFINE N == Len(Entries)
           w == Walked(j)
           W == Visited(j)
           Good(n) == /\ w[n] \in Seq(W)
                      /\ \A q \in 1..n : Walks(Entries[q], j)
                           => \E p \in 1..Len(w[n]) : w[n][p] = Entries[q]
           S == {n \in 0..N : Good(n)}
<1>1. N \in Nat /\ Entries \in Seq(ToSet(Entries))
  BY SourceAssumption
<1>2. w[0] = <<>> /\ \A n \in 1..N : w[n] = IF Walks(Entries[n], j)
                                           THEN Append(w[n - 1], Entries[n])
                                           ELSE w[n - 1]
  BY WalkedDef
<1> HIDE DEF w
<1>3. 0 \in S
  <2>1. 0 \in 0..N /\ 1..0 = {} /\ <<>> \in Seq(W)
    BY <1>1
  <2> QED
    BY <1>2, <2>1, Zenon
<1>4. ASSUME NEW n \in 1..N, n - 1 \in S PROVE n \in S
  <2>1. n - 1 \in 0..N /\ Good(n - 1) /\ n \in 0..N
    BY <1>1, <1>4
  <2>2. \A q \in 1..n : q = n \/ q \in 1..(n - 1)
    BY <1>1
  <2>3. CASE Walks(Entries[n], j)
    <3>1. w[n] = Append(w[n - 1], Entries[n])
      BY <1>2, <2>3
    <3>2. Entries[n] \in W
      BY <1>1, <2>3 DEF Visited
    <3> DEFINE v == w[n - 1]
               e == Entries[n]
    <3>3. v \in Seq(W)
      BY <2>1
    <3> HIDE DEF v, e, W
    <3>4. /\ Append(v, e) \in Seq(W) /\ Len(Append(v, e)) = Len(v) + 1
          /\ Append(v, e)[Len(v) + 1] = e /\ Len(v) \in Nat
          /\ \A p \in 1..Len(v) : Append(v, e)[p] = v[p]
      BY <3>2, <3>3 DEF e
    <3>5. ASSUME NEW q \in 1..n, Walks(Entries[q], j)
          PROVE \E p \in 1..Len(w[n]) : w[n][p] = Entries[q]
      <4>1. CASE q = n
        <5>1. Len(v) + 1 \in 1..Len(w[n]) /\ w[n][Len(v) + 1] = Entries[n]
          BY <3>1, <3>4 DEF v, e
        <5> QED
          BY <4>1, <5>1
      <4>2. CASE q \in 1..(n - 1)
        <5>1. PICK p \in 1..Len(v) : v[p] = Entries[q]
          BY <2>1, <3>5, <4>2 DEF v
        <5>2. p \in 1..Len(w[n]) /\ w[n][p] = Entries[q]
          BY <3>1, <3>4, <5>1 DEF v, e
        <5> QED
          BY <5>2
      <4> QED
        BY <2>2, <4>1, <4>2
    <3>6. w[n] \in Seq(W)
      BY <3>1, <3>4 DEF v, e
    <3> QED
      BY <2>1, <3>5, <3>6
  <2>4. CASE ~Walks(Entries[n], j)
    <3>1. w[n] = w[n - 1]
      BY <1>2, <2>4
    <3> QED
      BY <2>1, <2>2, <2>4, <3>1
  <2> QED
    BY <2>3, <2>4
<1>5. N \in S
  <2> HIDE DEF S, N
  <2>1. \A n \in 0..N : n \in S
    BY <1>1, <1>3, <1>4, CountingTo
  <2> QED
    BY <1>1, <2>1
<1>6. Archive(j) = w[N]
  BY DEF Archive, w
<1>7. ASSUME NEW e \in W PROVE \E p \in 1..Len(w[N]) : w[N][p] = e
  <2>1. PICK q \in 1..N : e = Entries[q] /\ Walks(Entries[q], j)
    BY <1>1 DEF Visited, ToSet
  <2> QED
    BY <1>5, <2>1
<1> QED
  BY <1>5, <1>6, <1>7

\* The items of a database backup: what opens a section, and its rows.
Docs(i) == Collections[i].docs
Name(i) == Collections[i].name

Things(kind) ==
  {[is |-> "marker", name |-> Name(i)] : i \in DOMAIN Collections}
  \cup {[is |-> "header"]}
  \cup {[is |-> "frames", name |-> Name(i), count |-> Len(Docs(i)),
         indexes |-> Collections[i].indexes] : i \in DOMAIN Collections}
  \cup UNION {{Row(kind, d) : d \in ToSet(Docs(i))} : i \in DOMAIN Collections}

OpenLen(kind) == IF kind = "CSV" THEN 2 ELSE 1

LEMMA SourceFacts ==
    /\ Len(Collections) \in Nat /\ DOMAIN Collections = 1..Len(Collections)
    /\ \A i \in 1..Len(Collections) :
         /\ Len(Docs(i)) \in Nat /\ DOMAIN Docs(i) = 1..Len(Docs(i))
         /\ \A k \in 1..Len(Docs(i)) : Docs(i)[k] \in ToSet(Docs(i))
<1>1. Collections \in Seq(ToSet(Collections))
  BY SourceAssumption
<1>2. Len(Collections) \in Nat /\ DOMAIN Collections = 1..Len(Collections)
  BY <1>1
<1>3. ASSUME NEW i \in 1..Len(Collections)
      PROVE  /\ Len(Docs(i)) \in Nat /\ DOMAIN Docs(i) = 1..Len(Docs(i))
             /\ \A k \in 1..Len(Docs(i)) : Docs(i)[k] \in ToSet(Docs(i))
  <2>1. Docs(i) \in Seq(ToSet(Docs(i)))
    BY <1>2, SourceAssumption DEF Docs
  <2>2. Len(Docs(i)) \in Nat /\ DOMAIN Docs(i) = 1..Len(Docs(i))
    BY <2>1
  <2> QED
    BY <2>2 DEF ToSet
<1> QED
  BY <1>2, <1>3

LEMMA OpeningDef ==
    ASSUME NEW kind, NEW i \in 1..Len(Collections)
    PROVE  LET o == Opening(kind, Collections[i]) IN
           /\ o \in Seq(Things(kind)) /\ Len(o) = OpenLen(kind)
           /\ kind = "NATIVE"
              => o[1] = [is |-> "frames", name |-> Name(i), count |-> Len(Docs(i)),
                         indexes |-> Collections[i].indexes]
           /\ kind # "NATIVE" => o[1] = [is |-> "marker", name |-> Name(i)]
           /\ kind = "CSV" => o[2] = [is |-> "header"]
<1> DEFINE f == [is |-> "frames", name |-> Name(i), count |-> Len(Docs(i)),
                 indexes |-> Collections[i].indexes]
           m == [is |-> "marker", name |-> Name(i)]
           h == [is |-> "header"]
           o == Opening(kind, Collections[i])
<1>1. f \in Things(kind) /\ m \in Things(kind) /\ h \in Things(kind)
  BY SourceFacts DEF Things
<1>2. /\ kind = "NATIVE" => o = <<f>>
      /\ kind = "CSV" => o = <<m>> \o <<h>>
      /\ kind \notin {"NATIVE", "CSV"} => o = <<m>>
  BY DEF Opening, Frames, Header, Marker, Name, Docs
<1> HIDE DEF f, m, h, o
<1>3. /\ <<f>> \in Seq(Things(kind)) /\ <<m>> \in Seq(Things(kind))
      /\ <<h>> \in Seq(Things(kind)) /\ Len(<<f>>) = 1 /\ Len(<<m>>) = 1
      /\ <<f>>[1] = f /\ <<m>>[1] = m
  BY <1>1
<1>4. <<m>> \o <<h>> \in Seq(Things(kind)) /\ Len(<<m>> \o <<h>>) = 2
      /\ (<<m>> \o <<h>>)[1] = m /\ (<<m>> \o <<h>>)[2] = h
  BY <1>3
<1>5. CASE kind = "CSV"
  <2>1. o = <<m>> \o <<h>> /\ OpenLen(kind) = 2 /\ kind # "NATIVE"
    BY <1>2, <1>5 DEF OpenLen
  <2> QED
    BY <1>4, <2>1 DEF o, m, h, f
<1>6. CASE kind = "NATIVE"
  <2>1. o = <<f>> /\ OpenLen(kind) = 1 /\ kind # "CSV"
    BY <1>2, <1>6 DEF OpenLen
  <2> QED
    BY <1>3, <1>6, <2>1 DEF o, m, h, f
<1>7. CASE kind \notin {"NATIVE", "CSV"}
  <2>1. o = <<m>> /\ OpenLen(kind) = 1
    BY <1>2, <1>7 DEF OpenLen
  <2> QED
    BY <1>3, <1>7, <2>1 DEF o, m, h, f
<1> QED
  BY <1>5, <1>6, <1>7

LEMMA SectionDef ==
    ASSUME NEW kind, NEW i \in 1..Len(Collections)
    PROVE  LET s == Section(kind, Collections[i])
               o == Opening(kind, Collections[i]) IN
           /\ s \in Seq(Things(kind)) /\ Len(s) = OpenLen(kind) + Len(Docs(i))
           /\ \A k \in 1..OpenLen(kind) : s[k] = o[k]
           /\ \A k \in 1..Len(Docs(i)) : s[OpenLen(kind) + k] = Row(kind, Docs(i)[k])
<1> DEFINE o == Opening(kind, Collections[i])
           b == [k \in DOMAIN Docs(i) |-> Row(kind, Docs(i)[k])]
           T == Things(kind)
           L == OpenLen(kind)
           M == Len(Docs(i))
<1>1. L \in Nat /\ M \in Nat /\ DOMAIN Docs(i) = 1..M
  BY SourceFacts DEF OpenLen
<1>2. o \in Seq(T) /\ Len(o) = L
  BY OpeningDef
<1>3. \A k \in 1..M : Row(kind, Docs(i)[k]) \in T
  <2> SUFFICES ASSUME NEW k \in 1..M PROVE Row(kind, Docs(i)[k]) \in T
    OBVIOUS
  <2>1. i \in DOMAIN Collections /\ Docs(i)[k] \in ToSet(Docs(i))
    BY SourceFacts
  <2>2. Row(kind, Docs(i)[k]) \in {Row(kind, d) : d \in ToSet(Docs(i))}
    BY <2>1
  <2> QED
    BY <2>1, <2>2 DEF Things
<1>4. b \in Seq(T) /\ Len(b) = M /\ \A k \in 1..M : b[k] = Row(kind, Docs(i)[k])
  <2>1. b = [k \in 1..M |-> Row(kind, Docs(i)[k])]
    BY <1>1
  <2> HIDE DEF T, M
  <2> QED
    BY <1>1, <1>3, <2>1
<1>5. Section(kind, Collections[i]) = o \o b
  BY DEF Section, Docs
<1> HIDE DEF o, b, T, L, M
<1>6. /\ o \o b \in Seq(T) /\ Len(o \o b) = L + M
      /\ \A k \in 1..L : (o \o b)[k] = o[k]
      /\ \A k \in 1..M : (o \o b)[L + k] = b[k]
  BY <1>1, <1>2, <1>4
<1> QED
  BY <1>4, <1>5, <1>6 DEF o, T, L, M

\* The sections of a dump lie one behind the other.
LEMMA Layout ==
    ASSUME NEW kind
    PROVE  /\ \A n \in 0..Len(Collections) : Dumped(kind)[n] \in Seq(Things(kind))
           /\ \A n \in 0..Len(Collections) : \A m \in 0..n :
                /\ Len(Dumped(kind)[m]) <= Len(Dumped(kind)[n])
                /\ \A k \in 1..Len(Dumped(kind)[m]) :
                     Dumped(kind)[n][k] = Dumped(kind)[m][k]
<1> DEFINE N == Len(Collections)
           T == Things(kind)
           d == Dumped(kind)
           Prefix(m, n) == /\ Len(d[m]) <= Len(d[n])
                           /\ \A k \in 1..Len(d[m]) : d[n][k] = d[m][k]
           S == {n \in 0..N : d[n] \in Seq(T) /\ \A m \in 0..n : Prefix(m, n)}
<1>1. N \in Nat
  BY SourceFacts
<1>2. /\ d[0] = <<>>
      /\ \A n \in 1..N : d[n] = d[n - 1] \o Section(kind, Collections[n])
  BY DumpedDef
<1>3. \A n \in 1..N : Section(kind, Collections[n]) \in Seq(T)
  BY SectionDef
<1> HIDE DEF d, T
<1>4. 0 \in S
  <2>1. 0 \in 0..N /\ d[0] \in Seq(T) /\ Len(d[0]) \in Nat /\ \A m \in 0..0 : m = 0
    BY <1>1, <1>2
  <2> QED
    BY <2>1
<1>5. ASSUME NEW n \in 1..N, n - 1 \in S PROVE n \in S
  <2> DEFINE a == d[n - 1]
             b == Section(kind, Collections[n])
  <2>0. n \in 0..N /\ n - 1 \in 0..N /\ d[n - 1] \in Seq(T)
    BY <1>1, <1>5
  <2>1. n \in 0..N /\ n - 1 \in 0..N /\ a \in Seq(T) /\ b \in Seq(T) /\ d[n] = a \o b
    BY <1>2, <1>3, <2>0, Zenon
  <2>2. \A m \in 0..n : m = n \/ m \in 0..(n - 1)
    BY <1>1
  <2> HIDE DEF a, b
  <2>3. /\ a \o b \in Seq(T) /\ Len(a) <= Len(a \o b) /\ Len(a) \in Nat
        /\ \A k \in 1..Len(a) : (a \o b)[k] = a[k]
    BY <2>1
  <2>4. ASSUME NEW m \in 0..n PROVE Prefix(m, n)
    <3>1. CASE m = n
      <4>1. Len(d[n]) \in Nat
        BY <2>1, <2>3
      <4> QED
        BY <3>1, <4>1
    <3>2. CASE m \in 0..(n - 1)
      <4>2. Prefix(m, n - 1)
        BY <1>5, <3>2
      <4>3. Len(d[m]) <= Len(a) /\ \A k \in 1..Len(d[m]) : a[k] = d[m][k]
        BY <4>2 DEF a
      <4>4. \A k \in 1..Len(d[m]) : k \in 1..Len(a)
        BY <2>3, <4>3
      <4>5. \A k \in 1..Len(d[m]) : d[n][k] = d[m][k]
        BY <2>1, <2>3, <4>3, <4>4
      <4> QED
        BY <2>1, <2>3, <4>3, <4>5
    <3> QED
      BY <2>2, <3>1, <3>2
  <2> QED
    BY <2>1, <2>3, <2>4
<1>6. \A n \in 0..N : n \in S
  <2> HIDE DEF S, N
  <2> QED
    BY <1>1, <1>4, <1>5, CountingTo
<1> QED
  BY <1>6 DEF d, T

\* The state of a restore after n sections, and in them after each row.
After(tk, kind, db, n) ==
  Trace(tk, db, PerCollection(kind))[Len(Dumped(kind)[n])]

Opened(tk, kind, s, i) ==
  LET t == Onward(tk, s, Opening(kind, Collections[i])[1]) IN
  IF kind = "CSV" THEN Onward(tk, t, [is |-> "header"]) ELSE t

LEMMA SectionTrace ==
    ASSUME NEW tk, NEW kind, NEW db
    PROVE  /\ After(tk, kind, db, 0) = Empty(db)
           /\ After(tk, kind, db, Len(Collections)) = Replay(tk, db, PerCollection(kind))
           /\ \A n \in 1..Len(Collections) : \E u :
                /\ u[0] = Opened(tk, kind, After(tk, kind, db, n - 1), n)
                /\ \A k \in 1..Len(Docs(n)) :
                     u[k] = Onward(tk, u[k - 1], Row(kind, Docs(n)[k]))
                /\ u[Len(Docs(n))] = After(tk, kind, db, n)
<1> DEFINE N == Len(Collections)
           items == PerCollection(kind)
           d == Dumped(kind)
           r == Trace(tk, db, items)
<1>1. N \in Nat /\ items = d[N]
  BY SourceFacts DEF PerCollection
<1>2. /\ d[0] = <<>>
      /\ \A n \in 1..N : d[n] = d[n - 1] \o Section(kind, Collections[n])
  BY DumpedDef
<1>3. /\ \A n \in 0..N : d[n] \in Seq(Things(kind))
      /\ \A n \in 0..N : /\ Len(d[n]) <= Len(d[N])
                         /\ \A k \in 1..Len(d[n]) : d[N][k] = d[n][k]
  <2>1. N \in 0..N /\ \A n \in 0..N : n \in 0..N /\ N \in 0..Len(Collections)
    BY <1>1
  <2> QED
    BY <2>1, Layout, Zenon
<1>4. Len(items) \in Nat
  BY <1>1, <1>3
<1>5. r[0] = Empty(db) /\ \A p \in 1..Len(items) : r[p] = Onward(tk, r[p - 1], items[p])
  BY <1>4, TraceDef
<1>6. \A n \in 0..N : After(tk, kind, db, n) = r[Len(d[n])]
  BY DEF After
<1>7. Replay(tk, db, PerCollection(kind)) = r[Len(items)]
  BY DEF Replay
<1> HIDE DEF r, d, items, N
<1>8. ASSUME NEW n \in 1..N
      PROVE  \E u : /\ u[0] = Opened(tk, kind, After(tk, kind, db, n - 1), n)
                    /\ \A k \in 1..Len(Docs(n)) :
                         u[k] = Onward(tk, u[k - 1], Row(kind, Docs(n)[k]))
                    /\ u[Len(Docs(n))] = After(tk, kind, db, n)
  <2> DEFINE a == d[n - 1]
             b == Section(kind, Collections[n])
             L == OpenLen(kind)
             M == Len(Docs(n))
             o == Opening(kind, Collections[n])
             u == [k \in 0..M |-> r[Len(a) + L + k]]
  <2>1. n \in 0..N /\ n - 1 \in 0..N /\ n \in 1..Len(Collections)
    BY <1>1 DEF N
  <2>2. /\ L \in {1, 2} /\ M \in Nat /\ b \in Seq(Things(kind)) /\ Len(b) = L + M
        /\ \A k \in 1..L : b[k] = o[k]
        /\ \A k \in 1..M : b[L + k] = Row(kind, Docs(n)[k])
    BY <2>1, SectionDef, SourceFacts DEF OpenLen
  <2>3. a \in Seq(Things(kind)) /\ d[n] = a \o b
    BY <1>2, <1>3, <2>1
  <2>4. After(tk, kind, db, n - 1) = r[Len(a)] /\ After(tk, kind, db, n) = r[Len(d[n])]
    BY <1>6, <2>1
  <2>5. L = 2 <=> kind = "CSV"
    BY DEF OpenLen
  <2>6. kind = "CSV" => o[2] = [is |-> "header"]
    BY <2>1, OpeningDef
  <2> HIDE DEF a, b, L, M, o
  <2>7. /\ Len(a) \in Nat /\ Len(d[n]) = Len(a) + L + M
        /\ \A k \in 1..(L + M) : d[n][Len(a) + k] = b[k]
    <3>1. b \in Seq(Things(kind)) /\ Len(b) = L + M /\ L \in Nat /\ M \in Nat
      BY <2>2
    <3>2. Len(a) \in Nat /\ Len(a \o b) = Len(a) + Len(b)
          /\ \A k \in 1..Len(b) : (a \o b)[Len(a) + k] = b[k]
      BY <2>3, <3>1
    <3> QED
      BY <2>3, <3>1, <3>2
  <2>8. ASSUME NEW k \in 1..(L + M)
        PROVE  r[Len(a) + k] = Onward(tk, r[(Len(a) + k) - 1], b[k])
    <3>1. Len(a) + k \in 1..Len(d[n])
      BY <2>2, <2>7
    <3>2. Len(a) + k \in 1..Len(items)
      BY <1>1, <1>3, <1>4, <2>1, <2>7, <3>1
    <3>3. items[Len(a) + k] = b[k]
      BY <1>1, <1>3, <2>1, <2>7, <3>1
    <3> QED
      BY <1>5, <3>2, <3>3
  <2>9. r[Len(a) + L] = Opened(tk, kind, r[Len(a)], n)
    <3>1. 1 \in 1..(L + M) /\ (Len(a) + 1) - 1 = Len(a)
      BY <2>2, <2>7
    <3>2. r[Len(a) + 1] = Onward(tk, r[Len(a)], o[1])
      BY <2>2, <2>8, <3>1
    <3>3. CASE kind = "CSV"
      <4>1. L = 2 /\ 2 \in 1..(L + M) /\ (Len(a) + 2) - 1 = Len(a) + 1
        BY <2>2, <2>5, <2>7, <3>3
      <4>2. r[Len(a) + 2] = Onward(tk, r[Len(a) + 1], o[2])
        BY <2>2, <2>8, <4>1
      <4> QED
        BY <2>6, <3>2, <3>3, <4>1, <4>2 DEF Opened, o
    <3>4. CASE kind # "CSV"
      BY <2>2, <2>5, <3>2, <3>4 DEF Opened, o
    <3> QED
      BY <3>3, <3>4
  <2>10. u[0] = r[Len(a) + L] /\ u[M] = r[Len(a) + L + M]
    BY <2>2, <2>7
  <2>11. ASSUME NEW k \in 1..M
         PROVE  u[k] = Onward(tk, u[k - 1], Row(kind, Docs(n)[k]))
    <3> DEFINE A == Len(a)
    <3>0. A \in Nat /\ L \in Nat /\ M \in Nat
      BY <2>2, <2>7
    <3> HIDE DEF A
    <3>1. L + k \in 1..(L + M) /\ (A + (L + k)) - 1 = A + L + (k - 1)
          /\ A + (L + k) = A + L + k /\ k \in 0..M /\ k - 1 \in 0..M
      BY <3>0
    <3> USE DEF A
    <3>2. r[Len(a) + L + k] = Onward(tk, r[Len(a) + L + (k - 1)], b[L + k])
      BY <2>8, <3>1
    <3> QED
      BY <2>2, <3>1, <3>2
  <2> HIDE DEF u
  <2> QED
    BY <2>4, <2>7, <2>9, <2>10, <2>11 DEF M
<1>9. Len(d[0]) = 0 /\ 0 \in 0..N /\ N \in 0..N
  BY <1>1, <1>2
<1> QED
  BY <1>1, <1>5, <1>6, <1>7, <1>8, <1>9 DEF N

-----------------------------------------------------------------------------
\* What a restore makes of a section.  The state of an engine is a record.

IsState(s) ==
  /\ s = [db |-> s.db, coll |-> s.coll, batch |-> s.batch,
          indexes |-> s.indexes, ok |-> s.ok]
  /\ s.ok \in BOOLEAN

LEMMA FieldsSet ==
    ASSUME NEW s, IsState(s), NEW v
    PROVE  /\ [s EXCEPT !.db = v]
              = [db |-> v, coll |-> s.coll, batch |-> s.batch,
                 indexes |-> s.indexes, ok |-> s.ok]
           /\ [s EXCEPT !.coll = v]
              = [db |-> s.db, coll |-> v, batch |-> s.batch,
                 indexes |-> s.indexes, ok |-> s.ok]
           /\ [s EXCEPT !.batch = v]
              = [db |-> s.db, coll |-> s.coll, batch |-> v,
                 indexes |-> s.indexes, ok |-> s.ok]
           /\ [s EXCEPT !.indexes = v]
              = [db |-> s.db, coll |-> s.coll, batch |-> s.batch,
                 indexes |-> v, ok |-> s.ok]
           /\ [s EXCEPT !.ok = v]
              = [db |-> s.db, coll |-> s.coll, batch |-> s.batch,
                 indexes |-> s.indexes, ok |-> v]
<1>1. s = [db |-> s.db, coll |-> s.coll, batch |-> s.batch,
           indexes |-> s.indexes, ok |-> s.ok]
  BY DEF IsState
<1>2. [s EXCEPT !.db = v] = [db |-> v, coll |-> s.coll, batch |-> s.batch,
                             indexes |-> s.indexes, ok |-> s.ok]
  BY <1>1
<1>3. [s EXCEPT !.coll = v] = [db |-> s.db, coll |-> v, batch |-> s.batch,
                               indexes |-> s.indexes, ok |-> s.ok]
  BY <1>1
<1>4. [s EXCEPT !.batch = v] = [db |-> s.db, coll |-> s.coll, batch |-> v,
                                indexes |-> s.indexes, ok |-> s.ok]
  BY <1>1
<1>5. [s EXCEPT !.indexes = v] = [db |-> s.db, coll |-> s.coll, batch |-> s.batch,
                                  indexes |-> v, ok |-> s.ok]
  BY <1>1
<1>6. [s EXCEPT !.ok = v] = [db |-> s.db, coll |-> s.coll, batch |-> s.batch,
                             indexes |-> s.indexes, ok |-> v]
  BY <1>1
<1> QED
  BY <1>2, <1>3, <1>4, <1>5, <1>6

LEMMA DbSet ==
    ASSUME NEW s, IsState(s), NEW v
    PROVE  LET t == [s EXCEPT !.db = v] IN
           /\ IsState(t) /\ t.db = v /\ t.coll = s.coll
           /\ t.batch = s.batch /\ t.indexes = s.indexes /\ t.ok = s.ok
BY FieldsSet DEF IsState

LEMMA CollSet ==
    ASSUME NEW s, IsState(s), NEW v
    PROVE  LET t == [s EXCEPT !.coll = v] IN
           /\ IsState(t) /\ t.db = s.db /\ t.coll = v
           /\ t.batch = s.batch /\ t.indexes = s.indexes /\ t.ok = s.ok
BY FieldsSet DEF IsState

LEMMA BatchSet ==
    ASSUME NEW s, IsState(s), NEW v
    PROVE  LET t == [s EXCEPT !.batch = v] IN
           /\ IsState(t) /\ t.db = s.db /\ t.coll = s.coll
           /\ t.batch = v /\ t.indexes = s.indexes /\ t.ok = s.ok
BY FieldsSet DEF IsState

LEMMA IndexesSet ==
    ASSUME NEW s, IsState(s), NEW v
    PROVE  LET t == [s EXCEPT !.indexes = v] IN
           /\ IsState(t) /\ t.db = s.db /\ t.coll = s.coll
           /\ t.batch = s.batch /\ t.indexes = v /\ t.ok = s.ok
BY FieldsSet DEF IsState

LEMMA OkSet ==
    ASSUME NEW s, IsState(s), NEW v \in BOOLEAN
    PROVE  LET t == [s EXCEPT !.ok = v] IN
           /\ IsState(t) /\ t.db = s.db /\ t.coll = s.coll
           /\ t.batch = s.batch /\ t.indexes = s.indexes /\ t.ok = v
<1> DEFINE t == [s EXCEPT !.ok = v]
<1>1. t = [db |-> s.db, coll |-> s.coll, batch |-> s.batch,
           indexes |-> s.indexes, ok |-> v]
  BY FieldsSet
<1> HIDE DEF t
<1>2. t.db = s.db /\ t.coll = s.coll /\ t.batch = s.batch /\ t.indexes = s.indexes
      /\ t.ok = v
  BY <1>1
<1>3. IsState(t)
  BY <1>1, <1>2 DEF IsState
<1> QED
  BY <1>2, <1>3 DEF t

LEMMA StoppedState ==
    ASSUME NEW s, IsState(s)
    PROVE  IsState(Stopped(s)) /\ ~Stopped(s).ok /\ Stopped(s).db = s.db
BY FieldsSet, ZenonT(30) DEF IsState, Stopped

LEMMA EmptyState == ASSUME NEW db PROVE IsState(Empty(db))
BY DEF IsState, Empty

Brought(kind, i) ==
  {Doc(Name(i), Kept(kind, d)) : d \in ToSet(Docs(i))}
  \cup (IF kind = "NATIVE"
        THEN {Index(Name(i), Rebuilt(x)) : x \in Collections[i].indexes}
        ELSE IF kind \in {"JSON", "CSV"} THEN {} ELSE {Table(Name(i))})

\* The first p documents of section i are in db.
DocsIn(kind, db, i, p) ==
  \A q \in 1..p : Doc(Name(i), Kept(kind, Docs(i)[q])) \in db

Before(kind, db, n) == \A i \in 1..n : Brought(kind, i) \subseteq db

LEMMA RowDef ==
    ASSUME NEW kind, NEW d
    PROVE  Row(kind, d).is = "row" /\ Row(kind, d).doc = Kept(kind, d)
BY DEF Row, Kept

LEMMA AllDocsIn ==
    ASSUME NEW kind, NEW db, NEW i \in 1..Len(Collections),
           DocsIn(kind, db, i, Len(Docs(i)))
    PROVE  {Doc(Name(i), Kept(kind, d)) : d \in ToSet(Docs(i))} \subseteq db
<1> SUFFICES ASSUME NEW d \in ToSet(Docs(i)) PROVE Doc(Name(i), Kept(kind, d)) \in db
  OBVIOUS
<1>1. PICK q \in 1..Len(Docs(i)) : d = Docs(i)[q]
  BY SourceFacts DEF ToSet
<1> QED
  BY <1>1 DEF DocsIn

LEMMA FactsDiffer ==
    ASSUME NEW c, NEW d, NEW e, NEW x
    PROVE  Doc(c, d) # Table(e) /\ Doc(c, d) # Index(e, x) /\ Table(e) # Index(c, x)
BY DEF Doc, Table, Index

\* psql: a table that is there already is an error.
SqlAt(kind, fresh, s, n, k) ==
  /\ IsState(s)
  /\ s.ok => /\ Before(kind, s.db, n - 1) /\ DocsIn(kind, s.db, n, k)
             /\ s.coll = Name(n) /\ Table(Name(n)) \in s.db
  /\ fresh => s.ok /\ \A i \in 1..Len(Collections) : Table(Name(i)) \in s.db => i <= n

SqlReady(kind, fresh, s, n) ==
  /\ IsState(s)
  /\ s.ok => Before(kind, s.db, n)
  /\ fresh => s.ok /\ \A i \in 1..Len(Collections) : Table(Name(i)) \in s.db => i <= n

LEMMA SqlOpens ==
    ASSUME NEW kind \in {"POSTGRES", "MSSQL"}, NEW fresh \in BOOLEAN, NEW s,
           NEW n \in 1..Len(Collections), SqlReady(kind, fresh, s, n - 1)
    PROVE  SqlAt(kind, fresh, Opened("POSTGRES", kind, s, n), n, 0)
<1> DEFINE item == Opening(kind, Collections[n])[1]
           t == [s EXCEPT !.db = @ \cup {Table(Name(n))}, !.coll = Name(n)]
<1>1. item.is = "marker" /\ item.name = Name(n)
  <2>1. kind # "NATIVE"
    OBVIOUS
  <2>2. item = [is |-> "marker", name |-> Name(n)]
    BY <2>1, OpeningDef
  <2> QED
    BY <2>2
<1> HIDE DEF item
<1>2. Opened("POSTGRES", kind, s, n) = IF s.ok THEN Psql(s, item) ELSE s
  BY OnwardDef DEF Opened, Step, item
<1>3. Psql(s, item) = IF Table(Name(n)) \in s.db THEN Stopped(s) ELSE t
  BY <1>1 DEF Psql
<1>4. IsState(s) /\ IsState(Stopped(s)) /\ ~Stopped(s).ok /\ IsState(t)
      /\ t.db = s.db \cup {Table(Name(n))} /\ t.coll = Name(n) /\ t.ok = s.ok
  <2> DEFINE d == s.db \cup {Table(Name(n))}
             c == Name(n)
             p == [s EXCEPT !.db = d]
  <2>1. IsState(s) /\ t = [p EXCEPT !.coll = c]
    BY DEF SqlReady
  <2>3. IsState(p) /\ p.db = d /\ p.ok = s.ok
    BY <2>1, DbSet, ZenonT(30)
  <2> HIDE DEF t, d, c, p
  <2>2. IsState(t) /\ t.db = d /\ t.coll = c /\ t.ok = s.ok
    BY <2>1, <2>3, CollSet, SMTT(30)
  <2> QED
    BY <2>1, <2>2, StoppedState DEF d, c
<1> HIDE DEF t
<1>5. n \in Nat /\ \A i \in 1..Len(Collections) : i <= n - 1 => i <= n
  BY SourceFacts
<1>6. CASE ~s.ok
  BY <1>2, <1>4, <1>6 DEF SqlAt, SqlReady
<1>7. CASE s.ok /\ Table(Name(n)) \in s.db
  <2>1. ~fresh
    BY <1>5, <1>7 DEF SqlReady
  <2> QED
    BY <1>2, <1>3, <1>4, <1>7, <2>1 DEF SqlAt
<1>8. CASE s.ok /\ Table(Name(n)) \notin s.db
  <2>1. Opened("POSTGRES", kind, s, n) = t
    BY <1>2, <1>3, <1>8
  <2>2. \A i \in 1..Len(Collections) : Table(Name(i)) = Table(Name(n)) => i = n
    BY SourceAssumption, SourceFacts DEF Table, Name
  <2>3. fresh => \A i \in 1..Len(Collections) : Table(Name(i)) \in t.db => i <= n
    BY <1>4, <1>5, <2>2 DEF SqlReady
  <2>4. Before(kind, t.db, n - 1)
    BY <1>4, <1>8 DEF SqlReady, Before
  <2>5. DocsIn(kind, t.db, n, 0)
    BY DEF DocsIn
  <2> QED
    BY <1>4, <1>8, <2>1, <2>3, <2>4, <2>5 DEF SqlAt
<1> QED
  BY <1>4, <1>6, <1>7, <1>8

LEMMA SqlRow ==
    ASSUME NEW kind \in {"POSTGRES", "MSSQL"}, NEW fresh \in BOOLEAN, NEW s,
           NEW n \in 1..Len(Collections), NEW k \in 1..Len(Docs(n)),
           SqlAt(kind, fresh, s, n, k - 1)
    PROVE  SqlAt(kind, fresh, Onward("POSTGRES", s, Row(kind, Docs(n)[k])), n, k)
<1> DEFINE item == Row(kind, Docs(n)[k])
           t == [s EXCEPT !.db = @ \cup {Doc(s.coll, item.doc)}]
<1>1. item.is = "row" /\ item.doc = Kept(kind, Docs(n)[k])
  BY RowDef
<1> HIDE DEF item
<1>2. Onward("POSTGRES", s, item) = IF s.ok THEN t ELSE s
  BY <1>1, OnwardDef DEF Step, Psql
<1>3. /\ IsState(s) /\ IsState(t) /\ t.db = s.db \cup {Doc(s.coll, item.doc)}
      /\ t.coll = s.coll /\ t.ok = s.ok
  <2> DEFINE d == s.db \cup {Doc(s.coll, item.doc)}
  <2>1. IsState(s) /\ t = [s EXCEPT !.db = d]
    BY DEF SqlAt
  <2> HIDE DEF t, d
  <2>2. IsState(t) /\ t.db = d /\ t.coll = s.coll /\ t.ok = s.ok
    BY <2>1, DbSet, ZenonT(30)
  <2> QED
    BY <2>1, <2>2 DEF d
<1> HIDE DEF t
<1>4. CASE ~s.ok
  BY <1>2, <1>3, <1>4 DEF SqlAt, item
<1>5. CASE s.ok
  <2>1. s.coll = Name(n) /\ Before(kind, t.db, n - 1) /\ Table(Name(n)) \in t.db
    BY <1>3, <1>5 DEF SqlAt, Before
  <2>2. \A q \in 1..k : q = k \/ q \in 1..(k - 1)
    BY SourceFacts
  <2>3. DocsIn(kind, t.db, n, k)
    BY <1>1, <1>3, <1>5, <2>1, <2>2 DEF SqlAt, DocsIn
  <2>4. fresh => \A i \in 1..Len(Collections) : Table(Name(i)) \in t.db => i <= n
    BY <1>3, FactsDiffer DEF SqlAt
  <2> QED
    BY <1>2, <1>3, <1>5, <2>1, <2>3, <2>4 DEF SqlAt, item
<1> QED
  BY <1>3, <1>4, <1>5 DEF IsState

LEMMA SqlCloses ==
    ASSUME NEW kind \in {"POSTGRES", "MSSQL"}, NEW fresh \in BOOLEAN, NEW s,
           NEW n \in 1..Len(Collections), SqlAt(kind, fresh, s, n, Len(Docs(n)))
    PROVE  SqlReady(kind, fresh, s, n)
<1>1. ASSUME s.ok PROVE Brought(kind, n) \subseteq s.db
  BY <1>1, AllDocsIn DEF SqlAt, Brought
<1>2. \A i \in 1..n : i = n \/ i \in 1..(n - 1)
  BY SourceFacts
<1> QED
  BY <1>1, <1>2 DEF SqlAt, SqlReady, Before

\* mongorestore: of a collection that is there already, everything is dropped.
ToolsAt(s, n, k) ==
  /\ IsState(s) /\ s.ok
  /\ Before("TOOLS", s.db, n - 1) /\ DocsIn("TOOLS", s.db, n, k)
  /\ s.coll = Name(n) /\ Table(Name(n)) \in s.db

ToolsReady(s, n) == IsState(s) /\ s.ok /\ Before("TOOLS", s.db, n)

LEMMA DistinctNames ==
    ASSUME NEW i \in 1..Len(Collections), NEW j \in 1..Len(Collections),
           Name(i) = Name(j)
    PROVE  i = j
BY SourceAssumption, SourceFacts DEF Name

LEMMA ToolsOpens ==
    ASSUME NEW s, NEW n \in 1..Len(Collections), ToolsReady(s, n - 1)
    PROVE  ToolsAt(Opened("TOOLS", "TOOLS", s, n), n, 0)
<1> DEFINE item == Opening("TOOLS", Collections[n])[1]
           d == (s.db \ Named(s.db, Name(n))) \cup {Table(Name(n))}
           c == Name(n)
           p == [s EXCEPT !.db = d]
           t == [p EXCEPT !.coll = c]
<1>1. item = [is |-> "marker", name |-> Name(n)]
  BY OpeningDef
<1>2. item.is = "marker" /\ item.name = Name(n)
  BY <1>1
<1> HIDE DEF item
<1>3. Opened("TOOLS", "TOOLS", s, n) = Mongorestore(s, item)
  BY OnwardDef DEF Opened, Step, item, ToolsReady
<1>4. Mongorestore(s, item) = t
  BY <1>2 DEF Mongorestore
<1>5. IsState(p) /\ p.db = d /\ p.ok
  BY DbSet, ZenonT(30) DEF ToolsReady
<1> HIDE DEF p
<1>6. IsState(t) /\ t.db = d /\ t.coll = c /\ t.ok
  BY <1>5, CollSet, ZenonT(30)
<1> HIDE DEF t
<1>7. ASSUME NEW i \in 1..(n - 1), NEW f \in Brought("TOOLS", i)
      PROVE  f \in d
  <2>1. f \in s.db
    BY <1>7 DEF ToolsReady, Before
  <2>2. f.in = Name(i)
    BY DEF Brought, Doc, Table
  <2>3. i \in 1..Len(Collections) /\ i # n
    BY SourceFacts
  <2> QED
    BY <2>1, <2>2, <2>3, DistinctNames DEF Named
<1>8. Before("TOOLS", d, n - 1)
  BY <1>7 DEF Before
<1>9. DocsIn("TOOLS", d, n, 0)
  BY DEF DocsIn
<1>10. Table(Name(n)) \in d
  OBVIOUS
<1> HIDE DEF d
<1> QED
  BY <1>3, <1>4, <1>6, <1>8, <1>9, <1>10 DEF ToolsAt

LEMMA ToolsRow ==
    ASSUME NEW s, NEW n \in 1..Len(Collections), NEW k \in 1..Len(Docs(n)),
           ToolsAt(s, n, k - 1)
    PROVE  ToolsAt(Onward("TOOLS", s, Row("TOOLS", Docs(n)[k])), n, k)
<1> DEFINE item == Row("TOOLS", Docs(n)[k])
           d == s.db \cup {Doc(s.coll, item.doc)}
           t == [s EXCEPT !.db = d]
<1>1. item.is = "row" /\ item.doc = Kept("TOOLS", Docs(n)[k])
  BY RowDef
<1> HIDE DEF item
<1>2. Onward("TOOLS", s, item) = t
  BY <1>1, OnwardDef DEF Step, Mongorestore, ToolsAt
<1>3. IsState(t) /\ t.db = d /\ t.coll = s.coll /\ t.ok
  BY DbSet DEF ToolsAt
<1> HIDE DEF t
<1>4. \A q \in 1..k : q = k \/ q \in 1..(k - 1)
  BY SourceFacts
<1>5. DocsIn("TOOLS", d, n, k)
  BY <1>1, <1>4 DEF ToolsAt, DocsIn
<1>6. Before("TOOLS", d, n - 1)
  BY DEF ToolsAt, Before
<1> QED
  BY <1>2, <1>3, <1>5, <1>6 DEF ToolsAt, item

LEMMA ToolsCloses ==
    ASSUME NEW s, NEW n \in 1..Len(Collections), ToolsAt(s, n, Len(Docs(n)))
    PROVE  ToolsReady(s, n)
<1>1. Brought("TOOLS", n) \subseteq s.db
  BY AllDocsIn DEF ToolsAt, Brought
<1>2. \A i \in 1..n : i = n \/ i \in 1..(n - 1)
  BY SourceFacts
<1> QED
  BY <1>1, <1>2 DEF ToolsAt, ToolsReady, Before

\* The agent's own reader of JSON, CSV and native backups: up to BatchSize
\* documents wait in a batch, which is sent when it is full, and when the
\* collection ends.
MongoKinds == {"JSON", "CSV", "NATIVE"}

\* Every document in db is one of the restore's own, sent before document p of
\* section n, and every index is one of an earlier section.
Sent(kind, db, n, p) ==
  \A f \in db :
    /\ f.is = "doc" =>
         \E i \in 1..n : \E q \in 1..Len(Docs(i)) :
           f.in = Name(i) /\ f.doc = Kept(kind, Docs(i)[q]) /\ (i = n => q <= p)
    /\ f.is = "index" => \E i \in 1..(n - 1) : f.in = Name(i)

Waiting(kind, n, p, m) == [j \in 1..m |-> Kept(kind, Docs(n)[p + j])]

Specs(kind, n) == IF kind = "NATIVE" THEN Collections[n].indexes ELSE {}

MongoAt(kind, fresh, s, n, k) ==
  /\ IsState(s) /\ (fresh => s.ok)
  /\ s.ok =>
       /\ s.coll = Name(n) /\ s.indexes = Specs(kind, n)
       /\ Before(kind, s.db, n - 1)
       /\ \E m \in 0..k : /\ s.batch = Waiting(kind, n, k - m, m)
                          /\ DocsIn(kind, s.db, n, k - m)
                          /\ fresh => Sent(kind, s.db, n, k - m)

MongoDone(kind, fresh, s, n) ==
  /\ IsState(s) /\ (fresh => s.ok)
  /\ s.ok => /\ s.batch = <<>> /\ Before(kind, s.db, n)
             /\ fresh => Sent(kind, s.db, n + 1, 0)

MongoReady(kind, fresh, s, n) ==
  /\ IsState(s) /\ (fresh => s.ok) /\ (~s.ok => Finish(s) = s)
  /\ MongoDone(kind, fresh, Finish(s), n)

LEMMA DocShape ==
    ASSUME NEW n \in 1..Len(Collections), NEW q \in 1..Len(Docs(n))
    PROVE  Shape(Docs(n)[q])
BY SourceAssumption, SourceFacts DEF Docs

\* What a format keeps of a document.
LEMMA KeptFields ==
    ASSUME NEW kind \in MongoKinds, NEW d, Shape(d)
    PROVE  /\ Kept(kind, d).id = IF kind = "CSV" THEN [as |-> "text", text |-> d.id.text]
                                 ELSE d.id
           /\ Kept(kind, d).large = d.large
           /\ kind = "NATIVE" => Kept(kind, d) = d
           /\ kind # "CSV" /\ d.type # "long" => Kept(kind, d) = d
<1> DEFINE k == [as |-> "text", text |-> d.id.text]
           j == IF d.type = "long" THEN "int" ELSE d.type
<1>1. d = [id |-> d.id, type |-> d.type, keys |-> d.keys, large |-> d.large]
  <2> DEFINE v == [as |-> d.id.as, text |-> d.id.text]
  <2>1. d = [id |-> v, type |-> d.type, keys |-> d.keys, large |-> d.large]
    BY DEF Shape
  <2> HIDE DEF v
  <2>2. d.id = v
    BY <2>1
  <2> QED
    BY <2>1, <2>2
<1> HIDE DEF k, j
<1>3. [d EXCEPT !.type = j]
      = [id |-> d.id, type |-> j, keys |-> d.keys, large |-> d.large]
  BY <1>1
<1>4. [d EXCEPT !.type = "text", !.id = k]
      = [id |-> k, type |-> "text", keys |-> d.keys, large |-> d.large]
  <2> DEFINE c == [d EXCEPT !.type = "text"]
  <2>1. c = [id |-> d.id, type |-> "text", keys |-> d.keys, large |-> d.large]
    BY <1>1
  <2> HIDE DEF c
  <2>2. [c EXCEPT !.id = k] = [id |-> k, type |-> "text", keys |-> d.keys, large |-> d.large]
    BY <2>1
  <2> QED
    BY <2>2 DEF c
<1>5. kind = "JSON" => Kept(kind, d) = [d EXCEPT !.type = j]
  BY DEF Kept, ToJSON, j
<1>6. kind = "CSV" => Kept(kind, d) = [d EXCEPT !.type = "text", !.id = k]
  BY DEF Kept, ToCSV, k
<1>7. kind = "NATIVE" => Kept(kind, d) = d
  BY DEF Kept
<1>8. CASE kind = "NATIVE"
  BY <1>7, <1>8
<1>9. CASE kind = "CSV"
  BY <1>4, <1>6, <1>9 DEF k
<1>10. CASE kind = "JSON"
  <2>1. d.type # "long" => j = d.type
    BY DEF j
  <2> QED
    BY <1>1, <1>3, <1>5, <1>10, <2>1
<1> QED
  BY <1>8, <1>9, <1>10 DEF MongoKinds

LEMMA DistinctIds ==
    ASSUME NEW kind \in MongoKinds, Restorable(kind), NEW n \in 1..Len(Collections),
           NEW p \in 1..Len(Docs(n)), NEW q \in 1..Len(Docs(n)),
           Kept(kind, Docs(n)[p]).id = Kept(kind, Docs(n)[q]).id
    PROVE  p = q
<1> DEFINE d == Docs(n)[p]
           e == Docs(n)[q]
<1>1. d.id = e.id => p = q
  BY SourceAssumption, SourceFacts DEF Docs
<1>2. Shape(d) /\ Shape(e) /\ d \in ToSet(Docs(n)) /\ e \in ToSet(Docs(n))
  BY DocShape, SourceFacts
<1>3. Collections[n] \in ToSet(Collections)
  BY SourceFacts DEF ToSet
<1> HIDE DEF d, e
<1>4. CASE kind # "CSV"
  BY <1>1, <1>2, <1>4, KeptFields DEF d, e
<1>5. CASE kind = "CSV"
  <2>1. d.id.text = e.id.text
    <3>1. [as |-> "text", text |-> d.id.text] = [as |-> "text", text |-> e.id.text]
      BY <1>2, <1>5, KeptFields DEF d, e
    <3>2. ASSUME NEW x, NEW y, [as |-> "text", text |-> x] = [as |-> "text", text |-> y]
          PROVE  x = y
      BY <3>2
    <3> QED
      BY <3>1, <3>2
  <2>2. \A x, y \in ToSet(Docs(n)) : x.id.text = y.id.text => x = y
    BY <1>3, <1>5 DEF Restorable, Docs
  <2> QED
    BY <1>1, <1>2, <2>1, <2>2
<1> QED
  BY <1>4, <1>5

\* What an index keeps of itself.
LEMMA RebuiltFields ==
    ASSUME NEW i, IndexShape(i)
    PROVE  /\ Rebuilt(i).key = i.key /\ Rebuilt(i).unique = i.unique
           /\ Rebuilt(i).stands = i.stands
           /\ i.skips = {} /\ i.extras = {} => Rebuilt(i) = i
BY DEF IndexShape, Rebuilt

LEMMA UpTo == ASSUME NEW m \in Nat PROVE Cardinality(1..m) = m
<1>1. IsFiniteSet(1..m) /\ Cardinality(1..m) = IF 1 > m THEN 0 ELSE m - 1 + 1
  BY FS_Interval
<1> QED
  BY <1>1

\* InsertMany: if it succeeds the whole batch is in; and it does if no other
\* document was there.
LEMMA BatchSent ==
    ASSUME NEW kind \in MongoKinds, NEW fresh \in BOOLEAN, fresh => Restorable(kind),
           NEW s, IsState(s),
           NEW n \in 1..Len(Collections), NEW p \in Nat, NEW m \in Nat,
           p + m <= Len(Docs(n)), s.coll = Name(n), s.batch = Waiting(kind, n, p, m),
           Before(kind, s.db, n - 1), DocsIn(kind, s.db, n, p),
           fresh => Sent(kind, s.db, n, p)
    PROVE  LET t == InsertMany(s) IN
           /\ IsState(t) /\ t.coll = s.coll /\ t.indexes = s.indexes
           /\ t.batch = <<>> /\ (fresh => t.ok)
           /\ t.ok => /\ Before(kind, t.db, n - 1) /\ DocsIn(kind, t.db, n, p + m)
                      /\ fresh => Sent(kind, t.db, n, p + m)
<1> DEFINE b == s.batch
           U == {k \in DOMAIN b : \A j \in 1..k : ~Clashes(s, j)}
           C == Cardinality(U)
           d == s.db \cup {Table(s.coll)} \cup {Doc(s.coll, b[k]) : k \in 1..C}
           x == [s EXCEPT !.db = d]
           e == <<>>
           y == [x EXCEPT !.batch = e]
           o == C = Len(b)
           t == [y EXCEPT !.ok = o]
<1>1. InsertMany(s) = t
  BY DEF InsertMany
<1>2. Len(b) = m /\ DOMAIN b = 1..m /\ \A j \in 1..m : b[j] = Kept(kind, Docs(n)[p + j])
  BY DEF Waiting
<1> HIDE DEF d
<1>3. /\ IsState(x) /\ x.db = d /\ x.coll = s.coll /\ x.indexes = s.indexes
  BY DbSet, ZenonT(30)
<1> HIDE DEF x, e
<1>4. /\ IsState(y) /\ y.db = d /\ y.coll = s.coll /\ y.indexes = s.indexes
      /\ y.batch = e
  BY <1>3, BatchSet, SMTT(30)
<1> HIDE DEF y
<1>5. /\ IsState(t) /\ t.db = d /\ t.coll = s.coll /\ t.indexes = s.indexes
      /\ t.batch = <<>> /\ t.ok = (C = m)
  <2>1. o \in BOOLEAN /\ o = (C = m)
    BY <1>2
  <2> HIDE DEF o
  <2>2. /\ IsState(t) /\ t.db = y.db /\ t.coll = y.coll /\ t.indexes = y.indexes
        /\ t.batch = y.batch /\ t.ok = o
    BY <1>4, <2>1, OkSet, ZenonT(30)
  <2> QED
    BY <1>4, <2>1, <2>2 DEF e
<1> HIDE DEF t, b
<1>6. ASSUME NEW j \in 1..m
      PROVE  p + j \in 1..Len(Docs(n)) /\ p + j > p
  BY SourceFacts
<1>7. ASSUME fresh PROVE C = m
  <2>1. IndexesOf(s.db, s.coll) = {}
    <3> SUFFICES ASSUME NEW f \in s.db, f.is = "index", f.in = s.coll PROVE FALSE
      BY DEF IndexesOf
    <3>1. PICK i \in 1..(n - 1) : f.in = Name(i)
      BY <1>7 DEF Sent
    <3>2. i \in 1..Len(Collections) /\ i # n
      BY SourceFacts
    <3> QED
      BY <3>1, <3>2, DistinctNames
  <2>2. ASSUME NEW d1, NEW d2, Same(s, d1, d2) PROVE d1.id = d2.id
    BY <2>1, <2>2 DEF Same
  <2>3. ASSUME NEW j \in 1..m PROVE ~Clashes(s, j)
    <3>1. ASSUME NEW g \in DocsOf(s.db, s.coll), Same(s, g, b[j]) PROVE FALSE
      <4>1. PICK f \in s.db : f.is = "doc" /\ f.in = s.coll /\ g = f.doc
        BY <3>1 DEF DocsOf
      <4>2. PICK i \in 1..n : \E q \in 1..Len(Docs(i)) :
              f.in = Name(i) /\ f.doc = Kept(kind, Docs(i)[q]) /\ (i = n => q <= p)
        BY <1>7, <4>1 DEF Sent
      <4>3. i = n
        <5>1. i \in 1..Len(Collections) /\ Name(i) = Name(n)
          BY <4>1, <4>2, SourceFacts
        <5> QED
          BY <5>1, DistinctNames
      <4>4. PICK q \in 1..Len(Docs(n)) : g = Kept(kind, Docs(n)[q]) /\ q <= p
        BY <4>1, <4>2, <4>3
      <4>5. g.id = b[j].id
        BY <2>2, <3>1
      <4>6. q = p + j
        BY <1>2, <1>6, <1>7, <4>4, <4>5, DistinctIds
      <4> QED
        BY <1>6, <4>4, <4>6
    <3>2. ASSUME NEW h \in 1..(j - 1), Same(s, b[h], b[j]) PROVE FALSE
      <4>1. h \in 1..m /\ h # j
        BY <3>2
      <4>2. b[h].id = b[j].id
        BY <2>2, <3>2
      <4>3. p + h = p + j
        BY <1>2, <1>6, <1>7, <4>1, <4>2, DistinctIds
      <4> QED
        BY <4>1, <4>3
    <3> QED
      BY <3>1, <3>2 DEF Clashes, b
  <2>4. U = 1..m
    BY <1>2, <2>3
  <2> QED
    BY <2>4, UpTo
<1>8. ASSUME C = m PROVE DocsIn(kind, d, n, p + m)
  <2> SUFFICES ASSUME NEW q \in 1..(p + m)
               PROVE  Doc(Name(n), Kept(kind, Docs(n)[q])) \in d
    BY DEF DocsIn
  <2>1. CASE q <= p
    BY <2>1 DEF DocsIn, d
  <2>2. CASE q > p
    <3>1. q - p \in 1..m /\ p + (q - p) = q
      BY <2>2
    <3>2. b[q - p] = Kept(kind, Docs(n)[q])
      BY <1>2, <3>1
    <3> QED
      BY <1>8, <3>1, <3>2 DEF d
  <2>3. q <= p \/ q > p
    OBVIOUS
  <2> HIDE DEF d
  <2> QED
    BY <2>1, <2>2, <2>3
<1>9. ASSUME C = m, fresh PROVE Sent(kind, d, n, p + m)
  <2> USE DEF d
  <2>1. ASSUME NEW f \in d, f.is = "index" PROVE \E i \in 1..(n - 1) : f.in = Name(i)
    <3>1. CASE f \in s.db
      BY <1>9, <2>1, <3>1 DEF Sent
    <3>2. CASE f = Table(s.coll)
      BY <2>1, <3>2 DEF Table
    <3>3. CASE f \in {Doc(s.coll, b[k]) : k \in 1..C}
      <4>1. PICK k \in 1..C : f = Doc(s.coll, b[k])
        BY <3>3
      <4> QED
        BY <2>1, <4>1 DEF Doc
    <3> QED
      BY <2>1, <3>1, <3>2, <3>3
  <2>2. ASSUME NEW f \in d, f.is = "doc"
        PROVE  \E i \in 1..n : \E q \in 1..Len(Docs(i)) :
                 /\ f.in = Name(i) /\ f.doc = Kept(kind, Docs(i)[q])
                 /\ i = n => q <= p + m
    <3>1. CASE f \in s.db
      <4>1. PICK i \in 1..n : \E q \in 1..Len(Docs(i)) :
              f.in = Name(i) /\ f.doc = Kept(kind, Docs(i)[q]) /\ (i = n => q <= p)
        BY <1>9, <2>2, <3>1 DEF Sent
      <4>2. PICK q \in 1..Len(Docs(i)) :
              f.in = Name(i) /\ f.doc = Kept(kind, Docs(i)[q]) /\ (i = n => q <= p)
        BY <4>1
      <4>3. q \in Int /\ (i = n => q <= p + m)
        BY <4>2
      <4> QED
        BY <4>2, <4>3
    <3>2. CASE f = Table(s.coll)
      BY <2>2, <3>2 DEF Table
    <3>3. CASE f \in {Doc(s.coll, b[k]) : k \in 1..C}
      <4>1. PICK j \in 1..m : f = Doc(s.coll, b[j])
        BY <1>9, <3>3
      <4>2. f.in = Name(n) /\ f.doc = Kept(kind, Docs(n)[p + j]) /\ p + j <= p + m
        BY <1>2, <4>1 DEF Doc
      <4>3. n \in 1..n
        BY SourceFacts
      <4> QED
        BY <1>6, <4>2, <4>3
    <3> QED
      BY <2>2, <3>1, <3>2, <3>3
  <2> HIDE DEF d
  <2> QED
    BY <2>1, <2>2 DEF Sent
<1>10. Before(kind, d, n - 1)
  BY DEF Before, d
<1> HIDE DEF C
<1> QED
  BY <1>1, <1>5, <1>7, <1>8, <1>9, <1>10

\* Of a source that can be restored the server takes all indexes, if there was
\* nothing in the destination before.
LEMMA FreshIndexes ==
    ASSUME NEW kind \in MongoKinds, Restorable(kind), NEW u,
           NEW n \in 1..Len(Collections), u.coll = Name(n),
           u.indexes = Specs(kind, n), Sent(kind, u.db, n, Len(Docs(n)))
    PROVE  ~Refused(u)
<1> DEFINE new == {Rebuilt(i) : i \in u.indexes}
           old == IndexesOf(u.db, u.coll)
<1>1. CASE kind # "NATIVE"
  BY <1>1 DEF Specs, Refused
<1>2. CASE kind = "NATIVE"
  <2>1. /\ u.indexes = Collections[n].indexes
        /\ Collections[n] \in ToSet(Collections)
    BY <1>2, SourceFacts DEF Specs, ToSet
  <2>2. IndexesRebuild(Collections[n])
    BY <1>2, <2>1 DEF Restorable
  <2>3. ASSUME NEW i \in u.indexes PROVE IndexShape(i)
    BY <2>1, SourceAssumption, SourceFacts
  <2>4. old = {}
    <3> SUFFICES ASSUME NEW f \in u.db, f.is = "index", f.in = u.coll PROVE FALSE
      BY DEF IndexesOf
    <3>1. PICK i \in 1..(n - 1) : f.in = Name(i)
      BY DEF Sent
    <3>2. i \in 1..Len(Collections) /\ i # n
      BY SourceFacts
    <3> QED
      BY <3>1, <3>2, DistinctNames
  <2>5. ASSUME NEW i \in u.indexes
        PROVE  /\ Rebuilt(i).stands
               /\ \A y \in old \cup new : ~Conflict(Rebuilt(i), y)
    BY <2>1, <2>2, <2>3, <2>4, RebuiltFields DEF IndexesRebuild
  <2>6. ASSUME NEW d \in DocsOf(u.db, u.coll) PROVE d \in ToSet(Docs(n))
    <3>1. PICK f \in u.db : f.is = "doc" /\ f.in = u.coll /\ d = f.doc
      BY DEF DocsOf
    <3>2. PICK i \in 1..n : \E q \in 1..Len(Docs(i)) :
            f.in = Name(i) /\ f.doc = Kept(kind, Docs(i)[q])
      BY <3>1 DEF Sent
    <3>3. i = n
      <4>1. i \in 1..Len(Collections) /\ Name(i) = Name(n)
        BY <3>1, <3>2, SourceFacts
      <4> QED
        BY <4>1, DistinctNames
    <3>4. PICK q \in 1..Len(Docs(n)) : d = Kept(kind, Docs(n)[q])
      BY <3>1, <3>2, <3>3
    <3>5. d = Docs(n)[q]
      BY <1>2, <3>4, DocShape, KeptFields
    <3> QED
      BY <3>5, SourceFacts
  <2>7. ASSUME NEW i \in u.indexes, NEW d \in DocsOf(u.db, u.coll),
               NEW e \in DocsOf(u.db, u.coll), Collide(Rebuilt(i), d, e)
        PROVE  d = e
    <3>1. i.unique /\ KeyOf(i, d) = KeyOf(i, e)
      BY <2>3, <2>7, RebuiltFields DEF Collide, KeyOf
    <3>2. d \in ToSet(Collections[n].docs) /\ e \in ToSet(Collections[n].docs)
      BY <2>6 DEF Docs
    <3> QED
      BY <2>1, <2>2, <3>1, <3>2 DEF IndexesRebuild
  <2> QED
    BY <2>5, <2>7 DEF Refused
<1> QED
  BY <1>1, <1>2

\* The end of a collection: the rest of the batch is sent, then the indexes.
LEMMA MongoFinishes ==
    ASSUME NEW kind \in MongoKinds, NEW fresh \in BOOLEAN, fresh => Restorable(kind),
           NEW s,
           NEW n \in 1..Len(Collections), MongoAt(kind, fresh, s, n, Len(Docs(n)))
    PROVE  MongoReady(kind, fresh, s, n)
<1> DEFINE M == Len(Docs(n))
           u == Flush(s)
           d == u.db \cup {Index(u.coll, Rebuilt(i)) : i \in u.indexes}
           e == {}
           p == [u EXCEPT !.db = d]
           t == [p EXCEPT !.indexes = e]
<1>1. IsState(s) /\ (fresh => s.ok) /\ M \in Nat
  BY SourceFacts DEF MongoAt
<1>2. ASSUME ~s.ok PROVE Finish(s) = s
  BY <1>2, FinishDef DEF BuildIndexes, Flush
<1>3. CASE ~s.ok
  BY <1>1, <1>2, <1>3 DEF MongoReady, MongoDone
<1>4. CASE s.ok
  <2>1. /\ s.coll = Name(n) /\ s.indexes = Specs(kind, n)
        /\ Before(kind, s.db, n - 1)
    BY <1>4 DEF MongoAt
  <2>2. PICK m \in 0..M : /\ s.batch = Waiting(kind, n, M - m, m)
                          /\ DocsIn(kind, s.db, n, M - m)
                          /\ fresh => Sent(kind, s.db, n, M - m)
    BY <1>4 DEF MongoAt
  <2>3. m \in Nat /\ M - m \in Nat /\ (M - m) + m = M /\ (M - m) + m <= M
    BY <1>1
  <2>4. /\ IsState(u) /\ u.coll = Name(n) /\ u.indexes = Specs(kind, n)
        /\ u.batch = <<>> /\ (fresh => u.ok)
        /\ u.ok => /\ Before(kind, u.db, n - 1) /\ DocsIn(kind, u.db, n, M)
                   /\ fresh => Sent(kind, u.db, n, M)
    <3>1. CASE s.batch = <<>>
      <4>1. u = s
        BY <3>1 DEF Flush
      <4>2. Len(s.batch) = m /\ Len(<<>>) = 0
        BY <2>2, <2>3 DEF Waiting
      <4>3. m = 0 /\ M - m = M
        BY <3>1, <4>2, <1>1
      <4> HIDE DEF u, M
      <4> QED
        BY <1>1, <1>4, <2>1, <2>2, <3>1, <4>1, <4>3
    <3>2. CASE s.batch # <<>>
      <4>1. u = InsertMany(s)
        BY <1>4, <3>2 DEF Flush
      <4>2. M - m + m = M /\ n - 1 + 1 = n
        BY <1>1, <2>3
      <4> DEFINE v == InsertMany(s)
                 r == M - m
      <4>3. r \in Nat /\ r + m = M /\ r + m <= Len(Docs(n)) /\ s.batch = Waiting(kind, n, r, m)
            /\ DocsIn(kind, s.db, n, r) /\ (fresh => Sent(kind, s.db, n, r))
        BY <2>2, <2>3
      <4> HIDE DEF r
      <4>4. /\ IsState(v) /\ v.coll = s.coll /\ v.indexes = s.indexes
            /\ v.batch = <<>> /\ (fresh => v.ok)
            /\ v.ok => /\ Before(kind, v.db, n - 1) /\ DocsIn(kind, v.db, n, r + m)
                       /\ fresh => Sent(kind, v.db, n, r + m)
        BY <1>1, <2>1, <2>3, <4>3, BatchSent
      <4> HIDE DEF v, M, u
      <4> QED
        BY <2>1, <4>1, <4>3, <4>4 DEF v
    <3> QED
      BY <3>1, <3>2
  <2>5. Finish(s) = IF ~u.ok THEN u ELSE IF Refused(u) THEN Stopped(u) ELSE t
    BY FinishDef DEF BuildIndexes
  <2> HIDE DEF u
  <2>6. CASE ~u.ok
    BY <1>1, <1>4, <2>4, <2>5, <2>6 DEF MongoReady, MongoDone
  <2>8. CASE u.ok /\ Refused(u)
    <3>1. ~fresh
      BY <2>4, <2>8, FreshIndexes
    <3>2. IsState(Stopped(u)) /\ ~Stopped(u).ok
      BY <2>4, StoppedState
    <3> QED
      BY <1>1, <1>4, <2>5, <2>8, <3>1, <3>2 DEF MongoReady, MongoDone
  <2>7. CASE u.ok /\ ~Refused(u)
    <3> HIDE DEF d, e
    <3>1. IsState(p) /\ p.db = d /\ p.batch = <<>> /\ p.ok
      BY <2>4, <2>7, DbSet
    <3> HIDE DEF p
    <3>2. IsState(t) /\ t.db = d /\ t.batch = <<>> /\ t.ok
      BY <3>1, IndexesSet, ZenonT(30)
    <3> HIDE DEF t
    <3>3. Before(kind, d, n - 1) /\ DocsIn(kind, d, n, M)
      BY <2>4, <2>7 DEF Before, DocsIn, d
    <3>4. Brought(kind, n) \subseteq d
      <4>1. {Doc(Name(n), Kept(kind, x)) : x \in ToSet(Docs(n))} \subseteq d
        BY <3>3, AllDocsIn
      <4>2. CASE kind = "NATIVE"
        <5>1. {Index(Name(n), Rebuilt(x)) : x \in Collections[n].indexes} \subseteq d
          BY <2>4, <4>2 DEF Specs, d
        <5> QED
          BY <4>1, <4>2, <5>1 DEF Brought
      <4>3. CASE kind # "NATIVE"
        BY <4>1, <4>3 DEF Brought, MongoKinds
      <4> QED
        BY <4>2, <4>3
    <3>5. Before(kind, d, n)
      <4>1. \A i \in 1..n : i = n \/ i \in 1..(n - 1)
        BY SourceFacts
      <4> QED
        BY <3>3, <3>4, <4>1 DEF Before
    <3>6. ASSUME fresh PROVE Sent(kind, d, n + 1, 0)
      <4>1. ASSUME NEW f \in d, f.is = "doc"
            PROVE  \E i \in 1..(n + 1) : \E q \in 1..Len(Docs(i)) :
                     /\ f.in = Name(i) /\ f.doc = Kept(kind, Docs(i)[q])
                     /\ i = n + 1 => q <= 0
        <5>1. f \in u.db
          BY <4>1 DEF d, Index
        <5>2. PICK i \in 1..n : \E q \in 1..Len(Docs(i)) :
                f.in = Name(i) /\ f.doc = Kept(kind, Docs(i)[q])
          BY <2>4, <2>7, <3>6, <4>1, <5>1 DEF Sent
        <5>3. i \in 1..(n + 1) /\ i # n + 1
          BY SourceFacts
        <5> QED
          BY <5>2, <5>3
      <4>2. ASSUME NEW f \in d, f.is = "index"
            PROVE  \E i \in 1..(n + 1 - 1) : f.in = Name(i)
        <5>1. n + 1 - 1 = n /\ n \in 1..n /\ \A i \in 1..(n - 1) : i \in 1..n
          BY SourceFacts
        <5>2. CASE f \in u.db
          BY <2>4, <2>7, <3>6, <4>2, <5>1, <5>2 DEF Sent
        <5>3. CASE f \notin u.db
          <6>1. f.in = Name(n)
            BY <2>4, <5>3 DEF d, Index
          <6> QED
            BY <5>1, <6>1
        <5> QED
          BY <5>2, <5>3
      <4> QED
        BY <4>1, <4>2 DEF Sent
    <3> QED
      BY <1>1, <1>4, <2>5, <2>7, <3>2, <3>5, <3>6 DEF MongoReady, MongoDone
  <2> QED
    BY <2>6, <2>7, <2>8
<1> QED
  BY <1>3, <1>4

LEMMA MongoOpens ==
    ASSUME NEW kind \in MongoKinds, NEW fresh \in BOOLEAN, NEW s,
           NEW n \in 1..Len(Collections), MongoReady(kind, fresh, s, n - 1)
    PROVE  MongoAt(kind, fresh, Opened(kind, kind, s, n), n, 0)
<1> DEFINE item == Opening(kind, Collections[n])[1]
           u == Finish(s)
           c == item.name
           x == IF item.is = "frames" THEN item.indexes ELSE {}
           p == [u EXCEPT !.coll = c]
           t == [p EXCEPT !.indexes = x]
           h == [is |-> "header"]
<1>1. /\ item.is \in {"marker", "frames"} /\ item.is # "header" /\ item.is # "row"
      /\ c = Name(n) /\ x = Specs(kind, n)
  <2>1. CASE kind = "NATIVE"
    <3>1. item = [is |-> "frames", name |-> Name(n), count |-> Len(Docs(n)),
                  indexes |-> Collections[n].indexes]
      BY <2>1, OpeningDef
    <3> QED
      BY <2>1, <3>1 DEF Specs
  <2>2. CASE kind # "NATIVE"
    <3>1. item = [is |-> "marker", name |-> Name(n)]
      BY <2>2, OpeningDef
    <3> QED
      BY <2>2, <3>1 DEF Specs
  <2> QED
    BY <2>1, <2>2
<1>2. Begin(s, item) = t
  BY DEF Begin
<1>3. Mongo(kind, s, item) = t
  <2> HIDE DEF item, t
  <2> QED
    BY <1>1, <1>2 DEF Mongo
<1>4. kind \notin {"FILES", "POSTGRES", "TOOLS"}
  BY DEF MongoKinds
<1>5. Onward(kind, s, item) = IF s.ok THEN t ELSE s
  BY <1>3, <1>4, OnwardDef DEF Step
<1>6. ASSUME NEW y PROVE Onward(kind, y, h) = y
  <2>1. Mongo(kind, y, h) = y
    BY DEF Mongo
  <2> QED
    BY <1>4, <2>1, OnwardDef DEF Step
<1>7. Opened(kind, kind, s, n) = IF s.ok THEN t ELSE s
  BY <1>5, <1>6 DEF Opened
<1> HIDE DEF c, x, u
<1>8. /\ IsState(s) /\ (fresh => s.ok) /\ IsState(u) /\ (fresh => u.ok)
      /\ u.ok => /\ u.batch = <<>> /\ Before(kind, u.db, n - 1)
                 /\ fresh => Sent(kind, u.db, (n - 1) + 1, 0)
  BY DEF MongoReady, MongoDone, u
<1>9. IsState(p) /\ p.db = u.db /\ p.coll = c /\ p.batch = u.batch /\ p.ok = u.ok
  BY <1>8, CollSet, ZenonT(30)
<1> HIDE DEF p
<1>10. /\ IsState(t) /\ t.db = u.db /\ t.coll = c /\ t.batch = u.batch
       /\ t.indexes = x /\ t.ok = u.ok
  <2>1. IsState(p)
    BY <1>9
  <2>2. /\ IsState(t) /\ t.db = p.db /\ t.coll = p.coll /\ t.batch = p.batch
        /\ t.indexes = x /\ t.ok = p.ok
    BY <2>1, IndexesSet, ZenonT(30)
  <2> HIDE DEF t
  <2> QED
    BY <1>9, <2>2
<1> HIDE DEF t
<1>11. (n - 1) + 1 = n /\ 0 \in 0..0 /\ 0 - 0 = 0
  BY SourceFacts
<1>12. Waiting(kind, n, 0, 0) = <<>>
  BY DEF Waiting
<1>13. DocsIn(kind, u.db, n, 0)
  BY DEF DocsIn
<1>14. CASE s.ok /\ u.ok
  <2>1. \E m \in 0..0 : /\ t.batch = Waiting(kind, n, 0 - m, m)
                        /\ DocsIn(kind, t.db, n, 0 - m)
                        /\ fresh => Sent(kind, t.db, n, 0 - m)
    BY <1>8, <1>10, <1>11, <1>12, <1>13, <1>14
  <2> QED
    BY <1>1, <1>7, <1>8, <1>10, <1>14, <2>1 DEF MongoAt
<1>15. CASE ~(s.ok /\ u.ok)
  BY <1>7, <1>8, <1>10, <1>15 DEF MongoAt
<1> QED
  BY <1>14, <1>15

LEMMA MongoRow ==
    ASSUME NEW kind \in MongoKinds, NEW fresh \in BOOLEAN, fresh => Restorable(kind),
           NEW s,
           NEW n \in 1..Len(Collections), NEW k \in 1..Len(Docs(n)),
           MongoAt(kind, fresh, s, n, k - 1)
    PROVE  MongoAt(kind, fresh, Onward(kind, s, Row(kind, Docs(n)[k])), n, k)
<1> DEFINE item == Row(kind, Docs(n)[k])
           e == Kept(kind, Docs(n)[k])
           b == Append(s.batch, e)
           t == [s EXCEPT !.batch = b]
           u == Onward(kind, s, item)
<1> SUFFICES MongoAt(kind, fresh, u, n, k)
  OBVIOUS
<1>1. item.is = "row" /\ item.doc = e
  BY RowDef
<1> HIDE DEF item, e
<1>2. AddRow(s, item) = IF Len(t.batch) >= BatchSize THEN Flush(t) ELSE t
  BY <1>1 DEF AddRow
<1>3. kind \notin {"FILES", "POSTGRES", "TOOLS"}
  BY DEF MongoKinds
<1>4. u = IF s.ok THEN IF TooLong(kind, item) THEN Stopped(s) ELSE AddRow(s, item)
         ELSE s
  <2>1. Mongo(kind, s, item) = IF TooLong(kind, item) THEN Stopped(s)
                               ELSE AddRow(s, item)
    BY <1>1 DEF Mongo
  <2> QED
    BY <1>3, <2>1, OnwardDef DEF Step
<1> HIDE DEF u
<1>5. IsState(s) /\ (fresh => s.ok)
  BY DEF MongoAt
<1>6. /\ IsState(t) /\ t.db = s.db /\ t.coll = s.coll /\ t.batch = b
      /\ t.indexes = s.indexes /\ t.ok = s.ok
  BY <1>5, BatchSet
<1> HIDE DEF t
<1>7. CASE ~s.ok
  BY <1>4, <1>5, <1>7 DEF MongoAt
<1>9. CASE s.ok /\ TooLong(kind, item)
  <2>1. ~fresh
    <3>1. kind = "JSON" /\ e.large
      BY <1>1, <1>9 DEF TooLong
    <3>2. Collections[n] \in ToSet(Collections) /\ Docs(n)[k] \in ToSet(Docs(n))
      BY SourceFacts DEF ToSet
    <3>3. Docs(n)[k].large
      BY <3>1, DocShape, KeptFields DEF e
    <3> QED
      BY <3>1, <3>2, <3>3 DEF Restorable, Docs
  <2>2. IsState(Stopped(s)) /\ ~Stopped(s).ok
    BY <1>5, StoppedState
  <2> QED
    BY <1>4, <1>9, <2>1, <2>2 DEF MongoAt
<1>8. CASE s.ok /\ ~TooLong(kind, item)
  <2>1. /\ s.coll = Name(n) /\ s.indexes = Specs(kind, n)
        /\ Before(kind, s.db, n - 1)
    BY <1>8 DEF MongoAt
  <2>2. PICK m \in 0..(k - 1) : /\ s.batch = Waiting(kind, n, (k - 1) - m, m)
                                /\ DocsIn(kind, s.db, n, (k - 1) - m)
                                /\ fresh => Sent(kind, s.db, n, (k - 1) - m)
    BY <1>8 DEF MongoAt
  <2> DEFINE r == (k - 1) - m
             w == m + 1
  <2>3. /\ m \in Nat /\ r \in Nat /\ w \in Nat /\ w \in 0..k /\ r + w = k /\ k - w = r
        /\ r + w <= Len(Docs(n)) /\ w # 0 /\ 0 \in 0..k /\ k - 0 = k
    BY SourceFacts
  <2>4. b = Waiting(kind, n, r, w) /\ b # <<>>
    <3>1. s.batch = [j \in 1..m |-> Kept(kind, Docs(n)[r + j])]
      BY <2>2 DEF Waiting
    <3>2. e = Kept(kind, Docs(n)[r + w])
      BY <2>3 DEF e
    <3> HIDE DEF e, r
    <3>3. Append([j \in 1..m |-> Kept(kind, Docs(n)[r + j])], e)
          = [j \in 1..w |-> Kept(kind, Docs(n)[r + j])]
      BY <2>3, <3>2
    <3>4. Len([j \in 1..w |-> Kept(kind, Docs(n)[r + j])]) = w /\ Len(<<>>) = 0
      BY <2>3
    <3> QED
      BY <2>3, <3>1, <3>3, <3>4 DEF Waiting
  <2>5. DocsIn(kind, s.db, n, r) /\ (fresh => Sent(kind, s.db, n, r))
    BY <2>2
  <2> HIDE DEF r, w, b
  <2>6. CASE Len(t.batch) >= BatchSize
    <3> DEFINE v == InsertMany(t)
    <3>1. u = v
      BY <1>2, <1>4, <1>6, <1>8, <2>4, <2>6 DEF Flush
    <3>2. /\ IsState(v) /\ v.coll = t.coll /\ v.indexes = t.indexes
          /\ v.batch = <<>> /\ (fresh => v.ok)
          /\ v.ok => /\ Before(kind, v.db, n - 1) /\ DocsIn(kind, v.db, n, r + w)
                     /\ fresh => Sent(kind, v.db, n, r + w)
      BY <1>6, <2>1, <2>3, <2>4, <2>5, BatchSent
    <3> HIDE DEF v
    <3>3. Waiting(kind, n, k, 0) = <<>>
      BY DEF Waiting
    <3>4. ASSUME v.ok
          PROVE  \E q \in 0..k : /\ v.batch = Waiting(kind, n, k - q, q)
                                 /\ DocsIn(kind, v.db, n, k - q)
                                 /\ fresh => Sent(kind, v.db, n, k - q)
      BY <2>3, <3>2, <3>3, <3>4
    <3> QED
      BY <1>6, <2>1, <3>1, <3>2, <3>4 DEF MongoAt
  <2>7. CASE ~(Len(t.batch) >= BatchSize)
    <3>1. u = t
      BY <1>2, <1>4, <1>8, <2>7
    <3>2. \E q \in 0..k : /\ t.batch = Waiting(kind, n, k - q, q)
                          /\ DocsIn(kind, t.db, n, k - q)
                          /\ fresh => Sent(kind, t.db, n, k - q)
      BY <1>6, <2>3, <2>4, <2>5
    <3> QED
      BY <1>5, <1>6, <1>8, <2>1, <3>1, <3>2 DEF MongoAt
  <2> QED
    BY <2>6, <2>7
<1> QED
  BY <1>7, <1>8, <1>9

\* An engine between two sections, and in section n after its first k rows;
\* fresh says that there was nothing in the destination.
Ready(kind, fresh, s, n) ==
  \/ kind \in {"POSTGRES", "MSSQL"} /\ SqlReady(kind, fresh, s, n)
  \/ kind = "TOOLS" /\ ToolsReady(s, n)
  \/ kind \in MongoKinds /\ MongoReady(kind, fresh, s, n)

Within(kind, fresh, s, n, k) ==
  \/ kind \in {"POSTGRES", "MSSQL"} /\ SqlAt(kind, fresh, s, n, k)
  \/ kind = "TOOLS" /\ ToolsAt(s, n, k)
  \/ kind \in MongoKinds /\ MongoAt(kind, fresh, s, n, k)

Engine(kind) == IF kind = "MSSQL" THEN "POSTGRES" ELSE kind

LEMMA EngineKinds ==
    ASSUME NEW kind \in Databases
    PROVE  \/ kind \in {"POSTGRES", "MSSQL"} /\ Engine(kind) = "POSTGRES"
           \/ kind = "TOOLS" /\ Engine(kind) = "TOOLS"
           \/ kind \in MongoKinds /\ Engine(kind) = kind
BY DEF Databases, Kinds, MongoKinds, Engine

LEMMA EngineStarts ==
    ASSUME NEW kind \in Databases, NEW fresh \in BOOLEAN, NEW db, fresh => db = {}
    PROVE  Ready(kind, fresh, Empty(db), 0)
<1> DEFINE s == Empty(db)
           e == {}
           p == [s EXCEPT !.db = db]
           t == [p EXCEPT !.indexes = e]
<1>1. IsState(s) /\ s.db = db /\ s.ok /\ s.batch = <<>> /\ s.indexes = {}
  BY DEF IsState, Empty
<1>2. Before(kind, db, 0) /\ Before("TOOLS", db, 0)
  BY DEF Before
<1>3. CASE kind \in {"POSTGRES", "MSSQL"}
  BY <1>1, <1>2, <1>3 DEF Ready, SqlReady
<1>4. CASE kind = "TOOLS"
  BY <1>1, <1>2, <1>4 DEF Ready, ToolsReady
<1>5. CASE kind \in MongoKinds
  <2>1. Flush(s) = s
    BY <1>1 DEF Flush
  <2>2. db \cup {Index(s.coll, Rebuilt(i)) : i \in s.indexes} = db
    BY <1>1
  <2>3. Finish(s) = t
    <3>1. ~Refused(s)
      BY <1>1 DEF Refused
    <3> QED
      BY <1>1, <2>1, <2>2, <3>1, FinishDef, ZenonT(30) DEF BuildIndexes
  <2> HIDE DEF s, e
  <2>4. IsState(p) /\ p.db = db /\ p.ok /\ p.batch = <<>>
    BY <1>1, DbSet
  <2> HIDE DEF p
  <2>5. IsState(t) /\ t.db = db /\ t.ok /\ t.batch = <<>>
    BY <2>4, IndexesSet, ZenonT(30)
  <2> HIDE DEF t
  <2>6. fresh => Sent(kind, db, 0 + 1, 0)
    BY DEF Sent
  <2> QED
    BY <1>1, <1>2, <1>5, <2>3, <2>5, <2>6 DEF Ready, MongoReady, MongoDone, s
<1> QED
  BY <1>3, <1>4, <1>5, EngineKinds

LEMMA EngineOpens ==
    ASSUME NEW kind \in Databases, NEW fresh \in BOOLEAN, NEW s,
           NEW n \in 1..Len(Collections), Ready(kind, fresh, s, n - 1)
    PROVE  Within(kind, fresh, Opened(Engine(kind), kind, s, n), n, 0)
<1>1. CASE kind \in {"POSTGRES", "MSSQL"}
  <2>1. SqlReady(kind, fresh, s, n - 1) /\ Engine(kind) = "POSTGRES"
    BY <1>1 DEF Ready, MongoKinds, Engine
  <2> QED
    BY <1>1, <2>1, SqlOpens DEF Within
<1>2. CASE kind = "TOOLS"
  <2>1. ToolsReady(s, n - 1) /\ Engine(kind) = "TOOLS"
    BY <1>2 DEF Ready, MongoKinds, Engine
  <2> QED
    BY <1>2, <2>1, ToolsOpens DEF Within
<1>3. CASE kind \in MongoKinds
  <2>1. MongoReady(kind, fresh, s, n - 1) /\ Engine(kind) = kind
    BY <1>3 DEF Ready, MongoKinds, Engine
  <2> QED
    BY <1>3, <2>1, MongoOpens DEF Within
<1> QED
  BY <1>1, <1>2, <1>3, EngineKinds

LEMMA EngineRow ==
    ASSUME NEW kind \in Databases, NEW fresh \in BOOLEAN, fresh => Restorable(kind),
           NEW s,
           NEW n \in 1..Len(Collections), NEW k \in 1..Len(Docs(n)),
           Within(kind, fresh, s, n, k - 1)
    PROVE  Within(kind, fresh, Onward(Engine(kind), s, Row(kind, Docs(n)[k])), n, k)
<1>1. CASE kind \in {"POSTGRES", "MSSQL"}
  <2>1. SqlAt(kind, fresh, s, n, k - 1) /\ Engine(kind) = "POSTGRES"
    BY <1>1 DEF Within, MongoKinds, Engine
  <2> QED
    BY <1>1, <2>1, SqlRow DEF Within
<1>2. CASE kind = "TOOLS"
  <2>1. ToolsAt(s, n, k - 1) /\ Engine(kind) = "TOOLS"
    BY <1>2 DEF Within, MongoKinds, Engine
  <2> QED
    BY <1>2, <2>1, ToolsRow DEF Within
<1>3. CASE kind \in MongoKinds
  <2>1. MongoAt(kind, fresh, s, n, k - 1) /\ Engine(kind) = kind
    BY <1>3 DEF Within, MongoKinds, Engine
  <2> QED
    BY <1>3, <2>1, MongoRow DEF Within
<1> QED
  BY <1>1, <1>2, <1>3, EngineKinds

LEMMA EngineCloses ==
    ASSUME NEW kind \in Databases, NEW fresh \in BOOLEAN, fresh => Restorable(kind),
           NEW s,
           NEW n \in 1..Len(Collections), Within(kind, fresh, s, n, Len(Docs(n)))
    PROVE  Ready(kind, fresh, s, n)
<1>1. CASE kind \in {"POSTGRES", "MSSQL"}
  <2>1. SqlAt(kind, fresh, s, n, Len(Docs(n)))
    BY <1>1 DEF Within, MongoKinds
  <2> QED
    BY <1>1, <2>1, SqlCloses DEF Ready
<1>2. CASE kind = "TOOLS"
  <2>1. ToolsAt(s, n, Len(Docs(n)))
    BY <1>2 DEF Within, MongoKinds
  <2> QED
    BY <1>2, <2>1, ToolsCloses DEF Ready
<1>3. CASE kind \in MongoKinds
  <2>1. MongoAt(kind, fresh, s, n, Len(Docs(n)))
    BY <1>3 DEF Within, MongoKinds
  <2> QED
    BY <1>3, <2>1, MongoFinishes DEF Ready
<1> QED
  BY <1>1, <1>2, <1>3, EngineKinds

\* The whole dump, by induction on the sections and, in each, on the rows.
LEMMA Replayed ==
    ASSUME NEW kind \in Databases, NEW fresh \in BOOLEAN, NEW db,
           fresh => db = {} /\ Restorable(kind)
    PROVE  Ready(kind, fresh, Replay(Engine(kind), db, PerCollection(kind)),
                 Len(Collections))
<1> DEFINE N == Len(Collections)
           r(n) == After(Engine(kind), kind, db, n)
           S == {n \in 0..N : Ready(kind, fresh, r(n), n)}
<1>1. N \in Nat
  BY SourceFacts
<1>2. /\ r(0) = Empty(db) /\ r(N) = Replay(Engine(kind), db, PerCollection(kind))
      /\ \A n \in 1..N : \E u :
           /\ u[0] = Opened(Engine(kind), kind, r(n - 1), n)
           /\ \A k \in 1..Len(Docs(n)) :
                u[k] = Onward(Engine(kind), u[k - 1], Row(kind, Docs(n)[k]))
           /\ u[Len(Docs(n))] = r(n)
  BY SectionTrace, ZenonT(30)
<1> HIDE DEF r
<1>3. 0 \in S
  BY <1>1, <1>2, EngineStarts
<1>4. ASSUME NEW n \in 1..N, n - 1 \in S PROVE n \in S
  <2>1. Ready(kind, fresh, r(n - 1), n - 1) /\ n \in 0..N
    BY <1>1, <1>4
  <2>2. PICK u : /\ u[0] = Opened(Engine(kind), kind, r(n - 1), n)
                 /\ \A k \in 1..Len(Docs(n)) :
                      u[k] = Onward(Engine(kind), u[k - 1], Row(kind, Docs(n)[k]))
                 /\ u[Len(Docs(n))] = r(n)
    BY <1>2
  <2> DEFINE M == Len(Docs(n))
             V == {k \in 0..M : Within(kind, fresh, u[k], n, k)}
  <2>3. M \in Nat
    BY SourceFacts
  <2>4. 0 \in V
    <3>1. Within(kind, fresh, u[0], n, 0)
      BY <2>1, <2>2, EngineOpens
    <3> QED
      BY <2>3, <3>1
  <2>5. ASSUME NEW k \in 1..M, k - 1 \in V PROVE k \in V
    <3>1. Within(kind, fresh, u[k - 1], n, k - 1)
      BY <2>5
    <3>2. Within(kind, fresh, u[k], n, k)
      BY <2>2, <3>1, EngineRow
    <3> QED
      BY <2>3, <3>2
  <2>6. M \in V
    <3> HIDE DEF V, M
    <3>1. \A k \in 0..M : k \in V
      BY <2>3, <2>4, <2>5, CountingTo
    <3> QED
      BY <2>3, <3>1
  <2>7. Ready(kind, fresh, r(n), n)
    BY <2>2, <2>6, EngineCloses
  <2> QED
    BY <2>1, <2>7
<1>5. N \in S
  <2> HIDE DEF S, N
  <2>1. \A n \in 0..N : n \in S
    BY <1>1, <1>3, <1>4, CountingTo
  <2> QED
    BY <1>1, <2>1
<1> QED
  BY <1>2, <1>5

\* An archive: every file that has been unpacked is there, and only a link
\* stops it.
LEMMA Unpacked ==
    ASSUME NEW j, NEW db
    PROVE  LET s == Replay("FILES", db, Archive(j)) IN
           /\ s.ok => \A p \in 1..Len(Archive(j)) :
                        Archive(j)[p].kind = "file" => File(Archive(j)[p].name) \in s.db
           /\ (\A e \in ToSet(Archive(j)) : e.kind # "link") => s.ok
<1> DEFINE a == Archive(j)
           N == Len(a)
           r == Trace("FILES", db, a)
           Good(s, n) == /\ IsState(s)
                         /\ s.ok => \A p \in 1..n :
                                      a[p].kind = "file" => File(a[p].name) \in s.db
                         /\ (\A e \in ToSet(a) : e.kind # "link") => s.ok
           S == {n \in 0..N : Good(r[n], n)}
<1>1. a \in Seq(Visited(j)) /\ N \in Nat /\ DOMAIN a = 1..N
  BY Archived
<1>2. r[0] = Empty(db) /\ \A n \in 1..N : r[n] = Onward("FILES", r[n - 1], a[n])
  BY <1>1, TraceDef
<1> HIDE DEF r, a
<1>3. 0 \in S
  <2>1. IsState(Empty(db)) /\ Empty(db).ok
    BY EmptyState DEF Empty
  <2> QED
    BY <1>1, <1>2, <2>1
<1>4. ASSUME NEW n \in 1..N, n - 1 \in S PROVE n \in S
  <2> DEFINE s == r[n - 1]
             e == a[n]
             c == s.db \cup {Dir(e.name)}
             d == s.db \cup {Dir(x) : x \in e.under} \cup {File(e.name)}
             t == [s EXCEPT !.db = c]
             u == [s EXCEPT !.db = d]
  <2>1. Good(s, n - 1) /\ n \in 0..N /\ r[n] = IF s.ok THEN Untar(s, e) ELSE s
    BY <1>1, <1>2, <1>4, OnwardDef DEF Step
  <2>2. e \in Visited(j) /\ e \in ToSet(a) /\ n \in DOMAIN a
    BY <1>1 DEF ToSet
  <2>3. e.kind \in {"file", "dir", "link"}
    <3>1. e \in ToSet(Entries) /\ e.kind # "special"
      BY <2>2 DEF Visited, Walks
    <3> QED
      BY <3>1, SourceAssumption DEF ToSet
  <2>4. \A p \in 1..n : p = n \/ p \in 1..(n - 1)
    BY <1>1
  <2> HIDE DEF s, e
  <2>5. IsState(s)
    BY <2>1
  <2> HIDE DEF c, d
  <2>6. IsState(t) /\ t.db = c /\ t.ok = s.ok /\ IsState(u) /\ u.db = d /\ u.ok = s.ok
    BY <2>5, DbSet, ZenonT(30)
  <2>7. IsState(Stopped(s)) /\ ~Stopped(s).ok
    BY <2>5, StoppedState
  <2>8. /\ e.kind = "link" => Untar(s, e) = Stopped(s)
        /\ e.kind = "dir" => Untar(s, e) = t
        /\ e.kind = "file" => Untar(s, e) = u
    BY DEF Untar, c, d
  <2> HIDE DEF t, u
  <2>9. CASE ~s.ok
    BY <2>1, <2>9 DEF s
  <2>10. CASE s.ok /\ e.kind = "link"
    <3>1. r[n] = Stopped(s)
      BY <2>1, <2>8, <2>10
    <3> QED
      BY <2>1, <2>2, <2>7, <2>10, <3>1
  <2>11. CASE s.ok /\ e.kind = "dir"
    <3>1. r[n] = t
      BY <2>1, <2>8, <2>11
    <3>2. \A p \in 1..n : a[p].kind = "file" => File(a[p].name) \in c
      BY <2>1, <2>4, <2>11 DEF c, e
    <3> QED
      BY <2>1, <2>6, <2>11, <3>1, <3>2
  <2>12. CASE s.ok /\ e.kind = "file"
    <3>1. r[n] = u
      BY <2>1, <2>8, <2>12
    <3>2. \A p \in 1..n : a[p].kind = "file" => File(a[p].name) \in d
      BY <2>1, <2>4, <2>12 DEF d, e
    <3> QED
      BY <2>1, <2>6, <2>12, <3>1, <3>2
  <2> QED
    BY <2>3, <2>9, <2>10, <2>11, <2>12
<1>5. N \in S
  <2> HIDE DEF S, N
  <2>1. \A n \in 0..N : n \in S
    BY <1>1, <1>3, <1>4, CountingTo
  <2> QED
    BY <1>1, <2>1
<1>6. Replay("FILES", db, Archive(j)) = r[N]
  BY DEF Replay, r, a
<1> QED
  BY <1>5, <1>6 DEF a

LEMMA ItemsDef ==
    ASSUME NEW j, j.kind \in Databases
    PROVE  Items(j) = PerCollection(j.kind)
BY DEF Items, Databases, Kinds, BackupPostgres, BackupMssql, BackupMongoTools, BackupMongo

LEMMA PayloadIsFinite ==
    ASSUME NEW j, j.kind \in Kinds
    PROVE  Items(j) \in Seq(ToSet(Items(j))) /\ Len(Items(j)) \in Nat
<1>1. ASSUME NEW s, NEW T, s \in Seq(T) PROVE s \in Seq(ToSet(s)) /\ Len(s) \in Nat
  BY <1>1 DEF ToSet
<1>2. CASE j.kind = "FILES"
  BY <1>1, <1>2, Archived DEF Items
<1>3. CASE j.kind \in Databases
  <2>1. Items(j) = Dumped(j.kind)[Len(Collections)]
    BY <1>3, ItemsDef DEF PerCollection
  <2>2. Dumped(j.kind)[Len(Collections)] \in Seq(Things(j.kind))
    BY Layout, SourceFacts
  <2> QED
    BY <1>1, <2>1, <2>2
<1> QED
  BY <1>2, <1>3 DEF Databases

LEMMA RestoredIs ==
    ASSUME NEW kind \in Databases, NEW fresh \in BOOLEAN, NEW db,
           fresh => db = {} /\ Restorable(kind)
    PROVE  LET s == Restored(kind, db, PerCollection(kind)) IN
           /\ s.ok => Before(kind, s.db, Len(Collections))
           /\ fresh => s.ok
<1> DEFINE N == Len(Collections)
           items == PerCollection(kind)
           s == Restored(kind, db, items)
<1>1. CASE kind = "MSSQL"
  <2>1. s = Replay("POSTGRES", {}, items) /\ Engine(kind) = "POSTGRES"
    BY <1>1 DEF Restored, Replaced, Engine
  <2>2. Ready(kind, TRUE, s, N)
    BY <1>1, <2>1, Replayed DEF Restorable
  <2> HIDE DEF s, N
  <2>3. SqlReady(kind, TRUE, s, N)
    BY <1>1, <2>2 DEF Ready, MongoKinds
  <2> QED
    BY <2>3 DEF SqlReady, s, N
<1>2. CASE kind = "POSTGRES"
  <2>1. s = Replay("POSTGRES", db, items) /\ Engine(kind) = "POSTGRES"
    BY <1>2 DEF Restored, Engine
  <2>2. Ready(kind, fresh, s, N)
    BY <2>1, Replayed
  <2> HIDE DEF s, N
  <2>3. SqlReady(kind, fresh, s, N)
    BY <1>2, <2>2 DEF Ready, MongoKinds
  <2> QED
    BY <2>3 DEF SqlReady, s, N
<1>3. CASE kind = "TOOLS"
  <2>1. s = Replay("TOOLS", db, items) /\ Engine(kind) = "TOOLS"
    BY <1>3 DEF Restored, Engine
  <2>2. Ready(kind, fresh, s, N)
    BY <2>1, Replayed
  <2> HIDE DEF s, N
  <2>3. ToolsReady(s, N)
    BY <1>3, <2>2 DEF Ready, MongoKinds
  <2> QED
    BY <1>3, <2>3 DEF ToolsReady, s, N
<1>4. CASE kind \in MongoKinds
  <2> DEFINE r == Replay(kind, db, items)
  <2>1. s = Finish(r) /\ Engine(kind) = kind
    BY <1>4 DEF Restored, Engine, MongoKinds
  <2>2. Ready(kind, fresh, r, N)
    BY <2>1, Replayed
  <2> HIDE DEF s, r, N
  <2>3. MongoDone(kind, fresh, s, N)
    BY <1>4, <2>1, <2>2 DEF Ready, MongoReady, MongoKinds
  <2> QED
    BY <2>3 DEF MongoDone, s, N
<1> QED
  BY <1>1, <1>2, <1>3, <1>4, EngineKinds

\* The facts that are expected, one by one.
LEMMA ExpectedForms ==
    ASSUME NEW j, j.kind \in Kinds, NEW f \in Expected(j)
    PROVE  \/ f.is \in {"file", "table"}
           \/ \E i \in 1..Len(Collections) : \E q \in 1..Len(Docs(i)) :
                f = Doc(Name(i), Docs(i)[q]) /\ f.is = "doc" /\ f.doc = Docs(i)[q]
           \/ \E i \in 1..Len(Collections) : \E x \in Collections[i].indexes :
                f = Index(Name(i), x) /\ f.is = "index" /\ f.index = x
<1>1. CASE j.kind = "FILES"
  BY <1>1 DEF Expected, File
<1>2. CASE j.kind # "FILES"
  <2>1. PICK c \in ToSet(Collections) :
          f \in {Doc(c.name, d) : d \in ToSet(c.docs)}
                \cup (IF j.kind = "NATIVE" THEN {Index(c.name, i) : i \in c.indexes}
                      ELSE IF j.kind \in {"JSON", "CSV"} THEN {}
                      ELSE {Table(c.name)})
    BY <1>2, Zenon DEF Expected
  <2>2. PICK i \in 1..Len(Collections) : c = Collections[i]
    BY SourceFacts DEF ToSet
  <2>3. CASE f \in {Doc(c.name, d) : d \in ToSet(c.docs)}
    <3>1. PICK d \in ToSet(Docs(i)) : f = Doc(Name(i), d)
      BY <2>2, <2>3 DEF Docs, Name
    <3>2. PICK q \in 1..Len(Docs(i)) : d = Docs(i)[q]
      BY SourceFacts DEF ToSet
    <3> QED
      BY <3>1, <3>2 DEF Doc
  <2>4. CASE f \in {Index(c.name, x) : x \in c.indexes}
    <3>1. PICK x \in Collections[i].indexes : f = Index(Name(i), x)
      BY <2>2, <2>4 DEF Name
    <3> QED
      BY <3>1 DEF Index
  <2>5. CASE f = Table(c.name)
    BY <2>5 DEF Table
  <2> QED
    BY <2>1, <2>3, <2>4, <2>5
<1> QED
  BY <1>1, <1>2

\* What is lost is told: a fact that is Exact comes back as it was.
LEMMA ExactKept ==
    ASSUME NEW j, j.kind \in Kinds, NEW f \in Expected(j), Exact(j.kind, f)
    PROVE  Reduced(j.kind, f) = f
<1>1. CASE f.is \in {"file", "table"}
  BY <1>1 DEF Reduced
<1>2. ASSUME NEW i \in 1..Len(Collections), NEW q \in 1..Len(Docs(i)),
             f = Doc(Name(i), Docs(i)[q]), f.is = "doc", f.doc = Docs(i)[q]
      PROVE  Reduced(j.kind, f) = f
  <2>1. Kept(j.kind, f.doc) = f.doc
    <3>1. CASE j.kind \in MongoKinds
      <4>1. j.kind # "CSV" /\ (j.kind = "JSON" => f.doc.type # "long")
        BY <1>2 DEF Exact
      <4> QED
        BY <1>2, <3>1, <4>1, DocShape, KeptFields DEF MongoKinds
    <3>2. CASE j.kind \notin MongoKinds
      BY <3>2 DEF Kept, MongoKinds
    <3> QED
      BY <3>1, <3>2
  <2>2. f.in = Name(i)
    BY <1>2 DEF Doc
  <2> QED
    BY <1>2, <2>1, <2>2 DEF Reduced
<1>3. ASSUME NEW i \in 1..Len(Collections), NEW x \in Collections[i].indexes,
             f = Index(Name(i), x), f.is = "index", f.index = x
      PROVE  Reduced(j.kind, f) = f
  <2>1. IndexShape(x)
    BY SourceAssumption, SourceFacts
  <2>2. x.skips = {} /\ x.extras = {}
    BY <1>3 DEF Exact
  <2>3. f.in = Name(i)
    BY <1>3 DEF Index
  <2> QED
    BY <1>3, <2>1, <2>2, <2>3, RebuiltFields DEF Reduced
<1> QED
  BY <1>1, <1>2, <1>3, ExpectedForms

\* A restore that succeeds has brought back all that was in the source and
\* asked for: a fact that its format and its engine keep as it was, any other
\* one reduced by what they are said to lose; whatever the source, the size of
\* a batch, and what was in the destination before (restore.go:15-103,
\* postgres_exec.go:112-170, mssql_exec.go, mongo_exec.go,
\* mongo_native.go:209-372, mongo_export.go:155-222, 382-461).
THEOREM RoundTrip ==
    ASSUME NEW j, j.kind \in Kinds, NEW db, Restored(j.kind, db, Items(j)).ok
    PROVE  \A f \in Expected(j) :
             IF Exact(j.kind, f) THEN f \in Restored(j.kind, db, Items(j)).db
             ELSE Reduced(j.kind, f) \in Restored(j.kind, db, Items(j)).db
<1> DEFINE s == Restored(j.kind, db, Items(j))
<1>1. ASSUME NEW f \in Expected(j) PROVE Reduced(j.kind, f) \in s.db
  <2>1. CASE j.kind = "FILES"
    <3>1. s = Replay("FILES", db, Archive(j))
      BY <2>1 DEF Restored, Items
    <3>2. PICK e \in ToSet(Entries) :
            /\ f = File(e.name) /\ e.kind = "file"
            /\ \A n \in e.under \cup {e.name} : Included(n, j)
      BY <1>1, <2>1 DEF Expected
    <3>3. e \in Visited(j)
      BY <3>2 DEF Visited, Walks
    <3>4. PICK p \in 1..Len(Archive(j)) : Archive(j)[p] = e
      BY <3>3, Archived
    <3>5. Reduced(j.kind, f) = f
      BY <3>2 DEF Reduced, File
    <3> HIDE DEF s
    <3>6. s.ok
      BY DEF s
    <3> QED
      BY <3>1, <3>2, <3>4, <3>5, <3>6, Unpacked
  <2>2. CASE j.kind \in Databases
    <3>1. s = Restored(j.kind, db, PerCollection(j.kind)) /\ s.ok
      BY <2>2, ItemsDef
    <3> HIDE DEF s
    <3>2. Before(j.kind, s.db, Len(Collections))
      <4>1. FALSE \in BOOLEAN
        OBVIOUS
      <4> QED
        BY <2>2, <3>1, <4>1, RestoredIs
    <3>3. j.kind # "FILES"
      BY <2>2 DEF Databases
    <3>4. PICK c \in ToSet(Collections) :
            f \in {Doc(c.name, d) : d \in ToSet(c.docs)}
                  \cup (IF j.kind = "NATIVE" THEN {Index(c.name, i) : i \in c.indexes}
                        ELSE IF j.kind \in {"JSON", "CSV"} THEN {}
                        ELSE {Table(c.name)})
      BY <1>1, <3>3, Zenon DEF Expected
    <3>5. PICK i \in 1..Len(Collections) : c = Collections[i]
      BY SourceFacts DEF ToSet
    <3>6. Reduced(j.kind, f) \in Brought(j.kind, i)
      <4>1. CASE f \in {Doc(c.name, d) : d \in ToSet(c.docs)}
        <5>1. PICK d \in ToSet(c.docs) : f = Doc(c.name, d)
          BY <4>1
        <5>2. Reduced(j.kind, f) = Doc(c.name, Kept(j.kind, d))
          BY <5>1 DEF Reduced, Doc
        <5> QED
          BY <3>5, <5>1, <5>2 DEF Brought, Name, Docs
      <4>2. CASE j.kind = "NATIVE" /\ f \in {Index(c.name, x) : x \in c.indexes}
        <5>1. PICK x \in c.indexes : f = Index(c.name, x)
          BY <4>2
        <5>2. Reduced(j.kind, f) = Index(c.name, Rebuilt(x))
          BY <5>1 DEF Reduced, Index
        <5> QED
          BY <3>5, <4>2, <5>1, <5>2 DEF Brought, Name
      <4>3. CASE j.kind \notin MongoKinds /\ f = Table(c.name)
        <5>1. Reduced(j.kind, f) = Table(c.name)
          BY <4>3 DEF Reduced, Table
        <5> QED
          BY <3>5, <4>3, <5>1 DEF Brought, Name, MongoKinds
      <4> QED
        BY <3>4, <4>1, <4>2, <4>3 DEF MongoKinds
    <3> QED
      BY <3>2, <3>5, <3>6 DEF Before
  <2> QED
    BY <2>1, <2>2 DEF Databases
<1> QED
  BY <1>1, ExactKept

\* Into an empty destination only a link in an archive fails a restore, or a
\* source of the few kinds that do not come back: indexes that the server
\* refuses without their options, a JSON line over the reader's limit, CSV ids
\* that read alike (restore.go:15-103, mongo_native.go:209-372,
\* mongo_export.go:155-222, 441-450).
THEOREM EmptyDestination ==
    ASSUME NEW j, j.kind \in Kinds, Restorable(j.kind),
           j.kind = "FILES" => \A e \in ToSet(Archive(j)) : e.kind # "link"
    PROVE  Restored(j.kind, {}, Items(j)).ok
<1>1. CASE j.kind = "FILES"
  <2>1. Restored(j.kind, {}, Items(j)) = Replay("FILES", {}, Archive(j))
    BY <1>1 DEF Restored, Items
  <2> QED
    BY <1>1, <2>1, Unpacked
<1>2. CASE j.kind \in Databases
  BY <1>2, ItemsDef, RestoredIs
<1> QED
  BY <1>1, <1>2 DEF Databases

-----------------------------------------------------------------------------
\* The way of the data: what holds in every state.

BackupSteps == {"dump", "compress", "check", "encrypt", "upload", "verify", "report"}
RestoreSteps == {"fetch", "decrypt", "import", "failed", "completed"}
Steps == BackupSteps \cup RestoreSteps \cup {"idle", "claiming"}

AgentRec == [at : Steps, file : Packed, id : Ids \cup {0}, list : SUBSET Ids,
             claims : 0..MaxClaims]
RowRec == [status : {"none", "PENDING", "RUNNING", "COMPLETED", "FAILED"},
           to : Destinations \cup {None}, started : BOOLEAN, ended : BOOLEAN]
Message == [is : {"claim", "report"}, id : Ids, n : Nat,
            status : {"RUNNING", "COMPLETED", "FAILED"}]

Whole == /\ object # None
         /\ object.items = Items(job) /\ object.enc = job.encrypted

AgentInv ==
  /\ agent \in AgentRec
  /\ agent.at \in RestoreSteps \cup {"claiming"} => agent.id \in Ids

RowsInv ==
  /\ row \in [Ids -> RowRec]
  /\ executed \in [Ids -> 0..1]
  /\ \A i \in Ids :
       /\ row[i].status \in {"COMPLETED", "FAILED"} <=> row[i].ended
       /\ executed[i] = 1 => row[i].status \notin {"none", "PENDING"}

WireInv == wire \subseteq Message

StageInv ==
  /\ job \in Jobs
  /\ run \in {"RUNNING", "COMPLETED", "FAILED", "CANCELLED", "unreported"}
  /\ object \in Packed \cup {None}
  /\ agent.at \in BackupSteps => run = "RUNNING"
  /\ agent.at \in BackupSteps \ {"dump", "report"} => agent.file.items = Items(job)
  /\ agent.at \in {"compress", "check", "encrypt"} => ~agent.file.enc
  /\ agent.at \in {"upload", "verify"} => agent.file.enc = job.encrypted
  /\ agent.at \in {"encrypt", "upload", "verify"} => agent.file.items # <<>>
  /\ agent.at = "encrypt" => job.encrypted
  /\ agent.at = "verify" => /\ object # None /\ object.enc = job.encrypted
                            /\ object.items \in {Items(job), Front(Items(job))}
  /\ agent.at = "report" => Whole
  /\ StoredIsWhole
  /\ agent.at \in RestoreSteps => run = "COMPLETED"

AskedInv ==
  /\ req \in [Reqs -> Destinations \cup {None, "answered"}]
  /\ \A q \in Reqs : req[q] # None => run = "COMPLETED"
  /\ \A i \in Ids : row[i].status # "none" => run = "COMPLETED"

RestInv ==
  /\ temps \subseteq {"dump", "gz", "enc", "tmp", "dec"}
  /\ orphaned \subseteq Ids /\ provoked \subseteq Ids /\ refused \subseteq provoked
  /\ {recalled, crashed} \subseteq BOOLEAN
  /\ TempFilesRemoved

IInv == AgentInv /\ RowsInv /\ WireInv /\ StageInv /\ AskedInv /\ RestInv

-----------------------------------------------------------------------------
LEMMA MinIn ==
    ASSUME NEW S \in SUBSET Ids, S # {}
    PROVE  Min(S) \in S
<1>1. S \subseteq Nat
  BY RestoresAssumption DEF Ids
<1>2. PICK x \in S : \A y \in S : x <= y
  BY <1>1, LeastNat
<1> QED
  BY <1>2 DEF Min

LEMMA PayloadFacts ==
    ASSUME NEW j \in Jobs
    PROVE  /\ <<>> \in Payload /\ Items(j) \in Payload /\ Front(Items(j)) \in Payload
           /\ Items(j) # <<>> => Len(Front(Items(j))) # Len(Items(j))
           /\ j.compressed \in BOOLEAN /\ j.encrypted \in BOOLEAN
<1>1. <<>> \in Payload /\ Items(j) \in Payload /\ Front(Items(j)) \in Payload
  BY DEF Payload
<1>2. Items(j) \in Seq(ToSet(Items(j)))
  BY RestoresAssumption, PayloadIsFinite
<1> DEFINE s == Items(j)
           S == ToSet(Items(j))
<1>3. s \in Seq(S)
  BY <1>2
<1> HIDE DEF s, S
<1>4. s # <<>> => Len(Front(s)) # Len(s)
  BY <1>3 DEF Front
<1> QED
  BY <1>1, <1>4, RestoresAssumption DEF s

-----------------------------------------------------------------------------
\* The backup.

LEMMA NoFilePacked == NoFile \in Packed
BY DEF NoFile, Packed, Payload

LEMMA GoesTyped ==
    ASSUME AgentInv, NEW to \in Steps \ (RestoreSteps \cup {"claiming"}),
           NEW f \in Packed, Goes(to, f)
    PROVE  AgentInv' /\ agent'.at = to /\ agent'.file = f
BY DEF AgentInv, AgentRec, Goes

\* What a step of the backup leaves alone, and what it may not reach.
Elsewhere == UNCHANGED <<rows, wire, dest, history, job>>

LEMMA FailedRun ==
    ASSUME IInv, NEW left \in {{}, {"gz"}}, FailRun(left), Elsewhere,
           object' \in Packed \cup {None}
    PROVE  AgentInv' /\ StageInv' /\ run' # "COMPLETED" /\ RestInv'
<1>1. AgentInv' /\ agent'.at = "idle"
  BY NoFilePacked, GoesTyped DEF IInv, FailRun, Steps, BackupSteps, RestoreSteps
<1>2. run' = "FAILED" /\ job' = job /\ temps' = left
      /\ UNCHANGED <<executed, provoked, orphaned, refused, recalled, crashed>>
  BY DEF FailRun, Elsewhere, history
<1>3. StageInv'
  BY <1>1, <1>2 DEF IInv, StageInv, StoredIsWhole, BackupSteps, RestoreSteps
<1>4. RestInv'
  BY <1>1, <1>2 DEF IInv, RestInv, TempFilesRemoved
<1> QED
  BY <1>1, <1>2, <1>3, <1>4

LEMMA DumpStep ==
    ASSUME IInv, Dump
    PROVE  AgentInv' /\ StageInv' /\ RestInv' /\ Elsewhere
<1>1. job \in Jobs /\ Elsewhere /\ object' = object
      /\ UNCHANGED <<executed, provoked, orphaned, refused, recalled, crashed>> /\ job' = job
  BY DEF IInv, StageInv, Dump, backup, Elsewhere, history
<1>2. CASE FailRun({})
  BY <1>1, <1>2, FailedRun DEF IInv, StageInv
<1>3. CASE /\ temps' = {"dump"} /\ run' = run
           /\ Goes(IF Gzips THEN "compress" ELSE "check",
                   [items |-> Items(job), gz |-> Inline, enc |-> FALSE, ext |-> "none"])
  <2> DEFINE to == IF Gzips THEN "compress" ELSE "check"
             f == [items |-> Items(job), gz |-> Inline, enc |-> FALSE, ext |-> "none"]
  <2>1. f \in Packed /\ f.items = Items(job) /\ ~f.enc
    BY <1>1, PayloadFacts DEF Packed, Inline
  <2>2. to \in {"compress", "check"} /\ Goes(to, f)
    BY <1>3
  <2> HIDE DEF to, f
  <2>3. AgentInv' /\ agent'.at \in {"compress", "check"} /\ agent'.file = f
    BY <2>1, <2>2, GoesTyped DEF IInv, Steps, BackupSteps, RestoreSteps
  <2>4. StageInv'
    BY <1>1, <1>3, <2>1, <2>3 DEF IInv, StageInv, StoredIsWhole, Dump, BackupSteps, RestoreSteps
  <2>5. RestInv'
    BY <1>1, <1>3, <2>3 DEF IInv, RestInv, TempFilesRemoved
  <2> QED
    BY <1>1, <2>3, <2>4, <2>5
<1> QED
  BY <1>2, <1>3 DEF Dump

\* The steps up to the upload: the file may change its packing.
LEMMA Advances ==
    ASSUME IInv, agent.at \in {"compress", "check", "encrypt"},
           Elsewhere, object' = object, run' = run,
           temps' \subseteq {"dump", "gz", "enc", "tmp", "dec"},
           NEW to \in {"check", "encrypt", "upload"}, NEW f \in Packed, Goes(to, f),
           f.items = agent.file.items,
           to = "check" => ~f.enc,
           to = "encrypt" => ~f.enc /\ job.encrypted /\ f.items # <<>>,
           to = "upload" => f.enc = job.encrypted /\ f.items # <<>>
    PROVE  AgentInv' /\ StageInv' /\ RestInv'
<1>1. /\ job' = job /\ UNCHANGED <<executed, provoked, orphaned, refused, recalled, crashed>>
  BY DEF Elsewhere, history
<1>2. AgentInv' /\ agent'.at = to /\ agent'.file = f
  BY GoesTyped DEF IInv, Steps, BackupSteps, RestoreSteps
<1>3. run = "RUNNING" /\ agent.file.items = Items(job)
  BY DEF IInv, StageInv, BackupSteps
<1>4. StageInv'
  BY <1>1, <1>2, <1>3 DEF IInv, StageInv, StoredIsWhole, BackupSteps, RestoreSteps
<1>5. RestInv'
  BY <1>1, <1>2 DEF IInv, RestInv, TempFilesRemoved
<1> QED
  BY <1>2, <1>4, <1>5

LEMMA CompressStep ==
    ASSUME IInv, Compress
    PROVE  AgentInv' /\ StageInv' /\ RestInv' /\ Elsewhere
<1>1. Elsewhere /\ object' = object /\ agent.at = "compress"
  BY DEF Compress, backup, Elsewhere
<1>2. agent.file \in Packed /\ ~agent.file.enc
  BY <1>1 DEF IInv, AgentInv, AgentRec, StageInv
<1>3. CASE FailRun({"gz"})
  BY <1>1, <1>3, FailedRun DEF IInv, StageInv
<1>4. CASE /\ temps' = {"gz"} /\ UNCHANGED run
           /\ Goes("check", [agent.file EXCEPT !.gz = TRUE, !.ext = "gz"])
  <2> DEFINE f == [agent.file EXCEPT !.gz = TRUE, !.ext = "gz"]
             to == "check"
  <2>1. f \in Packed /\ f.items = agent.file.items /\ ~f.enc
    BY <1>2 DEF Packed
  <2>2. Goes(to, f)
    BY <1>4
  <2> HIDE DEF f
  <2> QED
    BY <1>1, <1>4, <2>1, <2>2, Advances
<1> QED
  BY <1>3, <1>4 DEF Compress

LEMMA CheckStep ==
    ASSUME IInv, Check
    PROVE  AgentInv' /\ StageInv' /\ RestInv' /\ Elsewhere
<1>1. Elsewhere /\ object' = object /\ agent.at = "check"
  BY DEF Check, backup, Elsewhere
<1>2. agent.file \in Packed /\ ~agent.file.enc /\ job \in Jobs
      /\ agent.file.enc \in BOOLEAN
  BY <1>1 DEF IInv, AgentInv, AgentRec, StageInv, Packed
<1>3. CASE agent.file.items = <<>>
  BY <1>1, <1>3, FailedRun DEF IInv, StageInv, Check
<1>4. CASE agent.file.items # <<>>
  <2> DEFINE to == IF job.encrypted THEN "encrypt" ELSE "upload"
  <2>1. Goes(to, agent.file) /\ UNCHANGED run /\ UNCHANGED temps
    BY <1>4 DEF Check
  <2>2. /\ to \in {"check", "encrypt", "upload"} /\ to # "check"
        /\ to = "encrypt" => job.encrypted
        /\ to = "upload" => agent.file.enc = job.encrypted
    BY <1>2, PayloadFacts
  <2>3. temps' \subseteq {"dump", "gz", "enc", "tmp", "dec"}
    BY <2>1 DEF IInv, RestInv
  <2> HIDE DEF to
  <2> QED
    BY <1>1, <1>2, <1>4, <2>1, <2>2, <2>3, Advances
<1> QED
  BY <1>3, <1>4

LEMMA EncryptStep ==
    ASSUME IInv, Encrypt
    PROVE  AgentInv' /\ StageInv' /\ RestInv' /\ Elsewhere
<1>1. Elsewhere /\ object' = object /\ agent.at = "encrypt"
  BY DEF Encrypt, backup, Elsewhere
<1>2. agent.file \in Packed /\ agent.file.items # <<>> /\ job.encrypted /\ job \in Jobs
  BY <1>1 DEF IInv, AgentInv, AgentRec, StageInv
<1>3. CASE FailRun({})
  BY <1>1, <1>3, FailedRun DEF IInv, StageInv
<1>4. CASE /\ temps' = temps \cup {"enc"} /\ UNCHANGED run
           /\ Goes("upload", [agent.file EXCEPT !.enc = TRUE])
  <2> DEFINE f == [agent.file EXCEPT !.enc = TRUE]
             to == "upload"
  <2>1. f \in Packed /\ f.items = agent.file.items /\ f.enc = TRUE
    BY <1>2 DEF Packed
  <2>2. Goes(to, f)
    BY <1>4
  <2>3. temps' \subseteq {"dump", "gz", "enc", "tmp", "dec"}
    BY <1>4 DEF IInv, RestInv
  <2>4. f.enc = job.encrypted
    BY <1>2, <2>1, PayloadFacts
  <2> HIDE DEF f
  <2> QED
    BY <1>1, <1>2, <1>4, <2>1, <2>2, <2>3, <2>4, Advances
<1> QED
  BY <1>3, <1>4 DEF Encrypt

LEMMA UploadStep ==
    ASSUME IInv, Upload
    PROVE  AgentInv' /\ StageInv' /\ RestInv' /\ Elsewhere
<1>1. Elsewhere /\ agent.at = "upload"
  BY DEF Upload, Elsewhere
<1>2. /\ agent.file \in Packed /\ job \in Jobs /\ run = "RUNNING"
      /\ agent.file.items = Items(job) /\ agent.file.enc = job.encrypted
      /\ agent.file.items # <<>> /\ object \in Packed \cup {None}
  BY <1>1 DEF IInv, AgentInv, AgentRec, StageInv, BackupSteps
<1>3. CASE FailRun({}) /\ UNCHANGED object
  BY <1>1, <1>2, <1>3, FailedRun
<1> DEFINE f == ArtifactName(agent.file)
           g == [f EXCEPT !.items = Front(@)]
<1>4. CASE /\ object' \in IF job.s3 THEN S3Put(f) ELSE LocalPut(f)
           /\ Goes("verify", agent.file) /\ UNCHANGED <<run, temps>>
  <2>1. f \in Packed /\ f.items = Items(job) /\ f.enc = job.encrypted
    BY <1>2 DEF Packed, ArtifactName
  <2>2. g \in Packed /\ g.items = Front(Items(job)) /\ g.enc = job.encrypted
    <3> HIDE DEF f
    <3> QED
      BY <1>2, <2>1, PayloadFacts DEF Packed
  <2>3. object' \in {f, g}
    BY <1>4 DEF S3Put, LocalPut
  <2> HIDE DEF f, g
  <2>4. /\ object' \in Packed /\ object' # None /\ object'.enc = job.encrypted
        /\ object'.items \in {Items(job), Front(Items(job))}
    BY <2>1, <2>2, <2>3, RestoresAssumption
  <2>5. AgentInv' /\ agent'.at = "verify" /\ agent'.file = agent.file
    BY <1>2, <1>4, GoesTyped DEF IInv, Steps, BackupSteps, RestoreSteps
  <2>6. job' = job /\ UNCHANGED <<executed, provoked, orphaned, refused, recalled, crashed>>
    BY <1>1 DEF Elsewhere, history
  <2>7. StageInv'
    BY <1>2, <1>4, <2>4, <2>5, <2>6 DEF StageInv, StoredIsWhole, BackupSteps, RestoreSteps
  <2>8. RestInv'
    BY <1>4, <2>5, <2>6 DEF IInv, RestInv, TempFilesRemoved
  <2> QED
    BY <1>1, <2>5, <2>7, <2>8
<1> QED
  BY <1>1, <1>3, <1>4 DEF Upload

\* The size tells a payload that was cut short.
LEMMA VerifyStep ==
    ASSUME IInv, Verify
    PROVE  AgentInv' /\ StageInv' /\ RestInv' /\ Elsewhere
<1>1. Elsewhere /\ agent.at = "verify" /\ job' = job
      /\ UNCHANGED <<executed, provoked, orphaned, refused, recalled, crashed>>
  BY DEF Verify, Elsewhere, history
<1>2. /\ agent.file.items = Items(job) /\ job \in Jobs /\ run = "RUNNING"
      /\ Items(job) # <<>> /\ object \in Packed \cup {None}
      /\ object # None /\ object.enc = job.encrypted
      /\ object.items \in {Items(job), Front(Items(job))}
  BY <1>1 DEF IInv, StageInv, BackupSteps
<1>3. CASE FailRun({}) /\ object' \in {object, None}
  BY <1>1, <1>2, <1>3, FailedRun
<1>4. CASE SizeMatches /\ Goes("report", NoFile) /\ UNCHANGED <<object, run, temps>>
  <2>1. object.items = Items(job)
    BY <1>2, <1>4, PayloadFacts DEF SizeMatches
  <2>2. AgentInv' /\ agent'.at = "report"
    BY <1>4, NoFilePacked, GoesTyped DEF IInv, Steps, BackupSteps, RestoreSteps
  <2>3. StageInv'
    BY <1>1, <1>2, <1>4, <2>1, <2>2 DEF StageInv, StoredIsWhole, Whole, BackupSteps, RestoreSteps
  <2>4. RestInv'
    BY <1>1, <1>4, <2>2 DEF IInv, RestInv, TempFilesRemoved
  <2> QED
    BY <1>1, <2>2, <2>3, <2>4
<1> QED
  BY <1>1, <1>3, <1>4 DEF Verify, DeleteObject

LEMMA ReportStep ==
    ASSUME IInv, ReportBackup
    PROVE  AgentInv' /\ StageInv' /\ RestInv' /\ UNCHANGED <<rows, wire, executed, job>>
<1>1. /\ agent.at = "report" /\ temps' = {} /\ Goes("idle", NoFile)
      /\ run' \in {"COMPLETED", "CANCELLED", "unreported"}
      /\ \/ object' = object /\ recalled' = recalled
         \/ object' \in {None, object} /\ recalled' = TRUE
      /\ UNCHANGED <<job, rows, wire, executed, provoked, orphaned, refused, crashed>>
  BY DEF ReportBackup, Recall, DeleteObject
<1>2. Whole /\ object \in Packed \cup {None}
  BY <1>1 DEF IInv, StageInv
<1>3. AgentInv' /\ agent'.at = "idle"
  BY <1>1, NoFilePacked, GoesTyped DEF IInv, Steps, BackupSteps, RestoreSteps
<1>4. StageInv'
  <2>1. StoredIsWhole'
    BY <1>1, <1>2 DEF StoredIsWhole, Whole
  <2> QED
    BY <1>1, <1>2, <1>3, <2>1 DEF IInv, StageInv, BackupSteps, RestoreSteps
<1>5. RestInv'
  BY <1>1, <1>3 DEF IInv, RestInv, TempFilesRemoved
<1> QED
  BY <1>1, <1>3, <1>4, <1>5

LEMMA BackupStep ==
    ASSUME IInv, Backup
    PROVE  IInv' /\ UNCHANGED row
<1>1. AgentInv' /\ StageInv' /\ RestInv' /\ (Elsewhere \/ UNCHANGED <<rows, wire, executed, job>>)
  BY DumpStep, CompressStep, CheckStep, EncryptStep, UploadStep, VerifyStep, ReportStep
     DEF Backup
<1>2. UNCHANGED <<row, req, wire, executed>>
  BY <1>1 DEF Elsewhere, rows, history
<1>3. run = "RUNNING"
  BY DEF Backup, Dump, Compress, Check, Encrypt, Upload, Verify, ReportBackup, IInv,
     StageInv, BackupSteps
<1>4. RowsInv' /\ WireInv'
  BY <1>2 DEF IInv, RowsInv, WireInv
<1>5. AskedInv'
  BY <1>2, <1>3 DEF IInv, AskedInv
<1> QED
  BY <1>1, <1>2, <1>4, <1>5 DEF IInv

-----------------------------------------------------------------------------
\* The restores: requests, claims and reports.

LEMMA StageKept ==
    ASSUME IInv, UNCHANGED <<job, run, object, recalled>>,
           \/ agent' = agent
           \/ agent'.at \in RestoreSteps /\ run = "COMPLETED"
           \/ agent'.at \in {"idle", "claiming"}
    PROVE  StageInv'
BY DEF IInv, StageInv, StoredIsWhole, Whole, BackupSteps, RestoreSteps

LEMMA AskedKept ==
    ASSUME IInv, UNCHANGED <<req, run, row>>
    PROVE  AskedInv'
BY DEF IInv, AskedInv

LEMMA RowsKept ==
    ASSUME IInv, UNCHANGED <<row, executed>>
    PROVE  RowsInv'
BY DEF IInv, RowsInv

\* The agent's disk, while nothing of it is written or the agent is at work.
LEMMA RestKept ==
    ASSUME IInv, UNCHANGED <<run, recalled, crashed>>, orphaned' \subseteq Ids,
           provoked' \subseteq Ids, refused' \subseteq provoked',
           temps' \subseteq {"dump", "gz", "enc", "tmp", "dec"},
           \/ temps' = temps /\ agent.at \in {"idle", "claiming"}
           \/ temps' = temps /\ agent' = agent
           \/ temps' = {}
           \/ agent'.at \notin {"idle", "claiming"}
    PROVE  RestInv'
BY DEF IInv, RestInv, TempFilesRemoved

LEMMA CheckRequest ==
    ASSUME IInv, NEW q \in Reqs, NEW d \in Destinations, CreateCheck(q, d)
    PROVE  IInv' /\ UNCHANGED row
<1>1. UNCHANGED <<job, run, agent, temps, object, row, wire, executed, provoked,
                  orphaned, refused, recalled, crashed>>
  BY DEF CreateCheck, history
<1>2. AgentInv' /\ RowsInv' /\ WireInv' /\ StageInv' /\ RestInv'
  BY <1>1, StageKept, RowsKept, RestKept DEF IInv, AgentInv, WireInv, RestInv
<1>3. AskedInv'
  BY <1>1 DEF IInv, AskedInv, CreateCheck
<1> QED
  BY <1>1, <1>2, <1>3 DEF IInv

\* A row is added, at the number after the others.
Adds(d) == \E i \in Ids : /\ row[i].status = "none" /\ Live(d) = {}
                          /\ row' = [row EXCEPT ![i] = [NoRow EXCEPT !.status = "PENDING",
                                                                     !.to = d]]

LEMMA InsertRequest ==
    ASSUME IInv, NEW q \in Reqs, CreateInsert(q)
    PROVE  IInv' /\ (UNCHANGED row \/ \E d \in Destinations : Adds(d))
<1>1. UNCHANGED <<job, run, agent, temps, object, wire, executed, provoked,
                  orphaned, refused, recalled, crashed>>
  BY DEF CreateInsert, history
<1>2. /\ req[q] \in Destinations /\ req' = [req EXCEPT ![q] = "answered"]
      /\ req \in [Reqs -> Destinations \cup {None, "answered"}]
      /\ \A o \in Reqs : req[o] # None => run = "COMPLETED"
      /\ run = "COMPLETED"
  BY RestoresAssumption DEF CreateInsert, IInv, AskedInv
<1>3. AgentInv' /\ WireInv' /\ StageInv' /\ RestInv'
  BY <1>1, StageKept, RestKept DEF IInv, AgentInv, WireInv, RestInv
<1>4. CASE UNCHANGED row
  <2>1. RowsInv'
    BY <1>1, <1>4, RowsKept
  <2>2. AskedInv'
    BY <1>1, <1>2, <1>4 DEF IInv, AskedInv
  <2> QED
    BY <1>3, <1>4, <2>1, <2>2 DEF IInv
<1>5. CASE Live(req[q]) = {} /\ Unused # {} /\ Inserted(req[q])
  <2>1. PICK d \in Destinations : d = req[q]
    BY <1>2
  <2>2. Unused \in SUBSET Ids
    BY DEF Unused
  <2>3. PICK i \in Ids : i = Min(Unused) /\ row[i].status = "none"
    BY <1>5, <2>2, MinIn DEF Unused
  <2> DEFINE r == [NoRow EXCEPT !.status = "PENDING", !.to = d]
  <2>4. r \in RowRec /\ r.status = "PENDING" /\ r.ended = FALSE
    BY DEF NoRow, RowRec
  <2>5. row' = [row EXCEPT ![i] = r]
    BY <1>5, <2>1, <2>3 DEF Inserted
  <2>6. Adds(d)
    BY <1>5, <2>1, <2>3, <2>5 DEF Adds
  <2> HIDE DEF r
  <2>7. row \in [Ids -> RowRec] /\ executed \in [Ids -> 0..1] /\ executed[i] = 0
    BY <2>3 DEF IInv, RowsInv
  <2>8. /\ row' \in [Ids -> RowRec] /\ row'[i] = r
        /\ \A o \in Ids \ {i} : row'[o] = row[o]
    BY <2>4, <2>5, <2>7
  <2>9. RowsInv'
    BY <1>1, <2>4, <2>7, <2>8 DEF IInv, RowsInv
  <2>10. AskedInv'
    BY <1>1, <1>2 DEF AskedInv
  <2> QED
    BY <1>3, <2>6, <2>9, <2>10 DEF IInv
<1> QED
  BY <1>4, <1>5 DEF CreateInsert

LEMMA PollStep ==
    ASSUME IInv, Poll
    PROVE  IInv' /\ UNCHANGED row
<1>1. UNCHANGED <<job, run, temps, object, row, req, wire, executed, provoked,
                  orphaned, refused, recalled, crashed>>
  BY DEF Poll, data, rows, history
<1> DEFINE l == {i \in Ids : row[i].status = "PENDING"}
<1>2. l \in SUBSET Ids /\ agent' = [agent EXCEPT !.list = l] /\ agent.at = "idle"
  BY DEF Poll
<1> HIDE DEF l
<1>3. AgentInv' /\ agent'.at = "idle"
  BY <1>2 DEF IInv, AgentInv, AgentRec, RestoreSteps
<1> QED
  BY <1>1, <1>2, <1>3, StageKept, RowsKept, RestKept, AskedKept DEF IInv, WireInv, RestInv

LEMMA SendClaimStep ==
    ASSUME IInv, SendClaim
    PROVE  IInv' /\ UNCHANGED row
<1>1. UNCHANGED <<job, run, temps, object, row, req, executed, provoked,
                  orphaned, refused, recalled, crashed>>
  BY DEF SendClaim, data, rows, history
<1>2. /\ agent \in AgentRec /\ agent.list \in SUBSET Ids /\ agent.list # {}
      /\ agent.claims \in 0..MaxClaims /\ agent.claims < MaxClaims /\ MaxClaims \in Nat
      /\ agent.at = "idle"
  BY RestoresAssumption DEF SendClaim, IInv, AgentInv, AgentRec
<1> DEFINE i == Min(agent.list)
           n == agent.claims + 1
           l == agent.list \ {i}
<1>3. i \in Ids /\ n \in 0..MaxClaims /\ n \in Nat /\ l \in SUBSET Ids
  BY <1>2, MinIn
<1>4. /\ agent' = [agent EXCEPT !.at = "claiming", !.id = i, !.list = l, !.claims = n]
      /\ wire' = wire \cup {Claim(i, n)}
  BY DEF SendClaim
<1> HIDE DEF i, n, l
<1>5. AgentInv' /\ agent'.at = "claiming"
  BY <1>2, <1>3, <1>4 DEF AgentInv, AgentRec, Steps
<1>6. WireInv'
  BY <1>3, <1>4 DEF IInv, WireInv, Claim, Message
<1> QED
  BY <1>1, <1>2, <1>5, <1>6, StageKept, RowsKept, RestKept, AskedKept DEF IInv, RestInv

LEMMA ClaimFailsStep ==
    ASSUME IInv, ClaimFails
    PROVE  IInv' /\ UNCHANGED row
<1>1. UNCHANGED <<job, run, temps, object, row, req, wire, executed, provoked,
                  orphaned, refused, recalled, crashed>> /\ agent.at = "claiming"
  BY DEF ClaimFails, data, rows, history
<1>2. AgentInv' /\ agent'.at = "idle"
  BY DEF ClaimFails, IInv, AgentInv, AgentRec, Steps, RestoreSteps
<1> QED
  BY <1>1, <1>2, StageKept, RowsKept, RestKept, AskedKept DEF IInv, WireInv, RestInv

\* A row goes through one of the promised transitions.
Moves == \E i \in Ids : \E r \in RowRec :
           /\ CanRestoreTransition(row[i].status, r.status) /\ r.to = row[i].to
           /\ row' = [row EXCEPT ![i] = r]

\* The agent hears of its claim, or nobody does.
LEMMA AnsweredAgent ==
    ASSUME IInv, NEW m \in Message, NEW granted \in BOOLEAN, Answered(m, granted),
           granted => run = "COMPLETED"
    PROVE  /\ AgentInv' /\ StageInv' /\ RestInv'
           /\ \/ agent' = agent
              \/ agent'.at \in {"fetch", "idle"}
           /\ orphaned' \subseteq Ids
           /\ UNCHANGED <<job, run, temps, object, req, provoked, refused, recalled, crashed>>
<1>1. UNCHANGED <<job, run, temps, object, req, provoked, refused, recalled, crashed>>
  BY DEF Answered, data
<1>2. m.id \in Ids
  BY DEF Message
<1>3. agent \in AgentRec /\ (Awaited(m) => agent.at = "claiming")
  BY DEF IInv, AgentInv, Awaited
<1>4. orphaned' \subseteq Ids
  BY <1>2 DEF Answered, IInv, RestInv
<1>5. CASE granted /\ Awaited(m)
  <2>1. agent' = [agent EXCEPT !.at = "fetch", !.list = {}]
    BY <1>5 DEF Answered
  <2>2. agent.id \in Ids
    BY <1>3, <1>5 DEF IInv, AgentInv
  <2>3. AgentInv' /\ agent'.at = "fetch"
    BY <1>3, <2>1, <2>2 DEF AgentInv, AgentRec, Steps, RestoreSteps
  <2>4. agent'.at \in RestoreSteps /\ run = "COMPLETED"
    BY <1>5, <2>3 DEF RestoreSteps
  <2> QED
    BY <1>1, <1>4, <2>3, <2>4, StageKept, RestKept DEF IInv, RestInv
<1>6. CASE ~granted /\ Awaited(m)
  <2>1. agent' = [agent EXCEPT !.at = "idle", !.id = 0]
    BY <1>6 DEF Answered
  <2>2. AgentInv' /\ agent'.at = "idle"
    BY <1>3, <2>1 DEF AgentInv, AgentRec, Steps, RestoreSteps
  <2>3. RestInv'
    BY <1>1, <1>3, <1>4, <1>6, RestKept DEF IInv, RestInv
  <2> QED
    BY <1>1, <1>4, <2>2, <2>3, StageKept
<1>7. CASE ~Awaited(m)
  <2>1. agent' = agent
    BY <1>7 DEF Answered
  <2>2. AgentInv'
    BY <2>1 DEF IInv, AgentInv
  <2> QED
    BY <1>1, <1>4, <2>1, <2>2, StageKept, RestKept DEF IInv, RestInv
<1> QED
  BY <1>5, <1>6, <1>7

\* The condition on PENDING lets one claim through.
LEMMA ClaimStep ==
    ASSUME IInv, NEW m \in wire, ClaimRestore(m)
    PROVE  IInv' /\ (UNCHANGED row \/ Moves)
<1>1. m \in Message /\ m.id \in Ids /\ wire' = wire \ {m} /\ WireInv'
  BY DEF ClaimRestore, IInv, WireInv, Message
<1> DEFINE i == m.id
<1>2. /\ row \in [Ids -> RowRec] /\ row[i] \in RowRec /\ executed \in [Ids -> 0..1]
      /\ executed[i] = 1 => row[i].status \notin {"none", "PENDING"}
      /\ row[i].status \in {"COMPLETED", "FAILED"} <=> row[i].ended
  BY <1>1 DEF IInv, RowsInv
<1>3. CASE row[i].status = "PENDING"
  <2>1. Begun(i) /\ Answered(m, TRUE) /\ run = "COMPLETED"
    BY <1>1, <1>3 DEF ClaimRestore, IInv, AskedInv
  <2>2. /\ AgentInv' /\ StageInv' /\ RestInv'
        /\ UNCHANGED <<run, req>>
    BY <1>1, <2>1, AnsweredAgent
  <2>3. executed' = executed \/ executed' = [executed EXCEPT ![i] = @ + 1]
    BY <2>1 DEF Answered
  <2> DEFINE r == [row[i] EXCEPT !.status = "RUNNING", !.started = TRUE]
  <2>4. r \in RowRec /\ r.status = "RUNNING" /\ r.ended = row[i].ended
        /\ r.to = row[i].to
    BY <1>2 DEF RowRec
  <2>5. row' = [row EXCEPT ![i] = r]
    BY <1>1, <1>2, <2>1 DEF Begun, RowRec
  <2>6. Moves
    BY <1>1, <1>3, <2>4, <2>5 DEF Moves, CanRestoreTransition
  <2> HIDE DEF r, i
  <2>7. i \in Ids
    BY <1>1 DEF i
  <2>8. /\ row' \in [Ids -> RowRec] /\ row'[i] = r
        /\ \A o \in Ids \ {i} : row'[o] = row[o]
    BY <1>2, <2>4, <2>5, <2>7
  <2>9. executed[i] = 0
    BY <1>2, <1>3, <2>7
  <2>10. /\ executed' \in [Ids -> 0..1]
         /\ \A o \in Ids \ {i} : executed'[o] = executed[o]
    BY <1>2, <2>3, <2>7, <2>9
  <2>11. RowsInv'
    BY <1>2, <1>3, <2>4, <2>7, <2>8, <2>10 DEF IInv, RowsInv
  <2>12. AskedInv'
    BY <2>1, <2>2 DEF IInv, AskedInv
  <2> QED
    BY <1>1, <2>2, <2>6, <2>11, <2>12 DEF IInv
<1>4. CASE row[i].status # "PENDING"
  <2>1. UNCHANGED row /\ Answered(m, FALSE)
    BY <1>4 DEF ClaimRestore
  <2>2. /\ AgentInv' /\ StageInv' /\ RestInv'
        /\ UNCHANGED <<run, req>>
    BY <1>1, <2>1, AnsweredAgent
  <2>3. executed' = executed
    BY <2>1 DEF Answered
  <2> QED
    BY <1>1, <2>1, <2>2, <2>3, RowsKept, AskedKept DEF IInv
<1> QED
  BY <1>3, <1>4

LEMMA UpdateStep ==
    ASSUME IInv, NEW m \in wire, UpdateStatus(m)
    PROVE  IInv' /\ (UNCHANGED row \/ Moves)
<1>1. m \in Message /\ m.id \in Ids /\ wire' = wire \ {m} /\ WireInv'
  BY DEF UpdateStatus, IInv, WireInv, Message
<1>2. UNCHANGED <<job, run, agent, temps, object, req, executed, provoked,
                  orphaned, refused, recalled, crashed>>
  BY DEF UpdateStatus, data, history
<1>3. AgentInv' /\ StageInv' /\ RestInv'
  BY <1>2, StageKept, RestKept DEF IInv, AgentInv, RestInv
<1>4. CASE UNCHANGED row
  BY <1>1, <1>2, <1>3, <1>4, RowsKept, AskedKept DEF IInv
<1>5. CASE CanRestoreTransition(row[m.id].status, m.status) /\ Written(m)
  <2> DEFINE i == m.id
             r == [row[i] EXCEPT !.status = m.status, !.ended = @ \/ Settles(m.status)]
  <2>1. /\ row \in [Ids -> RowRec] /\ row[i] \in RowRec /\ executed \in [Ids -> 0..1]
        /\ row[i].status \in {"COMPLETED", "FAILED"} <=> row[i].ended
    BY <1>1 DEF IInv, RowsInv
  <2>2. m.status \in {"RUNNING", "COMPLETED", "FAILED"}
        /\ row[i].status \in {"PENDING", "RUNNING"}
    BY <1>1, <1>5 DEF Message, CanRestoreTransition
  <2>3. r \in RowRec /\ r.status = m.status /\ r.to = row[i].to
        /\ (r.status \in {"COMPLETED", "FAILED"} <=> r.ended)
    BY <2>1, <2>2 DEF RowRec, Settles
  <2>4. row' = [row EXCEPT ![i] = r]
    BY <1>1, <1>5, <2>1 DEF Written, RowRec
  <2>5. Moves
    BY <1>1, <1>5, <2>3, <2>4 DEF Moves
  <2> HIDE DEF r, i
  <2>6. i \in Ids
    BY <1>1 DEF i
  <2>7. /\ row' \in [Ids -> RowRec] /\ row'[i] = r
        /\ \A o \in Ids \ {i} : row'[o] = row[o]
    BY <2>1, <2>3, <2>4, <2>6
  <2>8. RowsInv'
    BY <1>2, <2>1, <2>2, <2>3, <2>6, <2>7 DEF IInv, RowsInv
  <2>9. run = "COMPLETED"
    BY <2>2, <2>6 DEF IInv, AskedInv
  <2>10. AskedInv'
    BY <1>2, <2>9 DEF IInv, AskedInv
  <2> QED
    BY <1>1, <1>3, <2>5, <2>8, <2>10 DEF IInv
<1> QED
  BY <1>4, <1>5 DEF UpdateStatus

LEMMA LostStep ==
    ASSUME IInv, NEW m \in wire, Lost(m)
    PROVE  IInv' /\ UNCHANGED row
<1>1. m \in Message /\ m.id \in Ids /\ wire' = wire \ {m} /\ WireInv'
  BY DEF Lost, IInv, WireInv, Message
<1>2. UNCHANGED <<job, run, agent, temps, object, row, req, executed, provoked, refused,
                  recalled, crashed>>
      /\ orphaned' \subseteq Ids
  BY <1>1 DEF Lost, data, rows, IInv, RestInv
<1>3. AgentInv' /\ StageInv' /\ RestInv'
  BY <1>2, StageKept, RestKept DEF IInv, AgentInv, RestInv
<1> QED
  BY <1>1, <1>2, <1>3, RowsKept, AskedKept DEF IInv

-----------------------------------------------------------------------------
\* The restore on the agent.

\* What a step of executeRestore leaves alone, and whom it may blame.
LEMMA AtWork ==
    ASSUME IInv, UNCHANGED restoring, agent.at \in RestoreSteps, AgentInv', WireInv',
           agent' = agent \/ agent'.at \in RestoreSteps \/ (agent'.at = "idle" /\ temps' = {}),
           temps' \subseteq {"dump", "gz", "enc", "tmp", "dec"},
           provoked' \subseteq provoked \cup {agent.id}, refused' \subseteq provoked'
    PROVE  IInv' /\ UNCHANGED row
<1>1. UNCHANGED <<job, run, object, row, req, executed, orphaned, recalled, crashed>>
  BY DEF restoring, rows
<1>2. run = "COMPLETED" /\ agent.id \in Ids
  BY DEF IInv, StageInv, AgentInv
<1>3. agent'.at \in RestoreSteps \/ agent'.at = "idle"
  OBVIOUS
<1>4. provoked' \subseteq Ids /\ orphaned' \subseteq Ids
  BY <1>1, <1>2 DEF IInv, RestInv
<1>5. StageInv'
  BY <1>1, <1>2, <1>3, StageKept
<1>6. RestInv'
  BY <1>1, <1>3, <1>4, RestKept DEF RestoreSteps
<1> QED
  BY <1>1, <1>5, <1>6, RowsKept, AskedKept DEF IInv

LEMMA AtTyped ==
    ASSUME AgentInv, agent.at \in RestoreSteps, NEW s \in RestoreSteps, At(s)
    PROVE  AgentInv' /\ agent'.at \in RestoreSteps
BY DEF AgentInv, AgentRec, Steps, At

LEMMA FetchStep ==
    ASSUME IInv, Fetch
    PROVE  IInv' /\ UNCHANGED row
<1>1. /\ UNCHANGED restoring /\ UNCHANGED <<refused, wire>> /\ agent.at = "fetch"
      /\ agent.at \in RestoreSteps /\ AgentInv
  BY DEF Fetch, RestoreSteps, IInv
<1>2. WireInv'
  BY <1>1 DEF IInv, WireInv
<1>3. temps \subseteq {"dump", "gz", "enc", "tmp", "dec"} /\ refused \subseteq provoked
  BY DEF IInv, RestInv
<1>4. CASE At("failed") /\ (Faulted \/ UNCHANGED provoked) /\ UNCHANGED temps
  <2>1. AgentInv' /\ agent'.at \in RestoreSteps
    BY <1>1, <1>4, AtTyped DEF RestoreSteps
  <2> QED
    BY <1>1, <1>2, <1>3, <1>4, <2>1, AtWork DEF Faulted
<1>5. CASE /\ object # None
           /\ agent' = [agent EXCEPT !.at = IF job.encrypted THEN "decrypt" ELSE "import",
                                     !.file = Downloaded]
           /\ temps' = IF job.s3 THEN {"tmp"} ELSE {}
           /\ UNCHANGED provoked
  <2> DEFINE f == Downloaded
             to == IF job.encrypted THEN "decrypt" ELSE "import"
  <2>1. object \in Packed
    BY <1>5 DEF IInv, StageInv
  <2>2. f \in Packed
    BY <2>1 DEF Packed, Downloaded
  <2>3. to \in RestoreSteps
    BY DEF RestoreSteps
  <2>4. agent' = [agent EXCEPT !.at = to, !.file = f]
    BY <1>5
  <2> HIDE DEF f, to
  <2>5. AgentInv' /\ agent'.at \in RestoreSteps
    BY <1>1, <2>2, <2>3, <2>4 DEF AgentInv, AgentRec, Steps
  <2>6. temps' \subseteq {"dump", "gz", "enc", "tmp", "dec"}
    BY <1>5
  <2> QED
    BY <1>1, <1>2, <1>3, <1>5, <2>5, <2>6, AtWork
<1> QED
  BY <1>4, <1>5 DEF Fetch

LEMMA DecryptStep ==
    ASSUME IInv, Decrypt
    PROVE  IInv' /\ UNCHANGED row
<1>1. /\ UNCHANGED restoring /\ UNCHANGED <<refused, wire>> /\ agent.at = "decrypt"
      /\ agent.at \in RestoreSteps /\ AgentInv
  BY DEF Decrypt, RestoreSteps, IInv
<1>2. WireInv'
  BY <1>1 DEF IInv, WireInv
<1>3. temps \subseteq {"dump", "gz", "enc", "tmp", "dec"} /\ refused \subseteq provoked
  BY DEF IInv, RestInv
<1>4. CASE At("failed") /\ provoked' \in {provoked, provoked \cup {agent.id}} /\ UNCHANGED temps
  <2>1. AgentInv' /\ agent'.at \in RestoreSteps
    BY <1>1, <1>4, AtTyped DEF RestoreSteps
  <2> QED
    BY <1>1, <1>2, <1>3, <1>4, <2>1, AtWork
<1>5. CASE /\ agent' = [agent EXCEPT !.at = "import", !.file.enc = FALSE,
                                     !.file.ext = "dec"]
           /\ temps' = temps \cup {"dec"} /\ UNCHANGED provoked
  <2> DEFINE f == [agent.file EXCEPT !.enc = FALSE, !.ext = "dec"]
             to == "import"
  <2>1. f \in Packed
    BY <1>1 DEF Packed, AgentInv, AgentRec
  <2>2. to \in RestoreSteps
    BY DEF RestoreSteps
  <2>3. agent' = [agent EXCEPT !.at = to, !.file = f]
    BY <1>1, <1>5 DEF AgentInv, AgentRec
  <2> HIDE DEF f, to
  <2>4. AgentInv' /\ agent'.at \in RestoreSteps
    BY <1>1, <2>1, <2>2, <2>3 DEF AgentInv, AgentRec, Steps
  <2>5. temps' \subseteq {"dump", "gz", "enc", "tmp", "dec"}
    BY <1>3, <1>5
  <2> QED
    BY <1>1, <1>2, <1>3, <1>5, <2>4, <2>5, AtWork
<1> QED
  BY <1>4, <1>5 DEF Decrypt, Faulted

LEMMA ProgressStep ==
    ASSUME IInv, Progress
    PROVE  IInv' /\ UNCHANGED row
<1>1. /\ UNCHANGED restoring /\ agent.at \in RestoreSteps
      /\ UNCHANGED <<agent, temps, provoked, refused>>
      /\ wire' = wire \cup {Report(agent.id, "RUNNING")}
  BY DEF Progress, RestoreSteps
<1>2. agent.id \in Ids
  BY <1>1 DEF IInv, AgentInv
<1>3. /\ AgentInv' /\ temps' \subseteq {"dump", "gz", "enc", "tmp", "dec"}
      /\ refused' \subseteq provoked'
  BY <1>1 DEF IInv, AgentInv, RestInv
<1>4. WireInv'
  BY <1>1, <1>2 DEF IInv, WireInv, Report, Message
<1> QED
  BY <1>1, <1>3, <1>4, AtWork

LEMMA ImportStep ==
    ASSUME IInv, Import \/ ImportFails
    PROVE  IInv' /\ UNCHANGED row
<1>1. /\ UNCHANGED restoring /\ UNCHANGED wire /\ UNCHANGED temps
      /\ agent.at \in RestoreSteps /\ AgentInv
      /\ provoked' \subseteq provoked \cup {agent.id} /\ refused' \subseteq provoked'
  BY DEF Import, ImportFails, Faulted, RestoreSteps, IInv, RestInv
<1>2. At("failed") \/ At("completed")
  BY DEF Import, ImportFails
<1>3. AgentInv' /\ agent'.at \in RestoreSteps
  BY <1>1, <1>2, AtTyped DEF RestoreSteps
<1>4. WireInv' /\ temps' \subseteq {"dump", "gz", "enc", "tmp", "dec"}
  BY <1>1 DEF IInv, WireInv, RestInv
<1> QED
  BY <1>1, <1>3, <1>4, AtWork

LEMMA ReportedStep ==
    ASSUME IInv, ReportRestore
    PROVE  IInv' /\ UNCHANGED row
<1>1. /\ UNCHANGED restoring /\ agent.at \in RestoreSteps /\ temps' = {}
      /\ provoked' = provoked /\ refused' \subseteq provoked'
  BY DEF ReportRestore, Reported, RestoreSteps, IInv, RestInv
<1>2. agent.id \in Ids /\ agent \in AgentRec
  BY <1>1 DEF IInv, AgentInv
<1>3. agent' = [agent EXCEPT !.at = "idle", !.file = NoFile, !.id = 0]
  BY DEF ReportRestore, Reported
<1>4. AgentInv' /\ agent'.at = "idle"
  BY <1>2, <1>3, NoFilePacked DEF AgentInv, AgentRec, Steps, RestoreSteps
<1> DEFINE s == IF agent.at = "failed" THEN "FAILED" ELSE "COMPLETED"
<1>5. s \in {"RUNNING", "COMPLETED", "FAILED"} /\ wire' = wire \cup {Report(agent.id, s)}
  BY DEF ReportRestore, Reported
<1> HIDE DEF s
<1>6. WireInv'
  BY <1>2, <1>5 DEF IInv, WireInv, Report, Message
<1> QED
  BY <1>1, <1>4, <1>6, AtWork

LEMMA CrashStep ==
    ASSUME IInv, Crash
    PROVE  IInv' /\ UNCHANGED row
<1>1. /\ UNCHANGED <<job, temps, object, row, req, wire, executed, provoked, refused,
                     recalled>>
      /\ crashed' = TRUE /\ run' = IF run = "RUNNING" THEN "unreported" ELSE run
      /\ agent' = [agent EXCEPT !.at = "idle", !.file = NoFile, !.id = 0, !.list = {}]
  BY DEF Crash, rows
<1>2. AgentInv' /\ agent'.at = "idle"
  BY <1>1, NoFilePacked DEF IInv, AgentInv, AgentRec, Steps, RestoreSteps
<1>3. orphaned' \subseteq Ids
  BY DEF Crash, IInv, AgentInv, RestInv, RestoreSteps
<1>4. StageInv'
  BY <1>1, <1>2 DEF IInv, StageInv, StoredIsWhole, BackupSteps, RestoreSteps
<1>5. AskedInv'
  BY <1>1 DEF IInv, AskedInv
<1>6. RestInv' /\ WireInv'
  BY <1>1, <1>3 DEF IInv, RestInv, WireInv, TempFilesRemoved
<1> QED
  BY <1>1, <1>2, <1>4, <1>5, <1>6, RowsKept DEF IInv

-----------------------------------------------------------------------------
LEMMA InitInv == Init => IInv
<1> SUFFICES ASSUME Init PROVE IInv
  OBVIOUS
<1>1. AgentInv
  BY NoFilePacked, RestoresAssumption DEF Init, AgentInv, AgentRec, Steps, BackupSteps,
     RestoreSteps
<1>2. RowsInv /\ WireInv
  BY DEF Init, RowsInv, RowRec, NoRow, WireInv
<1>3. StageInv
  BY DEF Init, StageInv, StoredIsWhole, BackupSteps, RestoreSteps
<1>4. AskedInv
  BY DEF Init, AskedInv, NoRow
<1>5. RestInv
  BY DEF Init, RestInv, TempFilesRemoved
<1> QED
  BY <1>1, <1>2, <1>3, <1>4, <1>5 DEF IInv

LEMMA StepInv ==
    ASSUME IInv, [Next]_vars
    PROVE  IInv' /\ \/ UNCHANGED row \/ Moves
                    \/ \E d \in Destinations : Adds(d)
<1>1. CASE UNCHANGED vars
  <2>1. UNCHANGED <<job, run, agent, temps, object, row, req, wire, dest, executed,
                    provoked, orphaned, refused, recalled, crashed>>
    BY <1>1 DEF vars
  <2> QED
    BY <2>1, StageKept, RowsKept, AskedKept, RestKept DEF IInv, AgentInv, WireInv, RestInv
<1> QED
  BY <1>1, BackupStep, PollStep, SendClaimStep, ClaimFailsStep, FetchStep, DecryptStep,
     ProgressStep, ImportStep, ReportedStep, CrashStep, CheckRequest, InsertRequest,
     ClaimStep, UpdateStep, LostStep DEF Next, Execute, Serve

LEMMA Invariant == Spec => []IInv
<1>1. IInv /\ [Next]_vars => IInv'
  BY StepInv
<1> QED
  BY <1>1, InitInv, PTL DEF Spec

\* A run is COMPLETED only with its whole payload in the store, and nothing
\* but a cancel that was seen with the answer to a late report takes it away:
\* an upload that S3 cut short is told by its size, and the steps of a restore
\* never write the object (runner.go:632-681).
THEOREM Stored == Spec => []StoredIsWhole
<1>1. IInv => StoredIsWhole
  BY DEF IInv, StageInv
<1> QED
  BY <1>1, Invariant, PTL

\* Whatever fails on the way, the agent that waits for work has removed its
\* temporary files, but for the .gz of a compression that broke off
\* (runner.go:457-577, 772-796).
THEOREM DiskClean == Spec => []TempFilesRemoved
<1>1. IInv => TempFilesRemoved
  BY DEF IInv, RestInv
<1> QED
  BY <1>1, Invariant, PTL

-----------------------------------------------------------------------------
LEMMA MachineStep ==
    ASSUME IInv, [Next]_vars
    PROVE  [Machine!Next]_<<[i \in Ids |-> row[i].status], [i \in Ids |-> row[i].to]>>
<1> DEFINE status == [i \in Ids |-> row[i].status]
           to == [i \in Ids |-> row[i].to]
<1>1. row \in [Ids -> RowRec]
  BY DEF IInv, RowsInv
<1>2. CASE UNCHANGED row
  BY <1>2
<1>3. ASSUME NEW d \in Destinations, Adds(d) PROVE Machine!Next
  <2> DEFINE r == [NoRow EXCEPT !.status = "PENDING", !.to = d]
  <2>1. PICK i \in Ids : /\ row[i].status = "none" /\ Live(d) = {}
                         /\ row' = [row EXCEPT ![i] = r]
    BY <1>3 DEF Adds
  <2>2. r.status = "PENDING" /\ r.to = d
    BY DEF NoRow
  <2> HIDE DEF r
  <2>3. row'[i] = r /\ \A o \in Ids \ {i} : row'[o] = row[o]
    BY <1>1, <2>1
  <2>4. status' = [status EXCEPT ![i] = "PENDING"] /\ to' = [to EXCEPT ![i] = d]
    BY <2>2, <2>3
  <2>5. \A o \in Ids : to[o] = d => status[o] # "PENDING"
    BY <2>1 DEF Live
  <2>6. status[i] = "none" /\ to'[i] = d
    BY <2>1, <2>2, <2>3
  <2> QED
    BY <2>4, <2>5, <2>6 DEF Machine!Insert, Machine!Next
<1>4. CASE Moves
  <2>1. PICK i \in Ids, r \in RowRec :
           /\ CanRestoreTransition(row[i].status, r.status) /\ r.to = row[i].to
           /\ row' = [row EXCEPT ![i] = r]
    BY <1>4 DEF Moves
  <2>2. row'[i] = r /\ \A o \in Ids \ {i} : row'[o] = row[o]
    BY <1>1, <2>1
  <2>3. status' = [status EXCEPT ![i] = r.status]
    BY <2>2
  <2>4. to' = to
    <3>1. \A o \in Ids : row'[o].to = row[o].to
      BY <2>1, <2>2
    <3> QED
      BY <3>1
  <2>5. Machine!CanRestoreTransition(status[i], r.status) /\ r.status \in Machine!States
    BY <2>1 DEF Machine!CanRestoreTransition, CanRestoreTransition, Machine!States
  <2>6. Machine!Move(i)
    BY <2>3, <2>4, <2>5 DEF Machine!Move
  <2> QED
    BY <2>6 DEF Machine!Next
<1> QED
  BY <1>2, <1>3, <1>4, StepInv

\* The rows do what the restore machine promises: at most one restore waits
\* for a destination, whatever Create requests race, and no late or repeated
\* report reopens a settled one (models/restore.go:19-32, restore.go:138-163,
\* 200-246).
THEOREM Implementation == Spec => ImplementsRestoreMachine
<1>1. Init => Machine!Init
  BY DEF Init, Machine!Init, NoRow
<1>2. Spec => [][Machine!Next]_<<[i \in Ids |-> row[i].status], [i \in Ids |-> row[i].to]>>
  BY MachineStep, Invariant, PTL DEF Spec
<1> QED
  BY <1>1, <1>2, PTL DEF Spec, ImplementsRestoreMachine, Machine!Spec

-----------------------------------------------------------------------------
\* What reaches the destination, and who is to blame if it does not.

\* Where an engine goes by the name of the file, the name tells its packing.
ByName == job.kind \in {"POSTGRES", "JSON", "CSV"}

FileInv ==
  /\ agent.at = "compress" => Gzips
  /\ agent.at \in {"check", "encrypt", "upload", "verify"} /\ ByName
       => agent.file.gz = Gzips
  /\ object # None => object.ext \in {"none", "enc"} /\ (ByName => object.gz = Gzips)
  /\ agent.at \in {"decrypt", "import"} =>
       /\ agent.file.items = Items(job) /\ agent.file.ext # "gz"
       /\ ByName => agent.file.gz = Gzips
       /\ agent.file.enc = (agent.at = "decrypt")
       /\ agent.at = "decrypt" => job.encrypted

Tells(i, status) == \E m \in wire : m.is = "report" /\ m.id = i /\ m.status = status

\* A restore at work is not yet reported on, and was begun once.
WorkInv ==
  /\ \A m \in wire : m.is = "report" => executed[m.id] = 1
  /\ agent.at \in RestoreSteps =>
       /\ executed[agent.id] = 1 /\ row[agent.id].status = "RUNNING"
       /\ ~Tells(agent.id, "COMPLETED") /\ ~Tells(agent.id, "FAILED")

PlaceInv ==
  /\ dest = [d \in Destinations |-> dest[d]]
  /\ \A i \in Ids : row[i].status # "none" => row[i].to \in Destinations

\* A restore has come to its end for the agent, on the way or in its row.
Ends(i, status, at) ==
  \/ row[i].status = status
  \/ Tells(i, status)
  \/ agent.at = at /\ agent.id = i

Succeeds(i) == Ends(i, "COMPLETED", "completed")
Fails(i) == Ends(i, "FAILED", "failed")

Alone(i) ==
  \A j \in Ids \ {i} :
    row[j].to = row[i].to => executed[j] = 0 \/ (Succeeds(j) /\ j \notin refused)

Brings(j, db) ==
  \A f \in Expected(j) :
    IF Exact(j.kind, f) THEN f \in db ELSE Reduced(j.kind, f) \in db

WholeInv ==
  \A i \in Ids : Succeeds(i) /\ Alone(i) /\ i \notin refused
                 => Brings(job, dest[row[i].to])

BlameInv ==
  RestorableJob /\ ~HasLinks /\ object # None
  => \A i \in Ids : Fails(i) => i \in provoked

DataInv == IInv /\ FileInv /\ WorkInv /\ PlaceInv /\ WholeInv /\ BlameInv

LEMMA FileKept ==
    ASSUME FileInv, UNCHANGED <<job, object>>,
           \/ agent' = agent
           \/ agent'.at \in {"idle", "claiming", "fetch", "failed", "completed", "report"}
    PROVE  FileInv'
BY DEF FileInv, Gzips, ByName

LEMMA GoesAgent ==
    ASSUME IInv, NEW to, NEW f, Goes(to, f)
    PROVE  agent'.at = to /\ agent'.file = f
BY DEF IInv, AgentInv, AgentRec, Goes

LEMMA FileFacts ==
    ASSUME IInv
    PROVE  /\ job \in Jobs /\ job.encrypted \in BOOLEAN /\ agent.file \in Packed
           /\ agent.file = [items |-> agent.file.items, gz |-> agent.file.gz,
                            enc |-> agent.file.enc, ext |-> agent.file.ext]
           /\ agent.file.gz \in BOOLEAN /\ agent.file.enc \in BOOLEAN
           /\ object \in Packed \cup {None}
<1>1. job \in Jobs /\ agent.file \in Packed /\ object \in Packed \cup {None}
  BY DEF IInv, AgentInv, AgentRec, StageInv
<1> QED
  BY <1>1, PayloadFacts DEF Packed

LEMMA FileBackup ==
    ASSUME IInv, FileInv, Backup
    PROVE  FileInv'
<1>1. job' = job
  BY BackupStep DEF Backup, Dump, Compress, Check, Encrypt, Upload, Verify,
     ReportBackup, backup
<1> DEFINE Failed == \E left \in {{}, {"gz"}} : FailRun(left)
<1>2. CASE Failed /\ object' \in {object, None}
  <2>1. agent'.at = "idle"
    BY <1>2, GoesAgent DEF FailRun
  <2> QED
    BY <1>1, <1>2, <2>1 DEF FileInv, Gzips, ByName
<1>3. CASE Dump /\ ~Failed
  <2> DEFINE to == IF Gzips THEN "compress" ELSE "check"
             f == [items |-> Items(job), gz |-> Inline, enc |-> FALSE, ext |-> "none"]
  <2>1. Goes(to, f) /\ object' = object
    BY <1>3 DEF Dump, backup
  <2>2. agent'.at = to /\ agent'.file = f
    BY <2>1, GoesAgent
  <2>3. f.gz = Inline /\ (ByName => Inline = FALSE) /\ Gzips \in BOOLEAN
    BY DEF Inline, ByName, Gzips
  <2> HIDE DEF f
  <2>4. CASE Gzips
    BY <1>1, <2>1, <2>2, <2>4 DEF FileInv, Gzips, ByName
  <2>5. CASE ~Gzips
    <3>1. ByName => agent'.file.gz = Gzips
      BY <2>2, <2>3, <2>5
    <3> QED
      BY <1>1, <2>1, <2>2, <2>5, <3>1 DEF FileInv, Gzips, ByName
  <2> QED
    BY <2>4, <2>5
<1>4. CASE Compress /\ ~Failed
  <2> DEFINE f == [agent.file EXCEPT !.gz = TRUE, !.ext = "gz"]
  <2>1. Goes("check", f) /\ object' = object /\ Gzips
    BY <1>4 DEF Compress, backup, FileInv
  <2>2. f.gz = TRUE
    BY FileFacts DEF Packed
  <2>3. agent'.at = "check" /\ agent'.file = f
    BY <2>1, GoesAgent
  <2> HIDE DEF f
  <2> QED
    BY <1>1, <2>1, <2>2, <2>3 DEF FileInv, Gzips, ByName
<1>5. CASE Check /\ ~Failed
  <2>1. /\ Goes(IF job.encrypted THEN "encrypt" ELSE "upload", agent.file)
        /\ object' = object /\ agent.at = "check"
    BY <1>5 DEF Check, backup
  <2>2. agent'.at \in {"encrypt", "upload"} /\ agent'.file = agent.file
    BY <2>1, GoesAgent
  <2> QED
    BY <1>1, <2>1, <2>2 DEF FileInv, Gzips, ByName
<1>6. CASE Encrypt /\ ~Failed
  <2> DEFINE f == [agent.file EXCEPT !.enc = TRUE]
  <2>1. Goes("upload", f) /\ object' = object /\ agent.at = "encrypt"
    BY <1>6 DEF Encrypt, backup
  <2>2. f.gz = agent.file.gz
    BY FileFacts
  <2>3. agent'.at = "upload" /\ agent'.file = f
    BY <2>1, GoesAgent
  <2> HIDE DEF f
  <2> QED
    BY <1>1, <2>1, <2>2, <2>3 DEF FileInv, Gzips, ByName
<1>7. CASE Upload /\ ~Failed
  <2> DEFINE f == ArtifactName(agent.file)
             g == [f EXCEPT !.items = Front(@)]
  <2>1. /\ object' \in {f, g} /\ Goes("verify", agent.file) /\ agent.at = "upload"
    BY <1>7 DEF Upload, S3Put, LocalPut
  <2>2. /\ f \in Packed /\ f.gz = agent.file.gz /\ f.ext \in {"none", "enc"}
    BY FileFacts DEF ArtifactName, Packed
  <2>3. g.gz = f.gz /\ g.ext = f.ext
    <3> HIDE DEF f
    <3> QED
      BY <2>2 DEF Packed
  <2>4. agent'.at = "verify" /\ agent'.file = agent.file
    BY <2>1, GoesAgent
  <2> HIDE DEF f, g
  <2>5. object'.ext \in {"none", "enc"} /\ object'.gz = agent.file.gz
    BY <2>1, <2>2, <2>3
  <2> QED
    BY <1>1, <2>1, <2>4, <2>5 DEF FileInv, Gzips, ByName
<1>8. CASE (Verify \/ ReportBackup) /\ ~Failed
  <2>1. agent'.at \in {"report", "idle"} /\ object' \in {object, None}
    BY <1>8, GoesAgent DEF Verify, ReportBackup, Recall, DeleteObject
  <2> QED
    BY <1>1, <2>1 DEF FileInv, Gzips, ByName
<1>9. (Dump \/ Compress \/ Check \/ Encrypt \/ Upload \/ Verify \/ ReportBackup)
  BY DEF Backup
<1>10. Failed => object' \in {object, None}
  BY <1>9, GoesAgent DEF Dump, Compress, Check, Encrypt, Upload, Verify, ReportBackup,
     Recall, backup, DeleteObject, FailRun
<1> QED
  BY <1>2, <1>3, <1>4, <1>5, <1>6, <1>7, <1>8, <1>9, <1>10

LEMMA FileStep ==
    ASSUME IInv, FileInv, [Next]_vars
    PROVE  FileInv'
<1>1. CASE UNCHANGED vars
  BY <1>1, FileKept DEF vars
<1>2. CASE Backup
  BY <1>2, FileBackup
<1>3. CASE Poll \/ SendClaim \/ ClaimFails
  <2>1. UNCHANGED <<job, object>> /\ agent'.at \in {"idle", "claiming"}
    BY <1>3 DEF Poll, SendClaim, ClaimFails, data, IInv, AgentInv, AgentRec
  <2> QED
    BY <2>1, FileKept
<1>4. CASE \E q \in Reqs : CreateInsert(q) \/ \E d \in Destinations : CreateCheck(q, d)
  BY <1>4, FileKept DEF CreateInsert, CreateCheck
<1>5. CASE \E m \in wire : ClaimRestore(m)
  <2>1. PICK m \in wire : ClaimRestore(m)
    BY <1>5
  <2>2. /\ UNCHANGED <<job, object>>
        /\ \/ agent' = agent
           \/ agent' = [agent EXCEPT !.at = "fetch", !.list = {}]
           \/ agent' = [agent EXCEPT !.at = "idle", !.id = 0]
    BY <2>1 DEF ClaimRestore, Answered, data
  <2>3. agent' = agent \/ agent'.at \in {"fetch", "idle"}
    BY <2>2 DEF IInv, AgentInv, AgentRec
  <2> QED
    BY <2>2, <2>3, FileKept
<1>6. CASE \E m \in wire : UpdateStatus(m) \/ Lost(m)
  BY <1>6, FileKept DEF UpdateStatus, Lost, data
<1>7. CASE Progress
  BY <1>7, FileKept DEF Progress, restoring
<1>8. CASE Crash \/ ReportRestore
  <2>1. UNCHANGED <<job, object>> /\ agent'.at = "idle"
    BY <1>8 DEF Crash, ReportRestore, Reported, restoring, IInv, AgentInv, AgentRec
  <2> QED
    BY <2>1, FileKept
<1>9. CASE Import \/ ImportFails
  <2>1. UNCHANGED <<job, object>> /\ (At("failed") \/ At("completed"))
    BY <1>9 DEF Import, ImportFails, restoring
  <2>2. agent'.at \in {"failed", "completed"}
    BY <2>1 DEF At, IInv, AgentInv, AgentRec
  <2> QED
    BY <2>1, <2>2, FileKept
<1>10. CASE Fetch
  <2>1. UNCHANGED <<job, object>> /\ agent \in AgentRec /\ job.encrypted \in BOOLEAN
    BY <1>10, FileFacts DEF Fetch, restoring, IInv, AgentInv
  <2>2. CASE At("failed")
    <3>1. agent'.at = "failed"
      BY <2>1, <2>2 DEF At, AgentRec
    <3> QED
      BY <2>1, <3>1, FileKept
  <2>3. CASE /\ object # None
             /\ agent' = [agent EXCEPT !.at = IF job.encrypted THEN "decrypt" ELSE "import",
                                       !.file = Downloaded]
    <3> DEFINE to == IF job.encrypted THEN "decrypt" ELSE "import"
               f == Downloaded
    <3>1. agent'.at = to /\ agent'.file = f
      BY <2>1, <2>3 DEF AgentRec
    <3>2. /\ object # None /\ object \in Packed /\ object.items = Items(job)
          /\ object.enc = job.encrypted
      BY <1>10, <2>3, FileFacts DEF Fetch, IInv, StageInv, StoredIsWhole, RestoreSteps
    <3>3. object.ext \in {"none", "enc"} /\ (ByName => object.gz = Gzips)
      BY <3>2 DEF FileInv
    <3>4. f.items = object.items /\ f.gz = object.gz /\ f.enc = object.enc /\ f.ext # "gz"
      BY <3>2, <3>3 DEF Downloaded, Packed
    <3> HIDE DEF f
    <3>5. /\ agent'.file.items = Items(job) /\ agent'.file.ext # "gz"
          /\ ByName => agent'.file.gz = Gzips
          /\ agent'.file.enc = (agent'.at = "decrypt")
          /\ agent'.at = "decrypt" => job.encrypted
      BY <2>1, <3>1, <3>2, <3>3, <3>4
    <3>6. agent'.at \in {"decrypt", "import"}
      BY <3>1
    <3> QED
      BY <2>1, <3>5, <3>6 DEF FileInv, Gzips, ByName
  <2> QED
    BY <1>10, <2>2, <2>3 DEF Fetch
<1>11. CASE Decrypt
  <2>1. UNCHANGED <<job, object>> /\ agent \in AgentRec /\ agent.at = "decrypt"
    BY <1>11 DEF Decrypt, restoring, IInv, AgentInv
  <2>2. CASE At("failed")
    <3>1. agent'.at = "failed"
      BY <2>1, <2>2 DEF At, AgentRec
    <3> QED
      BY <2>1, <3>1, FileKept
  <2>3. CASE agent' = [agent EXCEPT !.at = "import", !.file.enc = FALSE,
                                    !.file.ext = "dec"]
    <3> DEFINE f == [agent.file EXCEPT !.enc = FALSE, !.ext = "dec"]
    <3>1. agent' = [agent EXCEPT !.at = "import", !.file = f]
      BY <2>1, <2>3 DEF AgentRec
    <3>2. f.items = agent.file.items /\ f.gz = agent.file.gz /\ ~f.enc /\ f.ext = "dec"
          /\ f.enc = FALSE
      BY FileFacts
    <3> HIDE DEF f
    <3>3. agent'.at = "import" /\ agent'.file = f
      BY <2>1, <3>1 DEF AgentRec
    <3> QED
      BY <2>1, <3>2, <3>3 DEF FileInv, Gzips, ByName
  <2> QED
    BY <1>11, <2>2, <2>3 DEF Decrypt
<1> QED
  BY <1>1, <1>2, <1>3, <1>4, <1>5, <1>6, <1>7, <1>8, <1>9, <1>10, <1>11
     DEF Next, Execute, Serve

\* The rows: none loses its destination, none comes back to life.
LEMMA RowsGo ==
    ASSUME IInv, [Next]_vars
    PROVE  \A i \in Ids :
             /\ row[i].status # "none" => row'[i].to = row[i].to /\ row'[i].status # "none"
             /\ row[i].status = "none" /\ row'[i].status # "none"
                  => row'[i].to \in Destinations
<1>1. row \in [Ids -> RowRec]
  BY DEF IInv, RowsInv
<1>2. CASE UNCHANGED row
  BY <1>2
<1>3. CASE Moves
  <2>1. PICK i \in Ids, r \in RowRec :
          /\ CanRestoreTransition(row[i].status, r.status) /\ r.to = row[i].to
          /\ row' = [row EXCEPT ![i] = r]
    BY <1>3 DEF Moves
  <2>2. row'[i] = r /\ \A o \in Ids \ {i} : row'[o] = row[o]
    BY <1>1, <2>1
  <2>3. row[i].status # "none" /\ r.status # "none"
    BY <2>1 DEF CanRestoreTransition
  <2> QED
    BY <2>1, <2>2, <2>3
<1>4. ASSUME NEW d \in Destinations, Adds(d)
      PROVE  \A i \in Ids :
               /\ row[i].status # "none" => row'[i].to = row[i].to
                                            /\ row'[i].status # "none"
               /\ row[i].status = "none" /\ row'[i].status # "none"
                    => row'[i].to \in Destinations
  <2> DEFINE r == [NoRow EXCEPT !.status = "PENDING", !.to = d]
  <2>1. PICK i \in Ids : row[i].status = "none" /\ row' = [row EXCEPT ![i] = r]
    BY <1>4 DEF Adds
  <2>2. r.to = d
    BY DEF NoRow
  <2> HIDE DEF r
  <2>3. row'[i] = r /\ \A o \in Ids \ {i} : row'[o] = row[o]
    BY <1>1, <2>1
  <2> QED
    BY <2>1, <2>2, <2>3
<1> QED
  BY <1>2, <1>3, <1>4, StepInv

\* Only an engine writes to a destination, and to its own.
LEMMA DestStep ==
    ASSUME IInv, [Next]_vars
    PROVE  \/ dest' = dest
           \/ \E x : dest' = [dest EXCEPT ![Target] = x]
<1>1. CASE Import \/ ImportFails \/ Crash
  BY <1>1 DEF Import, ImportFails, Crash, LeftAt
<1>2. CASE [Next]_vars /\ ~(Import \/ ImportFails \/ Crash)
  BY <1>2, BackupStep DEF Next, vars, Backup, Dump, Compress, Check, Encrypt, Upload,
     Verify, ReportBackup, backup, Poll, SendClaim, ClaimFails, Execute, Fetch, Decrypt,
     ReportRestore, Progress, CreateCheck, CreateInsert, Serve, ClaimRestore,
     Answered, UpdateStatus, Lost, data
<1> QED
  BY <1>1, <1>2

LEMMA PlaceStep ==
    ASSUME IInv, PlaceInv, [Next]_vars
    PROVE  PlaceInv'
<1>1. dest' = [d \in Destinations |-> dest'[d]]
  <2>1. ASSUME NEW x, NEW t, dest' = [dest EXCEPT ![t] = x]
        PROVE  dest' = [d \in Destinations |-> dest'[d]]
    BY <2>1 DEF PlaceInv
  <2> QED
    BY <2>1, DestStep DEF PlaceInv
<1>2. ASSUME NEW i \in Ids, row'[i].status # "none" PROVE row'[i].to \in Destinations
  BY <1>2, RowsGo DEF PlaceInv
<1> QED
  BY <1>1, <1>2 DEF PlaceInv

\* A step that begins no restore and tells of none anew.
LEMMA WorkKept ==
    ASSUME IInv, WorkInv, executed' = executed,
           \A m \in wire' : m.is = "report" =>
             m \in wire \/ (m.id = agent.id /\ agent.at \in RestoreSteps
                            /\ m.status = "RUNNING"),
           \/ agent'.at \notin RestoreSteps
           \/ agent.at \in RestoreSteps /\ agent'.id = agent.id
              /\ row'[agent.id] = row[agent.id]
    PROVE  WorkInv'
<1>1. ASSUME NEW m \in wire', m.is = "report" PROVE executed'[m.id] = 1
  BY <1>1 DEF WorkInv
<1>2. ASSUME agent'.at \in RestoreSteps
      PROVE  /\ executed'[agent'.id] = 1 /\ row'[agent'.id].status = "RUNNING"
             /\ ~Tells(agent.id, "COMPLETED")' /\ ~Tells(agent.id, "FAILED")'
  BY <1>2 DEF WorkInv, Tells
<1> QED
  BY <1>1, <1>2 DEF WorkInv

LEMMA AtAgent ==
    ASSUME IInv, NEW s, At(s)
    PROVE  agent'.at = s /\ agent'.id = agent.id /\ agent'.file = agent.file
BY DEF At, IInv, AgentInv, AgentRec

LEMMA ClaimWorks ==
    ASSUME IInv, WorkInv, NEW m \in wire, ClaimRestore(m)
    PROVE  WorkInv'
<1>1. m \in Message /\ m.id \in Ids /\ wire' = wire \ {m} /\ m.is = "claim"
  BY DEF ClaimRestore, IInv, WireInv, Message
<1>2. /\ executed \in [Ids -> 0..1] /\ row \in [Ids -> RowRec]
      /\ \A i \in Ids : executed[i] = 1 => row[i].status \notin {"none", "PENDING"}
      /\ agent \in AgentRec
  BY DEF IInv, RowsInv, AgentInv
<1>3. CASE row[m.id].status = "PENDING" /\ Awaited(m)
  <2>1. /\ agent' = [agent EXCEPT !.at = "fetch", !.list = {}]
        /\ executed' = [executed EXCEPT ![m.id] = @ + 1] /\ m.id = agent.id
        /\ row' = [row EXCEPT ![m.id].status = "RUNNING", ![m.id].started = TRUE]
    BY <1>3 DEF ClaimRestore, Answered, Awaited, Begun
  <2>2. executed[m.id] = 0
    BY <1>1, <1>2, <1>3
  <2>3. executed'[m.id] = 1 /\ \A i \in Ids \ {m.id} : executed'[i] = executed[i]
    BY <1>1, <1>2, <2>1, <2>2
  <2>4. agent'.id = m.id /\ row'[m.id].status = "RUNNING"
    BY <1>1, <1>2, <2>1 DEF AgentRec, RowRec
  <2>5. \A w \in wire : w.is = "report" => w.id \in Ids /\ w.id # m.id
                                          /\ executed[w.id] = 1
    BY <2>2 DEF WorkInv, IInv, WireInv, Message
  <2>6. \A w \in wire' : w.is = "report" => executed'[w.id] = 1
    BY <1>1, <2>3, <2>5
  <2>7. ~Tells(agent.id, "COMPLETED")' /\ ~Tells(agent.id, "FAILED")'
    BY <1>1, <2>4, <2>5 DEF Tells
  <2> QED
    BY <2>3, <2>4, <2>6, <2>7 DEF WorkInv
<1>4. CASE ~(row[m.id].status = "PENDING" /\ Awaited(m))
  <2>1. executed' = executed
    BY <1>4 DEF ClaimRestore, Answered
  <2>2. agent' = agent \/ agent'.at = "idle"
    BY <1>2, <1>4 DEF ClaimRestore, Answered, AgentRec
  <2>3. agent.at \in RestoreSteps => row'[agent.id] = row[agent.id]
    <3>1. row' = row \/ (row[m.id].status = "PENDING" /\ Begun(m.id))
      BY DEF ClaimRestore
    <3>2. agent.at \in RestoreSteps => row[agent.id].status = "RUNNING" /\ agent.id \in Ids
      BY DEF WorkInv, IInv, AgentInv
    <3>3. Begun(m.id) => \A i \in Ids \ {m.id} : row'[i] = row[i]
      BY <1>2 DEF Begun
    <3> QED
      BY <3>1, <3>2, <3>3
  <2>4. \/ agent'.at \notin RestoreSteps
        \/ agent.at \in RestoreSteps /\ agent'.id = agent.id
           /\ row'[agent.id] = row[agent.id]
    <3>1. "idle" \notin RestoreSteps
      BY DEF RestoreSteps
    <3> QED
      BY <2>2, <2>3, <3>1
  <2> QED
    BY <1>1, <2>1, <2>4, WorkKept
<1> QED
  BY <1>3, <1>4

LEMMA UpdateWorks ==
    ASSUME IInv, WorkInv, NEW m \in wire, UpdateStatus(m)
    PROVE  WorkInv'
<1>1. /\ m \in Message /\ m.id \in Ids /\ wire' = wire \ {m} /\ m.is = "report"
      /\ UNCHANGED <<agent, executed>>
  BY DEF UpdateStatus, data, history, IInv, WireInv, Message
<1>2. row \in [Ids -> RowRec]
  BY DEF IInv, RowsInv
<1>3. ASSUME agent.at \in RestoreSteps PROVE row'[agent.id] = row[agent.id]
  <2>1. agent.id \in Ids /\ row[agent.id].status = "RUNNING"
        /\ ~Tells(agent.id, "COMPLETED") /\ ~Tells(agent.id, "FAILED")
    BY <1>3 DEF WorkInv, IInv, AgentInv
  <2>2. CASE m.id = agent.id
    <3>1. m.status = "RUNNING"
      BY <1>1, <2>1, <2>2 DEF Tells, Message
    <3>2. ~CanRestoreTransition(row[m.id].status, m.status)
      BY <2>1, <2>2, <3>1 DEF CanRestoreTransition
    <3> QED
      BY <3>2 DEF UpdateStatus
  <2>3. CASE m.id # agent.id
    BY <1>2, <2>1, <2>3 DEF UpdateStatus, Written
  <2> QED
    BY <2>2, <2>3
<1> QED
  BY <1>1, <1>3, WorkKept

LEMMA InsertWorks ==
    ASSUME IInv, WorkInv, NEW q \in Reqs, CreateInsert(q)
    PROVE  WorkInv'
<1>1. UNCHANGED <<agent, executed, wire>>
  BY DEF CreateInsert, history
<1>2. ASSUME agent.at \in RestoreSteps PROVE row'[agent.id] = row[agent.id]
  <2>1. agent.id \in Ids /\ row[agent.id].status = "RUNNING" /\ row \in [Ids -> RowRec]
    BY <1>2 DEF WorkInv, IInv, AgentInv, RowsInv
  <2>2. CASE UNCHANGED row
    BY <2>2
  <2>3. ASSUME NEW d, Adds(d) PROVE row'[agent.id] = row[agent.id]
    <3>1. PICK i \in Ids : /\ row[i].status = "none"
                           /\ row' = [row EXCEPT ![i] = [NoRow EXCEPT !.status = "PENDING",
                                                                      !.to = d]]
      BY <2>3 DEF Adds
    <3>2. i # agent.id
      BY <2>1, <3>1
    <3> QED
      BY <2>1, <3>1, <3>2
  <2> QED
    BY <2>2, <2>3, InsertRequest
<1> QED
  BY <1>1, <1>2, WorkKept

LEMMA ReportWorks ==
    ASSUME IInv, WorkInv, ReportRestore
    PROVE  WorkInv'
<1>1. /\ agent' = [agent EXCEPT !.at = "idle", !.file = NoFile, !.id = 0]
      /\ executed' = executed /\ agent.at \in RestoreSteps
      /\ \E s : wire' = wire \cup {Report(agent.id, s)}
  BY DEF ReportRestore, Reported, restoring, RestoreSteps
<1>2. agent'.at \notin RestoreSteps
  BY <1>1 DEF IInv, AgentInv, AgentRec, RestoreSteps
<1>3. \A m \in wire' : m.is = "report" => executed[m.id] = 1
  BY <1>1 DEF WorkInv, Report
<1> QED
  BY <1>1, <1>2, <1>3 DEF WorkInv

LEMMA WorkStep ==
    ASSUME IInv, WorkInv, [Next]_vars
    PROVE  WorkInv'
<1>1. CASE UNCHANGED vars
  BY <1>1, WorkKept DEF vars
<1>2. CASE Backup
  <2>1. UNCHANGED <<wire, executed>>
    BY <1>2 DEF Backup, Dump, Compress, Check, Encrypt, Upload, Verify, ReportBackup,
       backup, history
  <2>2. agent'.at \notin RestoreSteps
    <3>1. run' # "COMPLETED" \/ agent'.at = "idle"
      BY <1>2, GoesAgent DEF Backup, Dump, Compress, Check, Encrypt, Upload, Verify,
         ReportBackup, FailRun, IInv, StageInv, BackupSteps
    <3>2. IInv'
      BY <1>2, BackupStep
    <3> QED
      BY <3>1, <3>2 DEF IInv, StageInv, RestoreSteps
  <2> QED
    BY <2>1, <2>2, WorkKept
<1>3. CASE Poll \/ ClaimFails
  <2>1. UNCHANGED <<wire, executed>> /\ agent'.at = "idle"
    BY <1>3 DEF Poll, ClaimFails, history, IInv, AgentInv, AgentRec
  <2> QED
    BY <2>1, WorkKept DEF RestoreSteps
<1>4. CASE SendClaim
  <2>1. /\ executed' = executed /\ agent'.at = "claiming"
        /\ \E i, n : wire' = wire \cup {Claim(i, n)}
    BY <1>4 DEF SendClaim, history, IInv, AgentInv, AgentRec
  <2>2. \A m \in wire' : m.is = "report" => m \in wire
    BY <2>1 DEF Claim
  <2> QED
    BY <2>1, <2>2, WorkKept DEF RestoreSteps
<1>5. CASE \E q \in Reqs : \E d \in Destinations : CreateCheck(q, d)
  BY <1>5, WorkKept DEF CreateCheck, history
<1>6. CASE \E m \in wire : Lost(m)
  BY <1>6, WorkKept DEF Lost, data, rows
<1>7. CASE Progress
  <2>1. UNCHANGED <<executed, row, agent>> /\ agent.at \in RestoreSteps
        /\ wire' = wire \cup {Report(agent.id, "RUNNING")}
    BY <1>7 DEF Progress, restoring, rows, RestoreSteps
  <2>2. \A m \in wire' : m.is = "report" =>
          m \in wire \/ (m.id = agent.id /\ agent.at \in RestoreSteps
                         /\ m.status = "RUNNING")
    BY <2>1 DEF Report
  <2> QED
    BY <2>1, <2>2, WorkKept
<1>8. CASE Crash
  <2>1. UNCHANGED <<wire, executed>> /\ agent'.at = "idle"
    BY <1>8 DEF Crash, IInv, AgentInv, AgentRec
  <2> QED
    BY <2>1, WorkKept DEF RestoreSteps
<1>9. CASE Fetch \/ Decrypt \/ Import \/ ImportFails
  <2>1. UNCHANGED <<executed, row, wire>> /\ agent.at \in RestoreSteps
    BY <1>9 DEF Fetch, Decrypt, Import, ImportFails, restoring, rows, RestoreSteps
  <2>2. agent'.id = agent.id
    BY <1>9, AtAgent DEF Fetch, Decrypt, Import, ImportFails, IInv, AgentInv, AgentRec
  <2> QED
    BY <2>1, <2>2, WorkKept
<1> QED
  BY <1>1, <1>2, <1>3, <1>4, <1>5, <1>6, <1>7, <1>8, <1>9, ClaimWorks, UpdateWorks,
     InsertWorks, ReportWorks DEF Next, Execute, Serve

\* A step after which no restore has come to an end that had not before.
LEMMA EndsKept ==
    ASSUME IInv, NEW status \in {"COMPLETED", "FAILED"}, NEW at \in {"completed", "failed"},
           \A i \in Ids : row'[i].status = status => Ends(i, status, at),
           \A m \in wire' : m.is = "report" /\ m.status = status
             => Ends(m.id, status, at),
           agent'.at = at => agent' = agent
    PROVE  \A i \in Ids : Ends(i, status, at)' => Ends(i, status, at)
<1> SUFFICES ASSUME NEW i \in Ids, Ends(i, status, at)' PROVE Ends(i, status, at)
  OBVIOUS
<1>1. CASE row'[i].status = status
  BY <1>1
<1>2. CASE Tells(i, status)'
  BY <1>2 DEF Tells
<1>3. CASE agent'.at = at /\ agent'.id = i
  BY <1>3 DEF Ends
<1> QED
  BY <1>1, <1>2, <1>3 DEF Ends

LEMMA EndsUnchanged ==
    ASSUME IInv, row' = row, \A m \in wire' : m.is = "report" =>
             m \in wire \/ m.status = "RUNNING",
           NEW status \in {"COMPLETED", "FAILED"}, NEW at \in {"completed", "failed"},
           agent'.at = at => agent' = agent
    PROVE  \A i \in Ids : Ends(i, status, at)' => Ends(i, status, at)
<1>1. \A i \in Ids : row'[i].status = status => Ends(i, status, at)
  BY DEF Ends
<1>2. \A m \in wire' : m.is = "report" /\ m.status = status => Ends(m.id, status, at)
  BY DEF Ends, Tells
<1> QED
  BY <1>1, <1>2, EndsKept

\* A report of the agent's, or a handler that writes one to the row.
LEMMA EndsReported ==
    ASSUME IInv, ReportRestore
    PROVE  \A i \in Ids : (Succeeds(i)' => Succeeds(i)) /\ (Fails(i)' => Fails(i))
<1>1. /\ row' = row /\ agent.at \in {"failed", "completed"}
      /\ wire' = wire \cup {Report(agent.id, IF agent.at = "failed" THEN "FAILED"
                                             ELSE "COMPLETED")}
  BY DEF ReportRestore, Reported, restoring, rows
<1>2. agent'.at = "idle"
  BY DEF ReportRestore, Reported, IInv, AgentInv, AgentRec
<1>3. /\ \A m \in wire' : m.is = "report" /\ m.status = "COMPLETED" => Succeeds(m.id)
      /\ \A m \in wire' : m.is = "report" /\ m.status = "FAILED" => Fails(m.id)
  BY <1>1 DEF Succeeds, Fails, Ends, Tells, Report
<1>4. /\ \A i \in Ids : row'[i].status = "COMPLETED" => Succeeds(i)
      /\ \A i \in Ids : row'[i].status = "FAILED" => Fails(i)
  BY <1>1 DEF Succeeds, Fails, Ends
<1> QED
  BY <1>2, <1>3, <1>4, EndsKept DEF Succeeds, Fails

LEMMA EndsWritten ==
    ASSUME IInv, NEW m \in wire, UpdateStatus(m)
    PROVE  \A i \in Ids : (Succeeds(i)' => Succeeds(i)) /\ (Fails(i)' => Fails(i))
<1>1. /\ m.id \in Ids /\ m.is = "report" /\ wire' = wire \ {m} /\ agent' = agent
      /\ row \in [Ids -> RowRec]
  BY DEF UpdateStatus, data, IInv, WireInv, Message, RowsInv
<1>2. \A i \in Ids : row'[i].status = row[i].status \/ (i = m.id /\ row'[i].status = m.status)
  <2>1. CASE UNCHANGED row
    BY <2>1
  <2>2. CASE Written(m)
    <3> DEFINE r == [row[m.id] EXCEPT !.status = m.status, !.ended = @ \/ Settles(m.status)]
    <3>1. r.status = m.status
      BY <1>1 DEF RowRec
    <3>2. row' = [row EXCEPT ![m.id] = r]
      BY <1>1, <2>2 DEF Written, RowRec
    <3> HIDE DEF r
    <3>3. row'[m.id] = r /\ \A i \in Ids \ {m.id} : row'[i] = row[i]
      BY <1>1, <3>2
    <3> QED
      BY <3>1, <3>3
  <2> QED
    BY <2>1, <2>2 DEF UpdateStatus
<1>3. /\ \A i \in Ids : row'[i].status = "COMPLETED" => Succeeds(i)
      /\ \A i \in Ids : row'[i].status = "FAILED" => Fails(i)
  BY <1>1, <1>2 DEF Succeeds, Fails, Ends, Tells
<1>4. /\ \A w \in wire' : w.is = "report" /\ w.status = "COMPLETED" => Succeeds(w.id)
      /\ \A w \in wire' : w.is = "report" /\ w.status = "FAILED" => Fails(w.id)
  BY <1>1 DEF Succeeds, Fails, Ends, Tells
<1> QED
  BY <1>1, <1>3, <1>4, EndsKept DEF Succeeds, Fails

\* A row that is created or begun has come to no end.
LEMMA EndsBegun ==
    ASSUME IInv, [Next]_vars,
           \/ \E q \in Reqs : CreateInsert(q)
           \/ \E m \in wire : ClaimRestore(m)
    PROVE  \A i \in Ids : (Succeeds(i)' => Succeeds(i)) /\ (Fails(i)' => Fails(i))
<1>1. row \in [Ids -> RowRec] /\ wire \subseteq Message
  BY DEF IInv, RowsInv, WireInv
<1>2. wire' \subseteq wire
  BY DEF CreateInsert, ClaimRestore
<1>3. \A i \in Ids : row'[i].status = row[i].status
                     \/ row'[i].status \in {"PENDING", "RUNNING"}
  <2>1. CASE UNCHANGED row
    BY <2>1
  <2>2. ASSUME NEW d, Adds(d)
        PROVE  \A i \in Ids : row'[i].status = row[i].status
                              \/ row'[i].status \in {"PENDING", "RUNNING"}
    <3> DEFINE r == [NoRow EXCEPT !.status = "PENDING", !.to = d]
    <3>1. PICK i \in Ids : row' = [row EXCEPT ![i] = r]
      BY <2>2 DEF Adds
    <3>2. r.status = "PENDING"
      BY DEF NoRow
    <3> HIDE DEF r
    <3>3. row'[i] = r /\ \A o \in Ids \ {i} : row'[o] = row[o]
      BY <1>1, <3>1
    <3> QED
      BY <3>2, <3>3
  <2>3. ASSUME NEW m \in wire, Begun(m.id)
        PROVE  \A i \in Ids : row'[i].status = row[i].status
                              \/ row'[i].status \in {"PENDING", "RUNNING"}
    <3>0. m.id \in Ids
      BY <1>1 DEF Message
    <3> DEFINE r == [row[m.id] EXCEPT !.status = "RUNNING", !.started = TRUE]
    <3>1. row' = [row EXCEPT ![m.id] = r]
      BY <1>1, <2>3, <3>0 DEF Begun, RowRec
    <3>2. r.status = "RUNNING"
      BY <1>1, <3>0 DEF RowRec
    <3> HIDE DEF r
    <3>3. row'[m.id] = r /\ \A o \in Ids \ {m.id} : row'[o] = row[o]
      BY <1>1, <3>0, <3>1
    <3> QED
      BY <3>2, <3>3
  <2>4. CASE \E q \in Reqs : CreateInsert(q)
    BY <2>1, <2>2, <2>4, InsertRequest
  <2>5. CASE \E m \in wire : ClaimRestore(m)
    BY <2>1, <2>3, <2>5 DEF ClaimRestore
  <2> QED
    BY <2>4, <2>5
<1>4. /\ \A i \in Ids : row'[i].status = "COMPLETED" => Succeeds(i)
      /\ \A i \in Ids : row'[i].status = "FAILED" => Fails(i)
  BY <1>3 DEF Succeeds, Fails, Ends
<1>5. /\ \A w \in wire' : w.is = "report" /\ w.status = "COMPLETED" => Succeeds(w.id)
      /\ \A w \in wire' : w.is = "report" /\ w.status = "FAILED" => Fails(w.id)
  BY <1>2 DEF Succeeds, Fails, Ends, Tells
<1>6. agent' = agent \/ agent'.at \in {"fetch", "idle"}
  BY DEF CreateInsert, ClaimRestore, Answered, IInv, AgentInv, AgentRec
<1>7. /\ agent'.at = "completed" => agent' = agent
      /\ agent'.at = "failed" => agent' = agent
  BY <1>6
<1> QED
  BY <1>4, <1>5, <1>7, EndsKept DEF Succeeds, Fails

\* The steps that end no restore.  An object appears before the first one.
Calm ==
  /\ UNCHANGED <<job, refused>> /\ provoked \subseteq provoked'
  /\ \A i \in Ids : (Succeeds(i)' => Succeeds(i)) /\ (Fails(i)' => Fails(i))
  /\ object' = object \/ \A i \in Ids : ~Fails(i)

\* Those that end one.
Ending == \/ Import \/ ImportFails
          \/ Fetch /\ At("failed")
          \/ Decrypt /\ At("failed")

LEMMA CalmStep ==
    ASSUME IInv, WorkInv, [Next]_vars, ~Ending
    PROVE  Calm /\ (Crash \/ dest' = dest)
<1>1. ASSUME row' = row, \A m \in wire' : m.is = "report" => m \in wire \/ m.status = "RUNNING",
             agent'.at = "completed" => agent' = agent,
             agent'.at = "failed" => agent' = agent
      PROVE  \A i \in Ids : (Succeeds(i)' => Succeeds(i)) /\ (Fails(i)' => Fails(i))
  BY <1>1, EndsUnchanged DEF Succeeds, Fails
<1>2. CASE UNCHANGED vars
  BY <1>1, <1>2 DEF vars, Calm
<1>3. CASE Backup
  <2>1. UNCHANGED <<job, dest, row, wire, provoked, refused>>
    BY <1>3 DEF Backup, Dump, Compress, Check, Encrypt, Upload, Verify, ReportBackup,
       backup, rows, history
  <2>2. agent'.at \notin {"completed", "failed"}
    <3>1. IInv' /\ (run' # "COMPLETED" \/ agent'.at = "idle")
      BY <1>3, BackupStep, GoesAgent DEF Backup, Dump, Compress, Check, Encrypt, Upload,
         Verify, ReportBackup, FailRun, IInv, StageInv, BackupSteps
    <3> QED
      BY <3>1 DEF IInv, StageInv, RestoreSteps
  <2>3. agent.at \in BackupSteps
    BY <1>3 DEF Backup, Dump, Compress, Check, Encrypt, Upload, Verify, ReportBackup,
       BackupSteps
  <2>4. run = "RUNNING" /\ agent.at # "failed"
    BY <2>3 DEF IInv, StageInv, BackupSteps
  <2>5. \A i \in Ids : row[i].status = "none" /\ executed[i] = 0
    BY <2>4 DEF IInv, AskedInv, RowsInv
  <2>6. \A m \in wire : m.is # "report"
    BY <2>5 DEF WorkInv, IInv, WireInv, Message
  <2>7. \A i \in Ids : ~Fails(i)
    BY <2>4, <2>5, <2>6 DEF Fails, Ends, Tells
  <2> QED
    BY <1>1, <2>1, <2>2, <2>7 DEF Calm
<1>4. CASE Poll \/ ClaimFails
  <2>1. UNCHANGED <<job, dest, row, wire, provoked, refused, object>> /\ agent'.at = "idle"
    BY <1>4 DEF Poll, ClaimFails, data, rows, history, IInv, AgentInv, AgentRec
  <2> QED
    BY <1>1, <2>1 DEF Calm
<1>5. CASE SendClaim
  <2>1. /\ UNCHANGED <<job, dest, row, provoked, refused, object>>
        /\ agent'.at = "claiming"
        /\ \E i, n : wire' = wire \cup {Claim(i, n)}
    BY <1>5 DEF SendClaim, data, rows, history, IInv, AgentInv, AgentRec
  <2>2. \A m \in wire' : m.is = "report" => m \in wire
    BY <2>1 DEF Claim
  <2> QED
    BY <1>1, <2>1, <2>2 DEF Calm
<1>6. CASE \/ \E q \in Reqs : \E d \in Destinations : CreateCheck(q, d)
           \/ \E m \in wire : Lost(m)
  <2>1. UNCHANGED <<job, dest, row, provoked, refused, object, agent>>
        /\ wire' \subseteq wire
    BY <1>6 DEF CreateCheck, Lost, data, rows, history
  <2> QED
    BY <1>1, <2>1 DEF Calm
<1>7. CASE Progress
  <2>1. UNCHANGED <<job, dest, row, provoked, refused, object, agent>>
        /\ wire' = wire \cup {Report(agent.id, "RUNNING")}
    BY <1>7 DEF Progress, restoring, rows
  <2>2. \A m \in wire' : m.is = "report" => m \in wire \/ m.status = "RUNNING"
    BY <2>1 DEF Report
  <2> QED
    BY <1>1, <2>1, <2>2 DEF Calm
<1>8. CASE Crash
  <2>1. UNCHANGED <<job, row, provoked, refused, object, wire>> /\ agent'.at = "idle"
    BY <1>8 DEF Crash, rows, IInv, AgentInv, AgentRec
  <2> QED
    BY <1>1, <1>8, <2>1 DEF Calm
<1>9. CASE Fetch \/ Decrypt
  <2>1. UNCHANGED <<job, dest, row, refused, object, wire>> /\ provoked \subseteq provoked'
    BY <1>9 DEF Fetch, Decrypt, Faulted, restoring, rows
  <2>2. agent'.at \in {"decrypt", "import"}
    BY <1>9, FileFacts DEF Fetch, Decrypt, Ending, IInv, AgentInv, AgentRec
  <2> QED
    BY <1>1, <2>1, <2>2 DEF Calm
<1>10. CASE ReportRestore
  BY <1>10, EndsReported DEF ReportRestore, restoring, Calm
<1>11. CASE \E m \in wire : UpdateStatus(m)
  BY <1>11, EndsWritten DEF UpdateStatus, data, history, Calm
<1>12. CASE \/ \E q \in Reqs : CreateInsert(q)
            \/ \E m \in wire : ClaimRestore(m)
  <2>1. UNCHANGED <<job, dest, provoked, refused, object>>
    BY <1>12 DEF CreateInsert, ClaimRestore, Answered, data, history
  <2> QED
    BY <1>12, <2>1, EndsBegun DEF Calm
<1> QED
  BY <1>2, <1>3, <1>4, <1>5, <1>6, <1>7, <1>8, <1>9, <1>10, <1>11, <1>12
     DEF Next, Execute, Serve, Ending

LEMMA ExecutedGrows ==
    ASSUME IInv, [Next]_vars
    PROVE  \A i \in Ids : executed'[i] = 0 => executed[i] = 0
<1>1. executed \in [Ids -> 0..1]
  BY DEF IInv, RowsInv
<1>2. executed' = executed \/ \E i : executed' = [executed EXCEPT ![i] = @ + 1]
  BY DEF Next, vars, Backup, Dump, Compress, Check, Encrypt, Upload, Verify, ReportBackup,
     backup, Poll, SendClaim, ClaimFails, Execute, Fetch, Decrypt, Import, ImportFails,
     ReportRestore, Progress, restoring, Crash, CreateCheck, CreateInsert, Serve,
     ClaimRestore, Answered, UpdateStatus, Lost, history
<1>3. ASSUME NEW o, executed' = [executed EXCEPT ![o] = @ + 1]
      PROVE  \A i \in Ids : executed'[i] = 0 => executed[i] = 0
  BY <1>1, <1>3
<1> QED
  BY <1>2, <1>3

LEMMA WholeCalm ==
    ASSUME DataInv, [Next]_vars, Calm,
           \A i \in Ids : Succeeds(i) /\ Alone(i)' => dest'[row[i].to] = dest[row[i].to]
    PROVE  WholeInv'
<1> SUFFICES ASSUME NEW i \in Ids, Succeeds(i)', Alone(i)', i \notin refused'
             PROVE  Brings(job', dest'[row'[i].to])
  BY DEF WholeInv
<1>0. job' = job /\ refused' = refused
  BY DEF Calm
<1>1. /\ \A o \in Ids : executed[o] = 1 => row[o].status # "none"
      /\ executed \in [Ids -> 0..1]
  BY DEF DataInv, IInv, RowsInv
<1>2. Succeeds(i)
  BY DEF Calm
<1>3. row[i].status # "none"
  BY <1>1, <1>2 DEF Succeeds, Ends, Tells, DataInv, WorkInv, RestoreSteps
<1>4. row'[i].to = row[i].to
  BY <1>3, RowsGo DEF DataInv
<1>5. ASSUME NEW j \in Ids \ {i}, row[j].to = row[i].to
      PROVE  executed[j] = 0 \/ (Succeeds(j) /\ j \notin refused)
  <2>1. CASE row[j].status = "none"
    BY <1>1, <2>1
  <2>2. CASE row[j].status # "none"
    <3>1. row'[j].to = row'[i].to
      BY <1>4, <1>5, <2>2, RowsGo DEF DataInv
    <3>2. executed'[j] = 0 \/ (Succeeds(j)' /\ j \notin refused')
      BY <3>1 DEF Alone
    <3> QED
      BY <1>0, <3>2, ExecutedGrows DEF Calm, DataInv
  <2> QED
    BY <2>1, <2>2
<1>6. Alone(i)
  BY <1>5 DEF Alone
<1>7. Brings(job, dest[row[i].to])
  BY <1>0, <1>2, <1>6 DEF DataInv, WholeInv
<1>8. dest'[row[i].to] = dest[row[i].to]
  BY <1>2
<1> QED
  BY <1>0, <1>4, <1>7, <1>8

\* A crash breaks off the import at hand, and spoils no other destination than
\* its own.
LEMMA CrashSpares ==
    ASSUME DataInv, Crash, NEW i \in Ids, Succeeds(i), Alone(i)'
    PROVE  dest'[row[i].to] = dest[row[i].to]
<1>1. CASE dest' = dest
  BY <1>1
<1>2. CASE agent.at = "import" /\ LeftAt(Target, agent.file)
  <2>0. PICK d \in Ids : d = agent.id
    BY <1>2 DEF DataInv, IInv, AgentInv, RestoreSteps
  <2>1. UNCHANGED <<row, executed, wire>> /\ agent'.at = "idle"
    BY DEF Crash, rows, DataInv, IInv, AgentInv, AgentRec
  <2>2. executed[d] = 1 /\ row[d].status = "RUNNING" /\ ~Tells(d, "COMPLETED")
    BY <1>2, <2>0 DEF DataInv, WorkInv, RestoreSteps
  <2>3. ~Succeeds(d)
    BY <1>2, <2>0, <2>2 DEF Succeeds, Ends
  <2>4. i # d /\ ~Succeeds(d)'
    BY <2>1, <2>2, <2>3 DEF Succeeds, Ends, Tells
  <2>5. row[i].to # row[d].to
    BY <2>0, <2>1, <2>2, <2>4 DEF Alone
  <2>6. PICK x : dest' = [dest EXCEPT ![row[d].to] = x]
    BY <1>2, <2>0 DEF LeftAt, Target
  <2>7. row[i].status # "none"
    BY DEF Succeeds, Ends, Tells, DataInv, WorkInv, IInv, RowsInv, RestoreSteps
  <2>8. row[i].to \in Destinations /\ dest = [c \in Destinations |-> dest[c]]
    BY <2>7 DEF DataInv, PlaceInv
  <2> QED
    BY <2>5, <2>6, <2>8
<1> QED
  BY <1>1, <1>2 DEF Crash

\* The end of a restore: it succeeded, and has written the whole payload; or
\* it failed, or was refused, and says so of whatever else was written there.
LEMMA WholeEnding ==
    ASSUME DataInv, UNCHANGED restoring, UNCHANGED wire, agent.at \in RestoreSteps,
           agent.at # "completed",
           \/ /\ At("failed") /\ refused' = refused
              /\ dest' = dest \/ \E x : dest' = [dest EXCEPT ![Target] = x]
           \/ /\ At("completed") /\ refused' = refused
              /\ \E x : dest' = [dest EXCEPT ![Target] = x] /\ Brings(job, x)
           \/ /\ At("completed") /\ refused' = refused \cup {agent.id}
              /\ \E x : dest' = [dest EXCEPT ![Target] = x]
    PROVE  WholeInv'
<1> SUFFICES ASSUME NEW i \in Ids, Succeeds(i)', Alone(i)', i \notin refused'
             PROVE  Brings(job', dest'[row'[i].to])
  BY DEF WholeInv
<1>0. PICK d \in Ids : d = agent.id
  BY DEF DataInv, IInv, AgentInv
<1>1. /\ row' = row /\ executed' = executed /\ job' = job
      /\ refused' = refused \/ refused' = refused \cup {d}
  BY <1>0 DEF restoring, rows
<1>2. /\ agent'.id = d /\ d \in Ids /\ agent'.at \in {"failed", "completed"}
      /\ agent'.at = "completed" <=> At("completed")
      /\ agent'.at = "failed" => At("failed")
  BY <1>0, AtAgent DEF DataInv
<1>3. /\ executed[d] = 1 /\ row[d].status = "RUNNING" /\ ~Tells(d, "COMPLETED")
      /\ ~Tells(d, "COMPLETED")'
  BY <1>0 DEF DataInv, WorkInv, Tells
<1>4. \A j \in Ids \ {d} : Succeeds(j)' => Succeeds(j)
  BY <1>1, <1>2 DEF Succeeds, Ends, Tells
<1>5. row[d].to \in Destinations /\ dest = [c \in Destinations |-> dest[c]]
  BY <1>2, <1>3 DEF DataInv, PlaceInv
<1>6. CASE row[i].to # row[d].to
  <2>1. i # d /\ Succeeds(i) /\ i \notin refused
    BY <1>1, <1>4, <1>6
  <2>2. ASSUME NEW j \in Ids \ {i}, row[j].to = row[i].to
        PROVE  executed[j] = 0 \/ (Succeeds(j) /\ j \notin refused)
    <3>1. j # d
      BY <1>6, <2>2
    <3> QED
      BY <1>1, <1>4, <2>2, <3>1 DEF Alone
  <2>3. Brings(job, dest[row[i].to])
    BY <2>1, <2>2 DEF DataInv, WholeInv, Alone
  <2>4. dest'[row[i].to] = dest[row[i].to]
    <3>1. dest' = dest \/ \E x : dest' = [dest EXCEPT ![row[d].to] = x]
      BY <1>0 DEF Target
    <3>2. row[i].status # "none"
      BY <2>1 DEF Succeeds, Ends, Tells, DataInv, WorkInv, IInv, RowsInv, RestoreSteps
    <3>3. row[i].to \in Destinations
      BY <3>2 DEF DataInv, PlaceInv
    <3> QED
      BY <1>5, <1>6, <3>1, <3>3
  <2> QED
    BY <1>1, <2>3, <2>4
<1>7. CASE row[i].to = row[d].to /\ agent'.at = "completed" /\ d \notin refused'
  <2>1. ~At("failed") /\ refused' # refused \cup {agent.id}
    BY <1>0, <1>7, AtAgent DEF DataInv
  <2>2. PICK x : dest' = [dest EXCEPT ![row[d].to] = x] /\ Brings(job, x)
    BY <1>0, <2>1 DEF Target
  <2>3. dest'[row[d].to] = x
    BY <1>5, <2>2
  <2> QED
    BY <1>1, <1>7, <2>2, <2>3
<1>8. CASE row[i].to = row[d].to /\ (agent'.at = "failed" \/ d \in refused')
  <2>1. ~(Succeeds(d)' /\ d \notin refused')
    BY <1>1, <1>3, <1>8 DEF Succeeds, Ends
  <2>2. i # d
    BY <2>1
  <2>3. executed'[d] = 0 \/ (Succeeds(d)' /\ d \notin refused')
    BY <1>1, <1>2, <1>8, <2>2 DEF Alone
  <2> QED
    BY <1>1, <1>3, <2>1, <2>3
<1> QED
  BY <1>2, <1>6, <1>7, <1>8

LEMMA KindOf == ASSUME IInv PROVE job \in Jobs /\ job.kind \in Kinds
BY RestoresAssumption DEF IInv, StageInv

LEMMA WholeStep ==
    ASSUME DataInv, [Next]_vars
    PROVE  WholeInv'
<1>1. CASE ~Ending
  <2>1. Calm /\ (Crash \/ dest' = dest)
    BY <1>1, CalmStep DEF DataInv
  <2> QED
    BY <2>1, CrashSpares, WholeCalm
<1>2. CASE Import
  <2> DEFINE end == Restored(job.kind, dest[Target], agent.file.items)
  <2>1. /\ UNCHANGED restoring /\ UNCHANGED wire /\ agent.at = "import"
        /\ agent.file.items = Items(job) /\ refused' = refused
    BY <1>2 DEF Import, DataInv, FileInv
  <2>2. ASSUME end.ok PROVE Brings(job, end.db)
    BY <2>1, <2>2, KindOf, RoundTrip DEF DataInv, Brings
  <2> HIDE DEF end
  <2>3. \/ At("failed") /\ (dest' = dest \/ dest' = [dest EXCEPT ![Target] = end.db])
        \/ At("completed") /\ dest' = [dest EXCEPT ![Target] = end.db] /\ end.ok
    BY <1>2 DEF Import, end
  <2> QED
    BY <2>1, <2>2, <2>3, WholeEnding DEF RestoreSteps
<1>3. CASE ImportFails
  <2>1. \E x : dest' = [dest EXCEPT ![Target] = x]
    BY <1>3 DEF ImportFails, LeftAt
  <2>2. \/ At("failed") /\ refused' = refused
        \/ At("completed") /\ refused' = refused \cup {agent.id}
    BY <1>3 DEF ImportFails
  <2> QED
    BY <1>3, <2>1, <2>2, WholeEnding DEF ImportFails, RestoreSteps
<1>4. CASE (Fetch \/ Decrypt) /\ At("failed")
  BY <1>4, WholeEnding DEF Fetch, Decrypt, RestoreSteps
<1> QED
  BY <1>1, <1>2, <1>3, <1>4 DEF Ending

\* What a restore may fail for: a fault, a destination in use, or a kind of
\* backup that no restore can read.
LEMMA BlameEnding ==
    ASSUME DataInv, UNCHANGED restoring, UNCHANGED wire, agent.at \in RestoreSteps,
           At("failed") \/ At("completed"), provoked \subseteq provoked',
           At("failed") /\ RestorableJob /\ ~HasLinks /\ object # None
             => agent.id \in provoked'
    PROVE  BlameInv'
<1>1. row' = row /\ job' = job /\ object' = object
  BY DEF restoring, rows
<1>2. agent'.id = agent.id /\ (agent'.at = "failed" => At("failed"))
  BY AtAgent DEF DataInv
<1>3. (RestorableJob' <=> RestorableJob) /\ (HasLinks' <=> HasLinks)
  BY <1>1 DEF RestorableJob, HasLinks, Gzips
<1>4. ASSUME NEW i \in Ids, Fails(i)', RestorableJob, ~HasLinks, object # None
      PROVE  i \in provoked'
  <2>1. CASE agent'.at = "failed" /\ agent'.id = i
    BY <1>2, <1>4, <2>1
  <2>2. CASE ~(agent'.at = "failed" /\ agent'.id = i)
    <3>1. Fails(i)
      BY <1>1, <1>4, <2>2 DEF Fails, Ends, Tells
    <3> QED
      BY <1>4, <3>1 DEF DataInv, BlameInv
  <2> QED
    BY <2>1, <2>2
<1> QED
  BY <1>1, <1>3, <1>4 DEF BlameInv

LEMMA BlameStep ==
    ASSUME DataInv, [Next]_vars
    PROVE  BlameInv'
<1>1. CASE ~Ending
  <2>1. Calm
    BY <1>1, CalmStep DEF DataInv
  <2>2. (RestorableJob' <=> RestorableJob) /\ (HasLinks' <=> HasLinks)
    BY <2>1 DEF Calm, RestorableJob, HasLinks, Gzips
  <2> QED
    BY <2>1, <2>2 DEF Calm, DataInv, BlameInv
<1>2. CASE Import
  <2> DEFINE end == Restored(job.kind, dest[Target], agent.file.items)
  <2>1. /\ UNCHANGED restoring /\ UNCHANGED wire /\ agent.at = "import"
        /\ agent.file.items = Items(job) /\ agent.file.ext # "gz"
        /\ ByName => agent.file.gz = Gzips
        /\ agent.file.enc = FALSE
        /\ provoked' = IF dest[Target] # {} THEN provoked \cup {agent.id} ELSE provoked
    BY <1>2 DEF Import, DataInv, FileInv
  <2>2. ASSUME RestorableJob, ~HasLinks, dest[Target] = {}
        PROVE  Opens(agent.file) /\ end.ok
    <3>1. Opens(agent.file)
      BY <2>1, <2>2 DEF RestorableJob, Opens, ByName, Gzips
    <3>2. job.kind = "FILES" => \A e \in ToSet(Archive(job)) : e.kind # "link"
      BY <2>2 DEF HasLinks
    <3>3. Restorable(job.kind)
      BY <2>2 DEF RestorableJob
    <3> QED
      BY <2>1, <2>2, <3>1, <3>2, <3>3, KindOf, EmptyDestination DEF DataInv
  <2>3. Opens(agent.file) /\ end.ok => At("completed")
    BY <1>2 DEF Import
  <2>4. At("completed") => ~At("failed")
    BY AtAgent DEF DataInv
  <2>5. At("failed") \/ At("completed")
    BY <1>2 DEF Import
  <2> HIDE DEF end
  <2>6. At("failed") /\ RestorableJob /\ ~HasLinks => agent.id \in provoked'
    BY <2>1, <2>2, <2>3, <2>4
  <2> QED
    BY <2>1, <2>5, <2>6, BlameEnding DEF RestoreSteps
<1>3. CASE ImportFails
  <2>1. (At("failed") \/ At("completed")) /\ provoked' = provoked \cup {agent.id}
    BY <1>3 DEF ImportFails, Faulted
  <2> QED
    BY <1>3, <2>1, BlameEnding DEF ImportFails, RestoreSteps
<1>4. CASE Fetch /\ At("failed")
  <2>1. agent'.at = "failed"
    BY <1>4, AtAgent DEF DataInv
  <2>2. Faulted \/ (object = None /\ UNCHANGED provoked)
    BY <1>4, <2>1, FileFacts DEF Fetch, DataInv, IInv, AgentInv, AgentRec
  <2> QED
    BY <1>4, <2>2, BlameEnding DEF Fetch, Faulted, RestoreSteps
<1>5. CASE Decrypt /\ At("failed")
  <2>1. agent'.at = "failed" /\ job.encrypted
    BY <1>5, AtAgent DEF Decrypt, DataInv, FileInv
  <2>2. ~(agent' = [agent EXCEPT !.at = "import", !.file.enc = FALSE, !.file.ext = "dec"])
    <3>1. agent \in AgentRec
      BY DEF DataInv, IInv, AgentInv
    <3> QED
      BY <2>1, <3>1 DEF AgentRec
  <2>3. Faulted \/ (job.s3 /\ UNCHANGED provoked)
    BY <1>5, <2>2 DEF Decrypt
  <2> QED
    BY <1>5, <2>1, <2>3, BlameEnding DEF Decrypt, Faulted, RestoreSteps, RestorableJob
<1> QED
  BY <1>1, <1>2, <1>3, <1>4, <1>5 DEF Ending

LEMMA DataStart == Init => DataInv
<1> SUFFICES ASSUME Init PROVE DataInv
  OBVIOUS
<1>1. IInv
  BY InitInv
<1>2. agent.at = "dump" /\ object = None /\ wire = {} /\ agent.id = 0
      /\ \A i \in Ids : row[i].status = "none"
  BY DEF Init, NoRow
<1>3. \A i \in Ids : ~Succeeds(i) /\ ~Fails(i)
  BY <1>2 DEF Succeeds, Fails, Ends, Tells
<1>4. FileInv /\ WorkInv
  BY <1>2 DEF FileInv, WorkInv, RestoreSteps
<1>5. PlaceInv
  BY <1>2 DEF Init, PlaceInv
<1> QED
  BY <1>1, <1>3, <1>4, <1>5 DEF DataInv, WholeInv, BlameInv

LEMMA DataInvariant == Spec => []DataInv
<1>1. DataInv /\ [Next]_vars => DataInv'
  BY StepInv, FileStep, WorkStep, PlaceStep, WholeStep, BlameStep DEF DataInv
<1> QED
  BY <1>1, DataStart, PTL DEF Spec

\* A COMPLETED restore has brought back all that was in the source and was
\* asked for, every fact as it was or reduced by just what its format or its
\* restore loses, and it stays there as long as no other restore that broke off
\* or was refused wrote to the same destination; but for a restore that the
\* database refused unnoticed: for every source, every engine, every size of a
\* batch, whatever was there before, and whatever crashes or is lost
\* (runner.go:632-651, 747-908, restore.go:15-103, mongo_native.go:209-372,
\* mongo_export.go:155-222, 382-461, mssql_exec.go:52-75).
THEOREM RestoredWhole == Spec => []CompletedRestoreIsWhole
<1>1. ASSUME DataInv, NEW i \in Ids, row[i].status = "COMPLETED", Undisturbed(i),
             i \notin refused
      PROVE  HoldsAll(dest[row[i].to])
  <2>1. Succeeds(i) /\ Alone(i)
    BY <1>1 DEF Succeeds, Alone, Ends, Undisturbed
  <2>2. Brings(job, dest[row[i].to])
    BY <1>1, <2>1 DEF DataInv, WholeInv
  <2> QED
    BY <2>2 DEF Brings, HoldsAll
<1>2. DataInv => CompletedRestoreIsWhole
  BY <1>1 DEF CompletedRestoreIsWhole
<1> QED
  BY <1>2, DataInvariant, PTL

\* A backup that a restore can read, of a source that comes back at all, fails
\* to be restored only for a fault, for what was in the destination before or
\* because a cancel had deleted the object (runner.go:675-681, 747-908,
\* mongo_native.go:303-369, mongo_export.go:184-222, 441-450).
THEOREM PlainRestores == Spec => []PlainBackupsRestore
<1>1. DataInv => PlainBackupsRestore
  BY DEF DataInv, BlameInv, Fails, Ends, PlainBackupsRestore
<1> QED
  BY <1>1, DataInvariant, PTL
=============================================================================
