----------------------------- MODULE MCRestores -----------------------------
(***************************************************************************)
(* Instances of Restores for TLC.                                          *)
(***************************************************************************)
EXTENDS Restores

Document(i, t, k) == [id |-> [as |-> "int", text |-> i], type |-> t,
                      keys |-> [a |-> k], large |-> FALSE]

IndexOn(n, u, skips, extras) ==
  [name |-> n, key |-> "a", unique |-> u, skips |-> skips, extras |-> extras,
   stands |-> TRUE]

\* Two documents in a batch of two and one over, an empty collection, a unique
\* index and a partial one, which the restore makes a full one.
MCCollections ==
  <<[name |-> "a", docs |-> <<Document(1, "long", 1), Document(2, "text", 2),
                              Document(3, "text", 3)>>,
     indexes |-> {IndexOn("unique", TRUE, {}, {})}],
    [name |-> "b", docs |-> <<>>, indexes |-> {}],
    [name |-> "c", docs |-> <<Document(1, "int", 1)>>,
     indexes |-> {IndexOn("partial", FALSE, {[as |-> "int", text |-> 1]}, {"filter"})}]>>

Entry(n, u, k) == [name |-> n, under |-> u, kind |-> k]

MCEntries ==
  <<Entry("d", {}, "dir"), Entry("d/x", {"d"}, "file"), Entry("p", {}, "special"),
    Entry("y", {}, "file"), Entry("z", {}, "link")>>

Job(k, c, e, s, inc, exc) ==
  [kind |-> k, compressed |-> c, encrypted |-> e, s3 |-> s,
   include |-> inc, exclude |-> exc]

Links == {{"z"}}

MCJobs ==
  {Job(k, c, FALSE, s, {}, Links) : k \in Kinds, c \in BOOLEAN, s \in {FALSE}}
  \cup {Job(k, FALSE, e, TRUE, {}, Links) : k \in {"FILES", "NATIVE"}, e \in BOOLEAN}
  \cup {Job(k, TRUE, TRUE, FALSE, {}, Links) : k \in {"FILES", "JSON"}}
  \cup {Job("FILES", TRUE, FALSE, FALSE, {}, {}),
        Job("FILES", FALSE, FALSE, FALSE, {{"d/x", "y"}}, {}),
        Job("FILES", FALSE, FALSE, FALSE, {{"nothing"}}, {})}

\* Nothing, or what an earlier import of the second collection left.
MCContents == {{}, {Table("c"), Doc("c", Document(1, "int", 1))}}

-----------------------------------------------------------------------------
\* The Mongo restores alone, over all sources of up to three documents and two
\* indexes: what comes back, and which sources do not come back at all.

Id(as, text) == [as |-> as, text |-> text]

SomeDocs ==
  {[id |-> i, type |-> "long", keys |-> [a |-> k], large |-> l] :
     i \in {Id("int", 1), Id("text", 1), Id("int", 2)}, k \in 1..2, l \in BOOLEAN}

SomeIndexes ==
  {IndexOn("plain", FALSE, {}, {}), IndexOn("unique", TRUE, {}, {}),
   IndexOn("partial", TRUE, {Id("int", 1)}, {"filter"}),
   [IndexOn("sound", FALSE, {}, {"weights"}) EXCEPT !.stands = FALSE]}

Sources ==
  {<<[name |-> "a", docs |-> docs, indexes |-> indexes], MCCollections[3]>> :
     docs \in {q \in UNION {[1..n -> SomeDocs] : n \in 0..3} :
                \A j, k \in DOMAIN q : q[j].id = q[k].id => j = k},
     indexes \in {x \in SUBSET SomeIndexes : Cardinality(x) <= 2}}

Sound(source) ==
  \A c \in ToSet(source) : \A i \in c.indexes :
    \A d, e \in ToSet(c.docs) : Collide(i, d, e) => d = e

Of(source) == INSTANCE Payloads WITH Collections <- source

\* A restore into an empty database succeeds exactly when the source is
\* Restorable, and then nothing but the reduced facts is there
\* (mongo_native.go:209-372, mongo_export.go:155-222, 382-461).
ASSUME EnginesRestore ==
  \A source \in {x \in Sources : Sound(x)} : \A kind \in {"NATIVE", "JSON", "CSV"} :
    \E end \in {Of(source)!Restored(kind, {}, Of(source)!PerCollection(kind))} :
      /\ end.ok <=> Of(source)!Restorable(kind)
      /\ end.ok => {f \in end.db : f.is # "table"} =
                   {Of(source)!Reduced(kind, f) : f \in Of(source)!Expected([kind |-> kind])}
=============================================================================
