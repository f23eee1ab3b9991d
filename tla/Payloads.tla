------------------------------ MODULE Payloads ------------------------------
(***************************************************************************)
(* What the backup engines write and what the restore engines make of it   *)
(* (agent/internal/agent: backup.go, restore.go, postgres_exec.go,         *)
(* mssql_exec.go, mongo_exec.go, mongo_native.go, mongo_export.go).        *)
(*                                                                         *)
(* A source is a sequence of collections (or tables), or of directory      *)
(* entries in walk order; a destination is a set of facts: the files,      *)
(* tables, documents and indexes in it.  A payload is a sequence of items  *)
(* with a record of how it is packed.  pg_dump, psql, sqlcmd, mongodump    *)
(* and mongorestore are external programs.                                 *)
(***************************************************************************)
EXTENDS Integers, Sequences, FiniteSets, SequencesExt

CONSTANTS
  Collections, \* the source database: <<[name, docs, indexes], ...>>, see below
  Entries,     \* the source directory: <<[name, under, kind], ...>>
  BatchSize    \* documents of one InsertMany (500)

\* A document: its id, a value of a type with a notation as text; the type of
\* its other fields; what it has at the key patterns of indexes; and whether
\* its line of JSON is longer than bufio.Scanner takes (16 MiB).
Shape(d) ==
  d = [id |-> [as |-> d.id.as, text |-> d.id.text], type |-> d.type,
       keys |-> d.keys, large |-> d.large]

\* An index: the ids its partial filter leaves out, the options the restore
\* does not know (filter, collation, weights), and whether the server takes it
\* without them.
IndexShape(i) ==
  i = [name |-> i.name, key |-> i.key, unique |-> i.unique, skips |-> i.skips,
       extras |-> i.extras, stands |-> i.stands]

\* A database has one collection of a name, a collection one document of an id.
ASSUME SourceAssumption ==
  /\ Collections \in Seq(ToSet(Collections)) /\ Entries \in Seq(ToSet(Entries))
  /\ \A i, j \in DOMAIN Collections :
       Collections[i].name = Collections[j].name => i = j
  /\ \A i \in DOMAIN Collections : LET docs == Collections[i].docs IN
       /\ docs \in Seq(ToSet(docs))
       /\ \A k \in DOMAIN docs : Shape(docs[k])
       /\ \A j, k \in DOMAIN docs : docs[j].id = docs[k].id => j = k
       /\ \A x \in Collections[i].indexes : IndexShape(x)
  /\ \A i \in DOMAIN Entries : Entries[i].kind \in {"file", "dir", "link", "special"}

Kinds == {"FILES", "POSTGRES", "MSSQL", "TOOLS", "NATIVE", "JSON", "CSV"}
Databases == Kinds \ {"FILES"}

\* Facts of a destination
File(n) == [is |-> "file", name |-> n]
Dir(n) == [is |-> "dir", name |-> n]
Table(c) == [is |-> "table", in |-> c]
Doc(c, d) == [is |-> "doc", in |-> c, doc |-> d]
Index(c, i) == [is |-> "index", in |-> c, index |-> i]

TablesOf(db) == {f \in db : f.is = "table"}
Named(db, c) == {f \in db : f.is # "file" /\ f.is # "dir" /\ f.in = c}

-----------------------------------------------------------------------------
\* Dumping

\* included: a pattern is the set of the names it matches.
Included(name, job) ==
  /\ job.include = {} \/ \E p \in job.include : name \in p
  /\ \A p \in job.exclude : name \notin p

\* filepath.Walk with SkipDir: an entry below a directory that is not included
\* is never visited.  Sockets, pipes and devices are left out.
Walks(e, job) ==
  /\ \A n \in e.under \cup {e.name} : Included(n, job)
  /\ e.kind # "special"

Walked(job) ==
  LET walk[n \in 0..Len(Entries)] ==
        IF n = 0 THEN <<>>
        ELSE IF Walks(Entries[n], job) THEN Append(walk[n - 1], Entries[n])
        ELSE walk[n - 1]
  IN walk

Archive(job) == Walked(job)[Len(Entries)]

\* Relaxed extended JSON has one notation for every integer; the reader
\* makes an int32 of one that fits.
ToJSON(d) == [d EXCEPT !.type = IF @ = "long" THEN "int" ELSE @]

\* A field is its text.  The restore makes an ObjectID of an id that reads like
\* one: ids of one notation fall together, whatever their types were.
ToCSV(d) == [d EXCEPT !.type = "text", !.id = [as |-> "text", text |-> @.text]]

Marker(c) == <<[is |-> "marker", name |-> c.name]>>
Header(c) == Marker(c) \o <<[is |-> "header"]>>
Frames(c) == <<[is |-> "frames", name |-> c.name, count |-> Len(c.docs),
                indexes |-> c.indexes]>>

Opening(kind, c) ==
  CASE kind = "NATIVE" -> Frames(c)
    [] kind = "CSV" -> Header(c)
    [] OTHER -> Marker(c)

Row(kind, d) ==
  [is |-> "row", doc |-> CASE kind = "JSON" -> ToJSON(d)
                           [] kind = "CSV" -> ToCSV(d)
                           [] OTHER -> d]

Section(kind, c) ==
  Opening(kind, c) \o [k \in DOMAIN c.docs |-> Row(kind, c.docs[k])]

Dumped(kind) ==
  LET dump[n \in 0..Len(Collections)] ==
        IF n = 0 THEN <<>> ELSE dump[n - 1] \o Section(kind, Collections[n])
  IN dump

PerCollection(kind) == Dumped(kind)[Len(Collections)]

\* pg_dump, BACKUP DATABASE and mongodump keep every value.
BackupPostgres   == PerCollection("POSTGRES")
BackupMssql      == PerCollection("MSSQL")
BackupMongoTools == PerCollection("TOOLS")
BackupMongo(job) == PerCollection(job.kind)

Items(job) ==
  CASE job.kind = "FILES" -> Archive(job)
    [] job.kind = "POSTGRES" -> BackupPostgres
    [] job.kind = "MSSQL" -> BackupMssql
    [] job.kind = "TOOLS" -> BackupMongoTools
    [] OTHER -> BackupMongo(job)

\* The pre-checks: nothing to back up is an error, never an empty backup.
NothingToDump(job) ==
  CASE job.kind = "FILES" -> \A e \in ToSet(Archive(job)) : e.kind # "file"
    [] job.kind \in {"POSTGRES", "MSSQL"} -> Collections = <<>>
    [] OTHER -> \A c \in ToSet(Collections) : c.docs = <<>>

-----------------------------------------------------------------------------
\* Restoring, item by item.  s is [db, coll, batch, indexes, ok].

Stopped(s) == [s EXCEPT !.ok = FALSE]

KeyOf(i, d) == d.keys[i.key]
Covers(i, d) == d.id \notin i.skips
Collide(i, d, e) ==
  i.unique /\ Covers(i, d) /\ Covers(i, e) /\ KeyOf(i, d) = KeyOf(i, e)

DocsOf(db, c) == {f.doc : f \in {g \in db : g.is = "doc" /\ g.in = c}}
IndexesOf(db, c) == {f.index : f \in {g \in db : g.is = "index" /\ g.in = c}}

\* The server keeps ids apart, and what its unique indexes say.
Same(s, d, e) ==
  d.id = e.id \/ \E i \in IndexesOf(s.db, s.coll) : Collide(i, d, e)

\* Document j of the batch is refused: E11000.
Clashes(s, j) ==
  \/ \E d \in DocsOf(s.db, s.coll) : Same(s, d, s.batch[j])
  \/ \E h \in 1..(j - 1) : Same(s, s.batch[h], s.batch[j])

\* InsertMany, ordered: the documents before the first refused one are kept.
InsertMany(s) ==
  LET n == Cardinality({k \in DOMAIN s.batch : \A j \in 1..k : ~Clashes(s, j)}) IN
  [s EXCEPT !.db = @ \cup {Table(s.coll)}
                     \cup {Doc(s.coll, s.batch[k]) : k \in 1..n},
            !.batch = <<>>, !.ok = n = Len(s.batch)]

Flush(s) == IF s.batch = <<>> \/ ~s.ok THEN s ELSE InsertMany(s)

\* Of a spec the restore passes on key, name, unique, sparse and expiry.
Rebuilt(i) == [i EXCEPT !.skips = {}, !.extras = {}]

\* One name for two specs, or two names for one.
Conflict(i, j) == i # j /\ (i.name = j.name \/ [i EXCEPT !.name = j.name] = j)

\* One createIndexes command for the collection, refused as a whole.
Refused(s) ==
  LET old == IndexesOf(s.db, s.coll)
      new == {Rebuilt(i) : i \in s.indexes}
  IN  \E i \in new : \/ ~i.stands
                     \/ \E j \in old \cup new : Conflict(i, j)
                     \/ \E d, e \in DocsOf(s.db, s.coll) : d # e /\ Collide(i, d, e)

\* CreateMany.
BuildIndexes(s) ==
  IF ~s.ok THEN s
  ELSE IF Refused(s) THEN Stopped(s)
  ELSE [s EXCEPT !.db = @ \cup {Index(s.coll, Rebuilt(i)) : i \in s.indexes},
                 !.indexes = {}]

\* The end of a collection; u ranges over one value: it is computed once.
Finish(s) == CHOOSE t \in {BuildIndexes(u) : u \in {Flush(s)}} : TRUE

Begin(s, item) ==
  [Finish(s) EXCEPT !.coll = item.name,
                    !.indexes = IF item.is = "frames" THEN item.indexes ELSE {}]

AddRow(s, item) ==
  LET t == [s EXCEPT !.batch = Append(@, item.doc)] IN
  IF Len(t.batch) >= BatchSize THEN Flush(t) ELSE t

\* RestoreMongoJSON: the scanner stops at a line that is too long, and the
\* batch it had is dropped.
TooLong(kind, item) == kind = "JSON" /\ item.doc.large

\* RestoreMongoJSON, RestoreMongoCSV, RestoreMongoNative.
Mongo(kind, s, item) ==
  CASE item.is \in {"marker", "frames"} -> Begin(s, item)
    [] item.is = "header" -> s
    [] item.is = "row" -> IF TooLong(kind, item) THEN Stopped(s) ELSE AddRow(s, item)

\* psql, ON_ERROR_STOP: each statement for itself, and a table that exists
\* is an error.
Psql(s, item) ==
  CASE item.is = "marker" ->
         IF Table(item.name) \in s.db THEN Stopped(s)
         ELSE [s EXCEPT !.db = @ \cup {Table(item.name)}, !.coll = item.name]
    [] item.is = "row" -> [s EXCEPT !.db = @ \cup {Doc(s.coll, item.doc)}]

\* mongorestore --drop
Mongorestore(s, item) ==
  CASE item.is = "marker" ->
         [s EXCEPT !.db = (@ \ Named(@, item.name)) \cup {Table(item.name)},
                   !.coll = item.name]
    [] item.is = "row" -> [s EXCEPT !.db = @ \cup {Doc(s.coll, item.doc)}]

\* RestoreLocal: links are refused, what is there is overwritten.
Untar(s, item) ==
  CASE item.kind = "link" -> Stopped(s)
    [] item.kind = "dir" -> [s EXCEPT !.db = @ \cup {Dir(item.name)}]
    [] item.kind = "file" ->
         [s EXCEPT !.db = @ \cup {Dir(n) : n \in item.under} \cup {File(item.name)}]

Step(kind, s, item) ==
  CASE kind = "FILES" -> Untar(s, item)
    [] kind = "POSTGRES" -> Psql(s, item)
    [] kind = "TOOLS" -> Mongorestore(s, item)
    [] OTHER -> Mongo(kind, s, item)

Empty(db) == [db |-> db, coll |-> "", batch |-> <<>>, indexes |-> {}, ok |-> TRUE]

\* One item, if all went well until now.
Onward(kind, s, item) ==
  CHOOSE t \in {IF u.ok THEN Step(kind, u, item) ELSE u : u \in {s}} : TRUE

\* The state after each number of items.
Trace(kind, db, items) ==
  LET r[n \in 0..Len(items)] ==
        IF n = 0 THEN Empty(db) ELSE Onward(kind, r[n - 1], items[n])
  IN r

Replay(kind, db, items) == Trace(kind, db, items)[Len(items)]

\* RESTORE DATABASE ... WITH REPLACE is one statement of the engine.
Replaced(items) == Replay("POSTGRES", {}, items)

\* The whole restore: what is in the destination afterwards, and whether the
\* engine reported success.
Restored(kind, db, items) ==
  CASE kind = "MSSQL" -> Replaced(items)
    [] kind \in {"JSON", "CSV", "NATIVE"} -> Finish(Replay(kind, db, items))
    [] OTHER -> Replay(kind, db, items)

\* What a restore may leave behind that breaks off: all up to some item, with
\* a part of the batch at hand, or everything; RESTORE DATABASE gives up the
\* database that was there.
Left(kind, db, items) ==
  {Restored(kind, db, items).db}
  \cup CASE kind = "MSSQL" -> {db, {}}
         [] kind \in {"JSON", "CSV", "NATIVE"} ->
              {Flush(Trace(kind, db, items)[n]).db : n \in 0..Len(items)}
         [] OTHER -> {Trace(kind, db, items)[n].db : n \in 0..Len(items)}

-----------------------------------------------------------------------------
\* What a restore ought to bring back, said without following the engines.

\* Everything that was backed up, as it was in the source.
Expected(job) ==
  IF job.kind = "FILES"
  THEN {File(e.name) : e \in {x \in ToSet(Entries) :
          /\ x.kind = "file"
          /\ \A n \in x.under \cup {x.name} : Included(n, job)}}
  ELSE UNION {{Doc(c.name, d) : d \in ToSet(c.docs)}
                \cup (IF job.kind = "NATIVE" THEN {Index(c.name, i) : i \in c.indexes}
                      ELSE IF job.kind \in {"JSON", "CSV"} THEN {}
                      ELSE {Table(c.name)})
              : c \in ToSet(Collections)}

\* What a format or its restore cannot keep: of CSV every type, of JSON the
\* width of an integer, of an archive the options of an index.
Exact(kind, f) ==
  CASE f.is = "doc" -> kind # "CSV" /\ (kind = "JSON" => f.doc.type # "long")
    [] f.is = "index" -> f.index.skips = {} /\ f.index.extras = {}
    [] OTHER -> TRUE

Kept(kind, d) ==
  CASE kind = "JSON" -> ToJSON(d)
    [] kind = "CSV" -> ToCSV(d)
    [] OTHER -> d

\* What comes back in its place.
Reduced(kind, f) ==
  CASE f.is = "doc" -> Doc(f.in, Kept(kind, f.doc))
    [] f.is = "index" -> Index(f.in, Rebuilt(f.index))
    [] OTHER -> f

\* The sources that come back at all: unique indexes hold for all documents,
\* stand by themselves and differ by more than the options that are lost; no
\* line of JSON is too long; ids differ as text.
IndexesRebuild(c) ==
  \A i \in c.indexes :
    /\ i.stands
    /\ \A j \in c.indexes : ~Conflict(Rebuilt(i), Rebuilt(j))
    /\ i.unique => \A d, e \in ToSet(c.docs) : KeyOf(i, d) = KeyOf(i, e) => d = e

Restorable(kind) ==
  \A c \in ToSet(Collections) :
    CASE kind = "NATIVE" -> IndexesRebuild(c)
      [] kind = "JSON" -> \A d \in ToSet(c.docs) : ~d.large
      [] kind = "CSV" -> \A d, e \in ToSet(c.docs) : d.id.text = e.id.text => d = e
      [] OTHER -> TRUE
=============================================================================
