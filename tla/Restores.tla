------------------------------ MODULE Restores ------------------------------
(***************************************************************************)
(* The way of the data: one backup from its source to the storage target,  *)
(* and restores of it from the request of an operator to the destination   *)
(* (server/internal/handlers/restore.go, agent_work.go; agent/internal/    *)
(* agent/runner.go, crypto.go; agent/internal/storage).                    *)
(*                                                                         *)
(* The agent does one thing at a time.  Its HTTP calls may be lost, may    *)
(* time out and be handled later; a handler is atomic but for Create,      *)
(* which checks before it inserts.  What the run's row goes through        *)
(* meanwhile is module AgentRun; the engines are module Payloads.          *)
(***************************************************************************)
EXTENDS Payloads

CONSTANTS
  Jobs,         \* backup jobs: [kind, compressed, encrypted, s3, include, exclude]
  MaxRestores,  \* bound: restores that are created
  Destinations, \* destination paths or target databases
  Contents,     \* what may be in a destination at first: sets of facts
  Reqs,         \* Create requests
  MaxClaims,    \* bound: claims the agent sends
  None

\* A payload on its way: whole, cut short by S3, or none.
Payload == {<<>>} \cup {Items(j) : j \in Jobs} \cup {Front(Items(j)) : j \in Jobs}
Packed == [items : Payload, gz : BOOLEAN, enc : BOOLEAN,
          ext : {"none", "gz", "enc", "tmp", "dec"}]

ASSUME RestoresAssumption ==
  /\ MaxRestores \in Nat /\ MaxClaims \in Nat
  /\ \A j \in Jobs : /\ j.kind \in Kinds
                     /\ {j.compressed, j.encrypted, j.s3} \subseteq BOOLEAN
  /\ None \notin Packed /\ None \notin Destinations

Ids == 1..MaxRestores

VARIABLES
  job,      \* the backup job
  run,      \* status of its run
  agent,    \* [at, file, id, list, claims]: step, file in hand, restore, poll
  temps,    \* temporary files on the agent's disk
  object,   \* the stored object, or None
  row,      \* restore rows
  req,      \* Create between check and insert
  wire,     \* claims and reports on their way
  dest,     \* contents of the destinations
  executed, \* history: how often the agent began each restore
  provoked, \* history: restores that met a fault or a destination in use
  orphaned, \* history: running restores the agent no longer works on
  refused,  \* history: restores the database engine refused unnoticed
  recalled, \* history: a cancel was seen when the backup was stored
  crashed   \* history: the agent's process died once

vars == <<job, run, agent, temps, object, row, req, wire, dest, executed,
          provoked, orphaned, refused, recalled, crashed>>
rows == <<row, req>>
history == <<executed, provoked, orphaned, refused, recalled, crashed>>

NoFile == [items |-> <<>>, gz |-> FALSE, enc |-> FALSE, ext |-> "none"]

TypeOK ==
  /\ job \in Jobs
  /\ run \in {"RUNNING", "COMPLETED", "FAILED", "CANCELLED", "unreported"}
  /\ agent.at \in {"dump", "compress", "check", "encrypt", "upload", "verify",
                   "report", "idle", "claiming", "fetch", "decrypt", "import",
                   "failed", "completed"}
  /\ agent.list \subseteq Ids /\ agent.id \in Ids \cup {0}
  /\ agent.claims \in 0..MaxClaims
  /\ agent.file \in Packed /\ object \in Packed \cup {None}
  /\ temps \subseteq {"dump", "gz", "enc", "tmp", "dec"}
  /\ \A i \in Ids : row[i].status \in {"none", "PENDING", "RUNNING",
                                       "COMPLETED", "FAILED"}
  /\ \A i \in Ids : row[i].status \in {"COMPLETED", "FAILED"} <=> row[i].ended
  /\ \A m \in wire : m.id \in Ids
  /\ executed \in [Ids -> 0..1]
  /\ orphaned \subseteq Ids /\ provoked \subseteq Ids /\ refused \subseteq provoked
  /\ {recalled, crashed} \subseteq BOOLEAN

NoRow == [status |-> "none", to |-> None, started |-> FALSE, ended |-> FALSE]

Init ==
  /\ job \in Jobs /\ run = "RUNNING"
  /\ agent = [at |-> "dump", file |-> NoFile, id |-> 0, list |-> {}, claims |-> 0]
  /\ temps = {} /\ object = None /\ wire = {}
  /\ row = [i \in Ids |-> NoRow] /\ req = [q \in Reqs |-> None]
  /\ dest \in [Destinations -> Contents]
  /\ executed = [i \in Ids |-> 0]
  /\ provoked = {} /\ orphaned = {} /\ refused = {}
  /\ recalled = FALSE /\ crashed = FALSE

-----------------------------------------------------------------------------
\* executeBackup

Goes(to, file) == agent' = [agent EXCEPT !.at = to, !.file = file]

backup == <<object, rows, wire, dest, history, job>>

\* failRun; the deferred removals; a half-written .gz is not among them.
FailRun(left) ==
  /\ run' = "FAILED" /\ temps' = left /\ Goes("idle", NoFile)

\* GzipFile after the dump; FILES and mongodump compress as they write, the
\* native archive and BACKUP DATABASE are left alone.
Gzips == job.compressed /\ job.kind \in {"POSTGRES", "JSON", "CSV"}
Inline == job.kind = "TOOLS" \/ (job.kind = "FILES" /\ job.compressed)

Dump ==
  /\ agent.at = "dump"
  /\ \/ /\ ~NothingToDump(job)
        /\ temps' = {"dump"} /\ UNCHANGED run
        /\ Goes(IF Gzips THEN "compress" ELSE "check",
                [items |-> Items(job), gz |-> Inline, enc |-> FALSE, ext |-> "none"])
     \/ FailRun({})
  /\ UNCHANGED backup

Compress ==
  /\ agent.at = "compress"
  /\ \/ /\ temps' = {"gz"} /\ UNCHANGED run
        /\ Goes("check", [agent.file EXCEPT !.gz = TRUE, !.ext = "gz"])
     \/ FailRun({"gz"})
  /\ UNCHANGED backup

\* The post-backup check of the size.
Check ==
  /\ agent.at = "check"
  /\ IF agent.file.items = <<>> THEN FailRun({})
     ELSE /\ Goes(IF job.encrypted THEN "encrypt" ELSE "upload", agent.file)
          /\ UNCHANGED <<run, temps>>
  /\ UNCHANGED backup

\* EncryptFile with a fresh key, which the reports hand to the server.
Encrypt ==
  /\ agent.at = "encrypt"
  /\ \/ /\ temps' = temps \cup {"enc"} /\ UNCHANGED run
        /\ Goes("upload", [agent.file EXCEPT !.enc = TRUE])
     \/ FailRun({})
  /\ UNCHANGED backup

\* The object's name is job_run, or job_run.enc, without the dump's extension.
ArtifactName(f) == [f EXCEPT !.ext = IF job.encrypted THEN "enc" ELSE "none"]

\* The local store counts the bytes it wrote; S3 may keep less than it was
\* given, since Put answers with the size it was called with.
LocalPut(f) == {f}
S3Put(f) == {f, [f EXCEPT !.items = Front(@)]}

Upload ==
  /\ agent.at = "upload"
  /\ LET f == ArtifactName(agent.file) IN
     \/ /\ object' \in IF job.s3 THEN S3Put(f) ELSE LocalPut(f)
        /\ Goes("verify", agent.file) /\ UNCHANGED <<run, temps>>
     \/ FailRun({}) /\ UNCHANGED object
  /\ UNCHANGED <<rows, wire, dest, history, job>>

\* Mutant: the object need only exist.
VerifyPresence ==
  /\ agent.at = "verify"
  /\ \/ Goes("report", NoFile) /\ UNCHANGED <<run, temps>>
     \/ FailRun({})
  /\ UNCHANGED backup

\* HEAD: the sizes are compared; the checksum of an S3 object is the one Put
\* sent along.  A failed HEAD leaves the object where it is.
SizeMatches == Len(object.items) = Len(agent.file.items)
DeleteObject == object' = None

Verify ==
  /\ agent.at = "verify"
  /\ \/ /\ SizeMatches
        /\ Goes("report", NoFile) /\ UNCHANGED <<object, run, temps>>
     \/ ~SizeMatches /\ DeleteObject /\ FailRun({})
     \/ FailRun({}) /\ UNCHANGED object
  /\ UNCHANGED <<rows, wire, dest, history, job>>

\* The reports up to COMPLETED.  A cancel that is seen with the answer to one
\* of them, the last one too, deletes the object, as far as the store lets it.
Recall ==
  /\ run' \in {"COMPLETED", "CANCELLED", "unreported"}
  /\ recalled' = TRUE /\ (DeleteObject \/ UNCHANGED object)

\* The deferred removals.
ReportBackup ==
  /\ agent.at = "report" /\ temps' = {} /\ Goes("idle", NoFile)
  /\ \/ run' \in {"COMPLETED", "unreported"} /\ UNCHANGED <<object, recalled>>
     \/ Recall
  /\ UNCHANGED <<job, rows, wire, dest, executed, provoked, orphaned, refused, crashed>>

-----------------------------------------------------------------------------
\* RestoreHandler.Create

Live(d) == {i \in Ids : row[i].status = "PENDING" /\ row[i].to = d}
Unused == {i \in Ids : row[i].status = "none"}

\* Only a COMPLETED run; a live restore of the same key is the answer.
CreateCheck(q, d) ==
  /\ req[q] = None /\ run = "COMPLETED"
  /\ req' = [req EXCEPT ![q] = IF Live(d) = {} THEN d ELSE "answered"]
  /\ UNCHANGED <<job, run, agent, temps, object, row, wire, dest, history>>

Inserted(d) ==
  LET i == Min(Unused) IN
  row' = [row EXCEPT ![i] = [NoRow EXCEPT !.status = "PENDING", !.to = d]]

\* Mutant: the database has no unique index.
InsertUnguarded(q) ==
  /\ req[q] \in Destinations
  /\ Unused # {} /\ Inserted(req[q])
  /\ req' = [req EXCEPT ![q] = "answered"]
  /\ UNCHANGED <<job, run, agent, temps, object, wire, dest, history>>

\* idx_restores_pending_dedupe: the loser of the race returns the winner.
CreateInsert(q) ==
  /\ req[q] \in Destinations
  /\ IF Live(req[q]) = {} THEN Unused # {} /\ Inserted(req[q])
                          ELSE UNCHANGED row
  /\ req' = [req EXCEPT ![q] = "answered"]
  /\ UNCHANGED <<job, run, agent, temps, object, wire, dest, history>>

-----------------------------------------------------------------------------
\* pollRestores, ClaimRestore, UpdateStatus

data == <<job, run, temps, object, dest>>

Claim(i, n) == [is |-> "claim", id |-> i, n |-> n, status |-> "RUNNING"]
Report(i, status) == [is |-> "report", id |-> i, n |-> 0, status |-> status]

\* PendingRestores, in the order of creation.
Poll ==
  /\ agent.at = "idle" /\ agent.list = {}
  /\ \E i \in Ids : row[i].status = "PENDING"
  /\ agent' = [agent EXCEPT !.list = {i \in Ids : row[i].status = "PENDING"}]
  /\ UNCHANGED <<data, rows, wire, history>>

SendClaim ==
  /\ agent.at = "idle" /\ agent.list # {} /\ agent.claims < MaxClaims
  /\ LET i == Min(agent.list) IN
     /\ agent' = [agent EXCEPT !.at = "claiming", !.id = i, !.list = @ \ {i},
                               !.claims = @ + 1]
     /\ wire' = wire \cup {Claim(i, agent.claims + 1)}
  /\ UNCHANGED <<data, rows, history>>

\* The call fails, or the HTTP client's timeout passes: the next in the list.
ClaimFails ==
  /\ agent.at = "claiming"
  /\ agent' = [agent EXCEPT !.at = "idle", !.id = 0]
  /\ UNCHANGED <<data, rows, wire, history>>

Awaited(m) == agent.at = "claiming" /\ m.id = agent.id /\ m.n = agent.claims

\* The claim is answered with the work, or with an error.  A restore that
\* begins drops the rest of the list.
Answered(m, granted) ==
  LET works == granted /\ Awaited(m) IN
  /\ agent' = IF works THEN [agent EXCEPT !.at = "fetch", !.list = {}]
              ELSE IF Awaited(m) THEN [agent EXCEPT !.at = "idle", !.id = 0]
              ELSE agent
  /\ executed' = IF works THEN [executed EXCEPT ![m.id] = @ + 1] ELSE executed
  /\ orphaned' = IF granted /\ ~works THEN orphaned \cup {m.id} ELSE orphaned
  /\ UNCHANGED <<data, req, provoked, refused, recalled, crashed>>

Begun(i) == row' = [row EXCEPT ![i].status = "RUNNING", ![i].started = TRUE]

\* One UPDATE conditioned on PENDING; no row: 409.
ClaimRestore(m) ==
  /\ m \in wire /\ m.is = "claim" /\ wire' = wire \ {m}
  /\ IF row[m.id].status = "PENDING" THEN Begun(m.id) /\ Answered(m, TRUE)
                                     ELSE UNCHANGED row /\ Answered(m, FALSE)

Settles(status) == status \in {"COMPLETED", "FAILED"}

CanRestoreTransition(from, to) ==
  \/ from = "PENDING" /\ to \in {"RUNNING", "FAILED"}
  \/ from = "RUNNING" /\ to \in {"COMPLETED", "FAILED"}

Written(m) ==
  row' = [row EXCEPT ![m.id].status = m.status,
                     ![m.id].ended = @ \/ Settles(m.status)]

\* A repeated or an illegal report changes nothing.
UpdateStatus(m) ==
  /\ m \in wire /\ m.is = "report" /\ wire' = wire \ {m}
  /\ IF CanRestoreTransition(row[m.id].status, m.status) THEN Written(m)
                                                         ELSE UNCHANGED row
  /\ UNCHANGED <<data, req, agent, history>>

Lost(m) ==
  /\ m \in wire /\ wire' = wire \ {m}
  /\ orphaned' = IF Settles(m.status) THEN orphaned \cup {m.id} ELSE orphaned
  /\ UNCHANGED <<data, rows, agent, executed, provoked, refused, recalled, crashed>>

-----------------------------------------------------------------------------
\* executeRestore

restoring == <<job, run, object, rows, executed, orphaned, recalled, crashed>>
At(step) == agent' = [agent EXCEPT !.at = step]
Faulted == provoked' = provoked \cup {agent.id}

\* Mutant: a download that fails is not reported.
FetchSilently ==
  /\ agent.at = "fetch"
  /\ \/ /\ object # None
        /\ agent' = [agent EXCEPT !.at = IF job.encrypted THEN "decrypt" ELSE "import",
                       !.file = IF job.s3 THEN [object EXCEPT !.ext = "tmp"] ELSE object]
        /\ temps' = IF job.s3 THEN {"tmp"} ELSE {}
        /\ UNCHANGED provoked
     \/ /\ agent' = [agent EXCEPT !.at = "idle", !.id = 0]
        /\ Faulted /\ UNCHANGED temps
  /\ UNCHANGED <<restoring, refused, wire, dest>>

\* An S3 object is downloaded to a temporary file, after HEAD and the
\* disk-space check; a local one is read where it lies.
Downloaded == IF job.s3 THEN [object EXCEPT !.ext = "tmp"] ELSE object

\* storageForRestore and the download; a cancel may have deleted the object.
Fetch ==
  /\ agent.at = "fetch"
  /\ \/ /\ object # None
        /\ agent' = [agent EXCEPT !.at = IF job.encrypted THEN "decrypt" ELSE "import",
                                  !.file = Downloaded]
        /\ temps' = IF job.s3 THEN {"tmp"} ELSE {}
        /\ UNCHANGED provoked
     \/ object = None /\ At("failed") /\ UNCHANGED <<temps, provoked>>
     \/ At("failed") /\ Faulted /\ UNCHANGED temps
  /\ UNCHANGED <<restoring, refused, wire, dest>>

\* DecryptFile opens rs.StoragePath, which is no local file when the object
\* is in S3.  A failure removes the partial output.
Decrypt ==
  /\ agent.at = "decrypt"
  /\ \/ /\ ~job.s3
        /\ agent' = [agent EXCEPT !.at = "import", !.file.enc = FALSE, !.file.ext = "dec"]
        /\ temps' = temps \cup {"dec"} /\ UNCHANGED provoked
     \/ /\ job.s3 /\ At("failed") /\ UNCHANGED <<temps, provoked>>
     \/ At("failed") /\ Faulted /\ UNCHANGED temps
  /\ UNCHANGED <<restoring, refused, wire, dest>>

\* Mutant: tar too is unpacked by the name of the file.
OpensByName(f) == f.enc = FALSE /\ f.gz = (f.ext = "gz")

\* The engine can read the file: RestoreLocal sniffs the gzip magic,
\* mongorestore is told, psql and the JSON and CSV readers go by the name.
Opens(f) ==
  /\ ~f.enc
  /\ job.kind \in {"POSTGRES", "JSON", "CSV"} => f.gz = (f.ext = "gz")

Target == row[agent.id].to

\* RestoreLocal reports RUNNING from time to time.
Progress ==
  /\ agent.at = "import" /\ job.kind = "FILES"
  /\ wire' = wire \cup {Report(agent.id, "RUNNING")}
  /\ UNCHANGED <<restoring, agent, temps, dest, provoked, refused>>

\* Mutant: the engine's error is not looked at.
ImportUnchecked ==
  /\ agent.at = "import" /\ Opens(agent.file)
  /\ dest' = [dest EXCEPT ![Target] = Restored(job.kind, @, agent.file.items).db]
  /\ provoked' = IF dest[Target] # {} THEN provoked \cup {agent.id} ELSE provoked
  /\ At("completed") /\ UNCHANGED <<restoring, refused, wire, temps>>

\* The engine, to the end.
Import ==
  /\ agent.at = "import" /\ UNCHANGED <<restoring, refused, wire, temps>>
  /\ LET end == Restored(job.kind, dest[Target], agent.file.items) IN
     IF Opens(agent.file)
     THEN /\ dest' = [dest EXCEPT ![Target] = end.db]
          /\ At(IF end.ok THEN "completed" ELSE "failed")
     ELSE At("failed") /\ UNCHANGED dest
  /\ provoked' = IF dest[Target] # {} THEN provoked \cup {agent.id} ELSE provoked

\* The target after an import that broke off.
LeftAt(d, file) ==
  \E left \in Left(job.kind, dest[d], file.items) : dest' = [dest EXCEPT ![d] = left]

\* The connection, the disk or the tool fails on the way.  sqlcmd, called
\* without -b, ends well when the server refuses RESTORE DATABASE.
ImportFails ==
  /\ agent.at = "import" /\ Opens(agent.file)
  /\ \/ At("failed") /\ UNCHANGED refused
     \/ job.kind = "MSSQL" /\ At("completed") /\ refused' = refused \cup {agent.id}
  /\ Faulted /\ UNCHANGED <<restoring, wire, temps>>
  /\ LeftAt(Target, agent.file)

Reported ==
  /\ agent.at \in {"failed", "completed"}
  /\ wire' = wire \cup {Report(agent.id, IF agent.at = "failed" THEN "FAILED"
                                         ELSE "COMPLETED")}
  /\ agent' = [agent EXCEPT !.at = "idle", !.file = NoFile, !.id = 0]

\* Mutant: the decrypted file is kept.
ReportKeepsFiles ==
  /\ Reported /\ temps' = temps \ {"tmp"}
  /\ UNCHANGED <<restoring, dest, provoked, refused>>

\* UpdateRestoreStatus, once; the deferred removals.
ReportRestore ==
  /\ Reported /\ temps' = {}
  /\ UNCHANGED <<restoring, dest, provoked, refused>>

-----------------------------------------------------------------------------
\* The agent's process dies and is started again; it knows of nothing.  An
\* import breaks off.
Crash ==
  /\ ~crashed /\ crashed' = TRUE
  /\ agent' = [agent EXCEPT !.at = "idle", !.file = NoFile, !.id = 0, !.list = {}]
  /\ orphaned' = IF agent.at \in {"fetch", "decrypt", "import", "failed", "completed"}
                 THEN orphaned \cup {agent.id} ELSE orphaned
  /\ run' = IF run = "RUNNING" THEN "unreported" ELSE run
  /\ IF agent.at = "import" /\ Opens(agent.file) THEN LeftAt(Target, agent.file)
                                                 ELSE UNCHANGED dest
  /\ UNCHANGED <<job, temps, object, rows, wire, executed, provoked, refused, recalled>>

Backup ==
  Dump \/ Compress \/ Check \/ Encrypt \/ Upload \/ Verify \/ ReportBackup

Execute ==
  Fetch \/ Decrypt \/ Import \/ ImportFails \/ ReportRestore

Serve(m) == ClaimRestore(m) \/ UpdateStatus(m)

Next ==
  \/ Backup \/ Poll \/ SendClaim \/ ClaimFails \/ Execute \/ Progress \/ Crash
  \/ \E q \in Reqs : \E d \in Destinations : CreateCheck(q, d)
  \/ \E q \in Reqs : CreateInsert(q)
  \/ \E m \in wire : Serve(m) \/ Lost(m)

\* AGENT_JOB_TIMEOUT, the tools' timeouts and the HTTP client's bound every
\* step of the agent; a message arrives or is lost.
Fairness ==
  /\ WF_vars(Backup \/ Poll \/ SendClaim \/ Execute)
  /\ WF_vars(\E m \in wire : Serve(m))

Spec == Init /\ [][Next]_vars /\ Fairness

-----------------------------------------------------------------------------
\* Properties

\* A COMPLETED run has its whole payload in the store, encrypted if its job
\* says so; the object may be gone only for a cancel that was seen when it was
\* stored already (runner.go:632-681).
StoredIsWhole ==
  run = "COMPLETED" => IF object = None THEN recalled
                       ELSE object.items = Items(job) /\ object.enc = job.encrypted

\* What a COMPLETED restore's destination holds is all that was in the source
\* and was asked for: each fact as it was, or, where the format or its restore
\* loses some of it, that fact reduced by just this: of CSV all types, of JSON
\* the width of integers, of an archive the options of indexes.  Whatever the
\* batches, the collections and what was there before; but for a restore that
\* the database refused unnoticed, and one disturbed by another that broke off
\* in the same place (mongo_native.go:209-372, mongo_export.go:155-222,
\* 382-461, mssql_exec.go:52-75, restore.go:15-103).
Undisturbed(i) ==
  \A j \in Ids \ {i} :
    row[j].to = row[i].to
    => executed[j] = 0 \/ (row[j].status = "COMPLETED" /\ j \notin refused)

HoldsAll(db) ==
  \A f \in Expected(job) :
    IF Exact(job.kind, f) THEN f \in db ELSE Reduced(job.kind, f) \in db

CompletedRestoreIsWhole ==
  \A i \in Ids : row[i].status = "COMPLETED" /\ Undisturbed(i) /\ i \notin refused
                 => HoldsAll(dest[row[i].to])

\* The idle agent leaves no copy of the data on its disk; the half-written
\* .gz of a failed compression is the one exception (runner.go:457-577,
\* 772-796; postgres_exec.go:143-147).
TempFilesRemoved ==
  agent.at \in {"idle", "claiming"} /\ ~crashed
  => temps = {} \/ (temps = {"gz"} /\ run = "FAILED")

HasLinks == job.kind = "FILES" /\ \E e \in ToSet(Archive(job)) : e.kind = "link"

RestorableJob ==
  /\ ~Gzips
  /\ ~(job.encrypted /\ job.s3)
  /\ Restorable(job.kind)

\* Without a fault, into an empty destination, from an object that is there, a
\* restore fails only for the links in an archive, indexes that the server
\* refuses without their options, a JSON line over the reader's limit and CSV
\* ids that read alike (runner.go:747-908, mongo_native.go:303-369,
\* mongo_export.go:184-222, 441-450).
PlainBackupsRestore ==
  \A i \in Ids : row[i].status = "FAILED" /\ RestorableJob /\ ~HasLinks /\ object # None
                 => i \in provoked

\* The same of every backup of such a source: "gunzipping first when the stored
\* file is compressed" (runner.go:719-720).
BackupsRestore ==
  \A i \in Ids : row[i].status = "FAILED" /\ Restorable(job.kind) /\ ~HasLinks /\ object # None
                 => i \in provoked

\* A double click or a retried request queues the destructive operation once,
\* and the row goes through the promised states only: a late progress report
\* does not reopen a settled restore (models/restore.go:19-32,
\* restore.go:138-163, 200-246).
Machine == INSTANCE RestoreMachine
             WITH Restores <- Ids, status <- [i \in Ids |-> row[i].status],
                  to <- [i \in Ids |-> row[i].to]
ImplementsRestoreMachine == Machine!Spec

\* A running restore settles, unless its claim's answer or its last report
\* was lost or the agent died: nothing sweeps a restore that was abandoned.
RunningSettles ==
  \A i \in Ids : (row[i].status = "RUNNING" /\ executed[i] > 0)
                 ~> (Settles(row[i].status) \/ i \in orphaned)
=============================================================================
