-------------------------------- MODULE Setup --------------------------------
(***************************************************************************)
(* The machine's side of enrolment, composed with the servers of module    *)
(* Enrolment: the set-up program (SetupController.Run over Installer), the *)
(* agent's credential store, and the agent process from                    *)
(* ResolveCredentials through the poll loop to its stop on revocation.     *)
(*                                                                         *)
(* A wizard machine is installed by the set-up program and its agent runs  *)
(* as the service; the others run the agent with AGENT_SERVER and one      *)
(* secret, an enrollment token or a registration key, in the environment.  *)
(* Every step that touches the disk or the service manager may fail, and   *)
(* what undoes it too; a file is truncated before it is written.  The      *)
(* set-up program may be killed and the machine may reboot.                *)
(***************************************************************************)
EXTENDS Enrolment

CONSTANTS
    Servers, ServerOf,  \* the servers; which one an agent row lives on
    Wizards,            \* the machines installed by the set-up program
    EnvSecret,          \* the secret in the environment of the others
    MaxSetups,          \* bound: runs of the set-up program
    MaxUpsets           \* bound: failing steps, lost answers, reboots and
                        \* interventions of an operator, together

ASSUME SetupAssumption ==
    /\ Wizards \subseteq Machines
    /\ ServerOf \in [Agents -> Servers] /\ None \notin Servers
    /\ "broken" \notin Servers /\ None # "broken"
    /\ EnvSecret \in [Machines \ Wizards -> Agents]
    /\ MaxSetups \in Nat /\ MaxUpsets \in Nat

VARIABLES
    disk,       \* per machine: what an earlier run left; files may be broken
    proc,       \* per machine: the agent process
    setup,      \* per wizard machine: the latest run of the set-up program
    spent       \* how much of each bound is used

vars == <<serverVars, disk, proc, setup, spent>>

MayBe(S) == S \cup {None}

BlankDisk == [store |-> None, state |-> None, config |-> None,
              exe |-> "none", service |-> "none"]
NoSetup == [at |-> "none", fresh |-> FALSE, to |-> None, new |-> None,
            old |-> BlankDisk, undo |-> {}, harmed |-> {}]

Init ==
    /\ EnrolmentInit
    /\ disk = [m \in Machines |-> BlankDisk]
    /\ proc = [m \in Machines |->
                 [at |-> IF m \in Wizards THEN "off" ELSE "starting",
                  cred |-> None, server |-> None]]
    /\ setup = [m \in Wizards |-> NoSetup]
    /\ spent = [setups |-> 0, upsets |-> 0]

Upset == /\ spent.upsets < MaxUpsets
         /\ spent' = [spent EXCEPT !.upsets = @ + 1]
Smooth == UNCHANGED spent

AgentOf(m) == <<m, "agent">>
SetupOf(m) == <<m, "setup">>

-----------------------------------------------------------------------------
(* The agent process.                                                      *)

Runs(m, cred) ==
    proc' = [proc EXCEPT ![m].at = "polling", ![m].cred = cred]
(* ResolveCredentials fails: the process stays up for the folder browser   *)
(* but never polls.                                                        *)
Idles(m) == proc' = [proc EXCEPT ![m].at = "idle"]
Exits(m) == proc' = [proc EXCEPT ![m].at = "off"]

(* The configured server, or the default address without a readable        *)
(* config.json; an answer to a credential of another server is that of an  *)
(* unknown agent.                                                          *)
Configured(d) == IF d.config \in Servers THEN d.config ELSE None
ServerFor(m) ==
    IF m \in Wizards THEN Configured(disk[m]) ELSE ServerOf[EnvSecret[m]]
KnownAt(s, a) == IF ServerOf[a] = s THEN a ELSE None

(* FileStore.Save and saveState.                                           *)
Stored(m, cred) == [disk EXCEPT ![m].store = cred]
InState(m, cred) == [disk EXCEPT ![m].state = cred]

(* ResolveCredentials: the store, else the state file, adopted into the    *)
(* store at best effort, else the one-time secret.                         *)
Resolve(m) ==
    /\ proc[m].at = "starting"
    /\ \/ /\ disk[m].store # None
          /\ proc' = [proc EXCEPT ![m] = [at |-> "polling",
                          cred |-> disk[m].store, server |-> ServerFor(m)]]
          /\ Smooth /\ UNCHANGED <<disk, call>>
       \/ /\ disk[m].store = None /\ disk[m].state # None
          /\ proc' = [proc EXCEPT ![m] = [at |-> "polling",
                          cred |-> disk[m].state, server |-> ServerFor(m)]]
          /\ \/ Smooth /\ disk' = Stored(m, disk[m].state)
             \/ Upset /\ UNCHANGED disk
          /\ UNCHANGED call
       \/ /\ disk[m].store = None /\ disk[m].state = None
          /\ m \notin Wizards
          /\ LET a == EnvSecret[m] IN
             /\ agent[a].row # "none"
             /\ LET op == IF token[a].state # "none" THEN "enroll"
                          ELSE "register" IN
                /\ Post(AgentOf(m), op, a, 0)
                /\ proc' = [proc EXCEPT ![m].at = "asking",
                                        ![m].server = ServerFor(m)]
          /\ Smooth /\ UNCHANGED disk
       \/ /\ disk[m].store = None /\ disk[m].state = None
          /\ m \in Wizards
          /\ Idles(m)
          /\ Smooth /\ UNCHANGED <<disk, call>>
    /\ UNCHANGED <<agent, token, setup>>

Answered(c, ans) == call[c].at = "answered" /\ call[c].ans = ans
Hangs(c) == call' = [call EXCEPT ![c] = NoCall]
Granting(c) == [agent |-> call[c].agent, n |-> call[c].n]

(* The one-time exchange is over: an enrolled credential goes to the       *)
(* store, a registered one to the state file.  When the answer was lost or *)
(* the save fails the secret is spent and nothing is kept.                 *)
Enrolled(m) ==
    LET c == AgentOf(m) IN
    /\ proc[m].at = "asking" /\ call[c].at = "answered"
    /\ \/ /\ Answered(c, "ok") /\ Smooth
          /\ disk' = IF call[c].op = "enroll"
                     THEN Stored(m, Granting(c)) ELSE InState(m, Granting(c))
          /\ Runs(m, Granting(c))
       \/ /\ Answered(c, "ok") /\ Upset /\ Idles(m) /\ UNCHANGED disk
       \/ /\ ~Answered(c, "ok") /\ Smooth /\ Idles(m) /\ UNCHANGED disk
    /\ Hangs(c)
    /\ UNCHANGED <<agent, token, setup>>

(* pollOnce begins with the heartbeat.                                     *)
Beat(m) ==
    /\ proc[m].at = "polling"
    /\ Post(AgentOf(m), "heartbeat",
            KnownAt(proc[m].server, proc[m].cred.agent), proc[m].cred.n)
    /\ proc' = [proc EXCEPT ![m].at = "beating"]
    /\ UNCHANGED <<agent, token, disk, setup, spent>>

(* Variant: the rejection is one more error to log.                        *)
BeatenForgets(m) ==
    LET c == AgentOf(m) IN
    /\ proc[m].at = "beating" /\ call[c].at = "answered"
    /\ Runs(m, proc[m].cred)
    /\ Hangs(c)
    /\ UNCHANGED <<agent, token, disk, setup, spent>>

(* Only the exact "agent revoked" ends the loop, and the process with it   *)
(* but for that of a Windows service, which waits for the service manager; *)
(* any other error is retried at the next poll.                            *)
Beaten(m) ==
    LET c == AgentOf(m) IN
    /\ proc[m].at = "beating" /\ call[c].at = "answered"
    /\ \/ ~Answered(c, "revoked") /\ Runs(m, proc[m].cred) /\ UNCHANGED disk
       \/ /\ Answered(c, "revoked") /\ Exits(m)
          /\ disk' = IF m \in Wizards
                     THEN [disk EXCEPT ![m].service = "stopped"] ELSE disk
       \/ /\ Answered(c, "revoked") /\ m \in Wizards
          /\ Idles(m) /\ UNCHANGED disk
    /\ Hangs(c)
    /\ UNCHANGED <<agent, token, setup, spent>>

(* What the service manager, systemd or that of Windows, makes of a disk.  *)
Halted(d) == [d EXCEPT !.service = IF @ = "none" THEN @ ELSE "stopped"]
Created(d) == [d EXCEPT !.service = IF @ = "none" THEN "stopped" ELSE @]
Removed(d) == [d EXCEPT !.service = "none"]
Up(d) == [d EXCEPT !.service = "running"]

Quiet(c) == call[c].at \in {"none", "answered"}

(* A reboot ends both programs and starts an installed service, if its     *)
(* binary is whole.                                                        *)
Reboot(m) ==
    /\ Upset
    /\ Quiet(AgentOf(m)) /\ Quiet(SetupOf(m))
    /\ LET up == m \in Wizards
                    => disk[m].service # "none" /\ disk[m].exe = "whole" IN
       /\ proc' = [proc EXCEPT ![m].at = IF up THEN "starting" ELSE "off"]
       /\ disk' = IF m \notin Wizards THEN disk
                  ELSE [disk EXCEPT ![m] = IF up THEN Up(@) ELSE Halted(@)]
    /\ setup' = IF m \in Wizards
                   /\ setup[m].at \notin {"none", "done", "failed"}
                THEN [setup EXCEPT ![m].at = "killed"] ELSE setup
    /\ call' = [call EXCEPT ![AgentOf(m)] = NoCall, ![SetupOf(m)] = NoCall]
    /\ UNCHANGED <<agent, token>>

-----------------------------------------------------------------------------
(* The set-up program.  Its agent binary is shipped next to it, as in the  *)
(* release layout.                                                         *)

(* planRun: a changed server needs a token, a token is a fresh install,    *)
(* otherwise there must be a credential to upgrade.                        *)
Plan(m, s, secret) ==
    IF Configured(disk[m]) \notin {None, s} /\ secret = None THEN "error"
    ELSE IF secret # None THEN "fresh"
    ELSE IF disk[m].store # None THEN "upgrade"
    ELSE "error"

Run(m, s, secret) ==
    /\ setup[m].at \in {"none", "done", "failed", "killed"}
    /\ spent.setups < MaxSetups
    /\ spent' = [spent EXCEPT !.setups = @ + 1]
    /\ Plan(m, s, secret) # "error"
    /\ LET fresh == Plan(m, s, secret) = "fresh" IN
       /\ setup' = [setup EXCEPT ![m] =
            [NoSetup EXCEPT !.at = IF fresh THEN "enroll" ELSE "stop",
                            !.fresh = fresh, !.to = s, !.old = disk[m]]]
       /\ IF fresh THEN Post(SetupOf(m), "enroll", secret, 0)
                   ELSE UNCHANGED call
    /\ UNCHANGED <<agent, token, disk, proc>>

Goes(m, at) == setup' = [setup EXCEPT ![m].at = at]
GoesUndoing(m, at, part) ==
    setup' = [setup EXCEPT ![m].at = at, ![m].undo = @ \cup {part}]

(* The rollback removes what the run added, as far as it can.              *)
Undone(d, u) ==
    [IF "service" \in u THEN Removed(d) ELSE d EXCEPT
        !.exe = IF "exe" \in u THEN "none" ELSE @,
        !.config = IF "config" \in u THEN None ELSE @]

(* The run ends with this on the disk, after these writes have failed.     *)
FailLeaving(m, d, failed) ==
    /\ disk' = [disk EXCEPT ![m] = d]
    /\ setup' = [setup EXCEPT ![m].at = "failed", ![m].harmed = failed]

PutBack(m, d) ==
    IF setup[m].old.store = None THEN d
    ELSE [d EXCEPT !.store = setup[m].old.store]

(* Variant: the previous credential is not put back.                       *)
RollbackOnly(m, d, failed) ==
    FailLeaving(m, IF setup[m].fresh THEN Undone(d, setup[m].undo) ELSE d, failed)

(* A step of the run has failed and left d.  An upgrade just returns; a    *)
(* fresh install undoes, then puts the previous credential back, both as   *)
(* far as it can.                                                          *)
Rollback(m, d, failed) ==
    IF ~setup[m].fresh THEN FailLeaving(m, d, failed)
    ELSE \E u \in SUBSET setup[m].undo :
         LET undone == Undone(d, u) IN
         \/ FailLeaving(m, PutBack(m, undone), failed)
         \/ /\ setup[m].old.store # None
            /\ \E left \in {d.store, None} :
                  FailLeaving(m, [undone EXCEPT !.store = left],
                              failed \cup {"credential"})
Fail(m, d, failed) == Rollback(m, d, failed) /\ Upset

(* Enroll's client: only a complete 2xx answer carries a credential.       *)
SetupEnrolled(m) ==
    LET c == SetupOf(m) IN
    /\ setup[m].at = "enroll" /\ call[c].at = "answered"
    /\ \/ /\ Answered(c, "ok") /\ Smooth /\ UNCHANGED disk
          /\ setup' = [setup EXCEPT ![m].at = "stop",
                                    ![m].new = Granting(c)]
       \/ /\ ~Answered(c, "ok")
          /\ \/ FailLeaving(m, PutBack(m, disk[m]), {}) /\ Smooth
             \/ Fail(m, disk[m], {})
    /\ Hangs(c)
    /\ UNCHANGED <<agent, token, proc>>

(* EnsureDirs, then stopAndWait: the service is stopped, the process gone; *)
(* the wait for the binary may time out.                                   *)
EnsureDirsFails(m) ==
    /\ setup[m].at = "stop"
    /\ Fail(m, disk[m], {})
    /\ UNCHANGED <<serverVars, proc>>
Stop(m) ==
    /\ setup[m].at = "stop" /\ Quiet(AgentOf(m))
    /\ \/ /\ disk' = [disk EXCEPT ![m] = Halted(@)]
          /\ Goes(m, "copy") /\ Smooth
       \/ Fail(m, Halted(disk[m]), {})
    /\ Exits(m)
    /\ call' = [call EXCEPT ![AgentOf(m)] = NoCall]
    /\ UNCHANGED <<agent, token>>

(* The copy truncates its target first.                                    *)
CopyExecutable(m) ==
    /\ setup[m].at = "copy"
    /\ \/ /\ disk' = [disk EXCEPT ![m].exe = "whole"] /\ Smooth
          /\ IF disk[m].exe # "none" THEN Goes(m, "config")
                                     ELSE GoesUndoing(m, "config", "exe")
       \/ \E left \in {disk[m].exe, "broken"} :
             Fail(m, [disk[m] EXCEPT !.exe = left], {"exe"})
    /\ UNCHANGED <<serverVars, proc>>

AfterConfig(m) == IF setup[m].fresh THEN "save" ELSE "restart"
ConfigFails(m) ==
    \E left \in {disk[m].config, "broken"} :
        Fail(m, [disk[m] EXCEPT !.config = left], {"config"})

(* Variant: an existing configuration is kept.                             *)
WriteMissingConfig(m) ==
    /\ setup[m].at = "config"
    /\ \/ /\ disk[m].config # None /\ Goes(m, AfterConfig(m))
          /\ Smooth /\ UNCHANGED disk
       \/ /\ disk[m].config = None /\ Smooth
          /\ disk' = [disk EXCEPT ![m].config = setup[m].to]
          /\ GoesUndoing(m, AfterConfig(m), "config")
       \/ ConfigFails(m)
    /\ UNCHANGED <<serverVars, proc>>

(* os.WriteFile, too, truncates before it writes.                          *)
WriteAgentConfig(m) ==
    /\ setup[m].at = "config"
    /\ \/ /\ disk' = [disk EXCEPT ![m].config = setup[m].to] /\ Smooth
          /\ IF disk[m].config # None THEN Goes(m, AfterConfig(m))
             ELSE GoesUndoing(m, AfterConfig(m), "config")
       \/ ConfigFails(m)
    /\ UNCHANGED <<serverVars, proc>>

(* A failed save leaves the old credential or what Load refuses; the       *)
(* credential has no entry in the rollback.                                *)
SaveCredential(m) ==
    /\ setup[m].at = "save"
    /\ \/ /\ disk' = [disk EXCEPT ![m].store = setup[m].new]
          /\ Goes(m, "install") /\ Smooth
       \/ \E left \in {disk[m].store, None} :
             Fail(m, [disk[m] EXCEPT !.store = left], {})
    /\ UNCHANGED <<serverVars, proc>>

(* An existing service is left alone.                                      *)
InstallService(m) ==
    /\ setup[m].at = "install"
    /\ \/ /\ disk' = [disk EXCEPT ![m] = Created(@)] /\ Smooth
          /\ IF setup[m].fresh THEN GoesUndoing(m, "start", "service")
                               ELSE Goes(m, "start")
       \/ Fail(m, disk[m], {})
    /\ UNCHANGED <<serverVars, proc>>

Started(m) ==
    /\ disk' = [disk EXCEPT ![m] = Up(@)]
    /\ Goes(m, "done")
StartService(m) ==
    /\ setup[m].at = "start"
    /\ \/ Started(m) /\ Smooth /\ proc' = [proc EXCEPT ![m].at = "starting"]
       \/ Fail(m, disk[m], {}) /\ UNCHANGED proc
    /\ UNCHANGED serverVars

(* The upgrade restarts the service, or installs it when it is missing.    *)
RestartService(m) ==
    /\ setup[m].at = "restart"
    /\ IF disk[m].service = "none"
       THEN Goes(m, "install") /\ Smooth /\ UNCHANGED <<disk, proc>>
       ELSE \/ Started(m) /\ Smooth
               /\ proc' = [proc EXCEPT ![m].at = "starting"]
            \/ Fail(m, disk[m], {}) /\ UNCHANGED proc
    /\ UNCHANGED serverVars

Install(m) ==
    \/ SetupEnrolled(m) \/ EnsureDirsFails(m) \/ Stop(m)
    \/ CopyExecutable(m) \/ WriteAgentConfig(m) \/ SaveCredential(m)
    \/ InstallService(m) \/ StartService(m) \/ RestartService(m)

Process(m) == Resolve(m) \/ Enrolled(m) \/ Beat(m) \/ Beaten(m)

-----------------------------------------------------------------------------
(* The secrets of a server that the operator has at hand.                  *)
Secrets(s) == {a \in Agents : ServerOf[a] = s /\ token[a].state # "none"}

(* The set-up program takes no registration key.                           *)
InEnv == {EnvSecret[m] : m \in Machines \ Wizards}

AtServer(A) == A /\ UNCHANGED <<disk, proc, setup>>

Next ==
    \/ \E a \in Agents :
          \/ AtServer(GenerateEnrollmentToken(a) \/ MarkOffline(a)) /\ Smooth
          \/ AtServer(GenerateRegistrationToken(a)) /\ a \in InEnv /\ Smooth
          \/ AtServer(Intervene(a) \/ Expire(a)) /\ Upset
    \/ \E c \in Clients :
          \/ AtServer(Serve(c)) /\ Smooth
          \/ AtServer(LoseAnswer(c) \/ EnrollAbort(c) \/ RegisterUnwritten(c))
                /\ Upset
    \/ \E m \in Machines : Process(m) \/ Reboot(m)
    \/ \E m \in Wizards :
          \/ Install(m)
          \/ \E s \in Servers : \E secret \in MayBe(Secrets(s)) :
                Run(m, s, secret)

Spec == Init /\ [][Next]_vars

(* The server answers, the agent's loop runs on its ticker, the set-up     *)
(* program goes through its steps; operators, faults and reboots owe       *)
(* nothing.                                                                *)
Fairness ==
    /\ \A c \in Clients : WF_vars(AtServer(Serve(c)) /\ Smooth)
    /\ \A m \in Machines : WF_vars(Process(m))
    /\ \A m \in Wizards : WF_vars(Install(m))
FairSpec == Spec /\ Fairness

-----------------------------------------------------------------------------
DiskType == [store : MayBe(Credentials), state : MayBe(Credentials),
             config : MayBe(Servers) \cup {"broken"},
             exe : {"none", "whole", "broken"},
             service : {"none", "stopped", "running"}]

TypeOK ==
    /\ EnrolmentTypeOK
    /\ disk \in [Machines -> DiskType]
    /\ proc \in [Machines ->
                   [at : {"off", "starting", "asking", "idle", "polling",
                          "beating"},
                    cred : MayBe(Credentials), server : MayBe(Servers)]]
    /\ setup \in [Wizards ->
                    [at : {"none", "enroll", "stop", "copy", "config", "save",
                           "restart", "install", "start", "done", "failed",
                           "killed"},
                     fresh : BOOLEAN, to : MayBe(Servers),
                     new : MayBe(Credentials), old : DiskType,
                     undo : SUBSET {"exe", "config", "service"},
                     harmed : SUBSET {"exe", "config", "credential"}]]
    /\ spent \in [setups : 0 .. MaxSetups, upsets : 0 .. MaxUpsets]

(* The credential that a machine keeps from a token is the one the row     *)
(* accepts, unless an operator rotated it or deleted the agent: no other   *)
(* exchange of the same token comes in between (Enroll).                   *)
StoredCredentialValid ==
    \A m \in Machines, a \in Agents :
        Holds(disk[m].store, a) /\ token[a].state # "none"
            => \/ disk[m].store.n = agent[a].cred
               \/ agent[a].rotated \/ agent[a].row = "deleted"

(* Both, as one invariant: Enroll's transaction with its conditional claim *)
(* makes a token worth one credential, on the server and on the disk.      *)
CredentialsSound ==
    TypeOK /\ UsedTokenEnrolled /\ StoredCredentialValid

(* A failed run of the set-up program leaves of an earlier installation    *)
(* its credential, a whole binary and a readable configuration, and deletes *)
(* no file of it, however far the run came and however much of its         *)
(* rollback fails; only a file whose own writing failed may be spoilt, and *)
(* the configuration may already name the server of the failed run (Run: a *)
(* failed run must restore, never strand, the old set-up; pre-existing     *)
(* files are never deleted).                                               *)
KeptFrom(old, d, to, harmed) ==
    /\ old.store # None /\ "credential" \notin harmed => d.store = old.store
    /\ old.exe # "none" => d.exe # "none"
    /\ old.exe = "whole" /\ "exe" \notin harmed => d.exe = "whole"
    /\ old.config # None => d.config # None
    /\ old.config \in Servers /\ "config" \notin harmed
         => d.config \in {old.config, to}

FailedSetupKeepsInstall ==
    \A m \in Wizards :
        setup[m].at = "failed"
            => KeptFrom(setup[m].old, disk[m], setup[m].to, setup[m].harmed)

Uses(m, a) ==
    /\ proc[m].at \in {"polling", "beating"}
    /\ Holds(proc[m].cred, a) /\ proc[m].cred.n = agent[a].cred
    /\ proc[m].server = ServerOf[a]

(* The agent of a revoked row stops polling: the server tells it so as     *)
(* long as the row still has its credential, whatever else happens to it   *)
(* after the revocation (Revoke, AgentAuth, RotateToken, noteRevoked).     *)
RevokedAgentStops ==
    \A m \in Machines, a \in Agents :
        Uses(m, a) /\ Live(a) /\ agent[a].revoked /\ token[a].state # "none"
            ~> proc[m].at \notin {"polling", "beating"} \/ ~Live(a)

Installed(m, a) ==
    /\ setup[m].at = "done" /\ setup[m].fresh
    /\ Holds(disk[m].store, a) /\ disk[m].store.n = agent[a].cred
    /\ Live(a) /\ ~agent[a].revoked

(* After a fresh install that reported success the agent keeps its row     *)
(* ONLINE: whenever the monitor has marked it OFFLINE it comes back, unless *)
(* an operator intervened or the set-up program is run again.  It takes    *)
(* the configuration, the credential and the service to agree.             *)
InstalledAgentReturns ==
    \A m \in Wizards, a \in Agents :
        Installed(m, a) /\ ~agent[a].online
            ~> agent[a].online \/ ~Installed(m, a)
=============================================================================
