------------------------------ MODULE Enrolment ------------------------------
(***************************************************************************)
(* The server's side of an agent's identity: the agents and enrollment     *)
(* tokens of the database, the operator's requests on them (generate,      *)
(* rotate, revoke, delete) and the handlers an agent or the set-up program *)
(* calls: Enroll, Register and Heartbeat.  A handler is a sequence of      *)
(* statements, so each of those three is several steps that interleave     *)
(* with everything else; Enroll's transaction holds the token's row from   *)
(* its first UPDATE to its end.                                            *)
(*                                                                         *)
(* GenerateEnrollmentToken creates the token together with its agent, so a *)
(* token is named by its agent.  A credential is its agent and the number  *)
(* of the hash written for it: the row's hash matches exactly the latest.  *)
(***************************************************************************)
EXTENDS Naturals

CONSTANTS
    Agents,     \* the agent rows the operators may create
    Machines,   \* the machines; each runs an agent and, perhaps, the set-up
    None        \* no agent, no credential

(* The two programs of a machine that call the server.                     *)
Clients == Machines \X {"agent", "setup"}

ASSUME EnrolmentAssumption == None \notin Agents \cup Machines \cup Clients

VARIABLES
    agent,      \* the agents table
    token,      \* the enrollment_tokens table, by agent
    call        \* what each program has asked of the server

serverVars == <<agent, token, call>>

Credentials == [agent : Agents, n : Nat]
Holds(c, a) == c # None /\ c.agent = a

Pending == [row |-> "none", key |-> FALSE, cred |-> 0, rotated |-> FALSE,
            revoked |-> FALSE, online |-> FALSE]
NoToken == [state |-> "none", expired |-> FALSE, lock |-> None]
NoCall  == [op |-> "none", agent |-> None, n |-> 0, at |-> "none",
            ans |-> "none"]

EnrolmentInit ==
    /\ agent = [a \in Agents |-> Pending]
    /\ token = [a \in Agents |-> NoToken]
    /\ call = [c \in Clients |-> NoCall]

Live(a) == a # None /\ agent[a].row = "live"

-----------------------------------------------------------------------------
(* The operators' requests, and time.                                      *)

GenerateEnrollmentToken(a) ==
    /\ agent[a].row = "none"
    /\ agent' = [agent EXCEPT ![a].row = "live"]
    /\ token' = [token EXCEPT ![a].state = "unused"]
    /\ UNCHANGED call

GenerateRegistrationToken(a) ==
    /\ agent[a].row = "none"
    /\ agent' = [agent EXCEPT ![a].row = "live", ![a].key = TRUE]
    /\ UNCHANGED <<token, call>>

(* expires_at passes; enrollmentExpired is asked once, when Enroll reads.  *)
Expire(a) ==
    /\ token[a].state = "unused" /\ ~token[a].expired
    /\ token' = [token EXCEPT ![a].expired = TRUE]
    /\ UNCHANGED <<agent, call>>

(* UPDATE ... WHERE used_at IS NULL AND revoked_at IS NULL: it waits for   *)
(* the transaction that holds the row.                                     *)
RevokeToken(a) ==
    /\ token[a].state = "unused" /\ token[a].lock = None
    /\ token' = [token EXCEPT ![a].state = "revoked"]
    /\ UNCHANGED <<agent, call>>

Revoke(a) ==
    /\ Live(a)
    /\ agent' = [agent EXCEPT ![a].revoked = TRUE, ![a].online = FALSE]
    /\ UNCHANGED <<token, call>>

Delete(a) ==
    /\ Live(a)
    /\ agent' = [agent EXCEPT ![a].row = "deleted"]
    /\ UNCHANGED <<token, call>>

(* The row's hash is replaced; its plaintext is shown to the operator.     *)
Mint(a) == [agent[a] EXCEPT !.cred = @ + 1]

RotateToken(a) ==
    /\ Live(a) /\ ~agent[a].revoked /\ ~agent[a].rotated
    /\ agent' = [agent EXCEPT ![a] = [Mint(a) EXCEPT !.rotated = TRUE]]
    /\ UNCHANGED <<token, call>>

(* The health monitor finds last_seen_at too old.                          *)
MarkOffline(a) ==
    /\ Live(a) /\ agent[a].online /\ ~agent[a].revoked
    /\ agent' = [agent EXCEPT ![a].online = FALSE]
    /\ UNCHANGED <<token, call>>

Intervene(a) == RevokeToken(a) \/ Revoke(a) \/ Delete(a) \/ RotateToken(a)

-----------------------------------------------------------------------------
(* Calls: the client posts, the handler moves on and answers.              *)

Post(c, op, a, n) ==
    call' = [call EXCEPT ![c] = [op |-> op, agent |-> a, n |-> n,
                                 at |-> "sent", ans |-> "none"]]
At(c, op, at) == call[c].op = op /\ call[c].at = at
Answer(c, ans) == call' = [call EXCEPT ![c].at = "answered", ![c].ans = ans]
Granted(c, n) == call' = [call EXCEPT ![c].at = "answered", ![c].ans = "ok",
                                      ![c].n = n]
MoveTo(c, at) == call' = [call EXCEPT ![c].at = at]

(* The network loses the answer: the client sees a transport error.        *)
LoseAnswer(c) ==
    /\ call[c].at = "answered" /\ call[c].ans # "lost"
    /\ Answer(c, "lost")
    /\ UNCHANGED <<agent, token>>

(* Enroll reads the token by hash; used, expired and revoked ones are 401. *)
EnrollRead(c) ==
    /\ At(c, "enroll", "sent")
    /\ LET a == call[c].agent IN
       IF a # None /\ token[a].state = "unused" /\ ~token[a].expired
       THEN MoveTo(c, "claim")
       ELSE Answer(c, "refused")
    /\ UNCHANGED <<agent, token>>

(* Variant: the claim has no condition.                                    *)
EnrollClaimAny(c) ==
    /\ At(c, "enroll", "claim")
    /\ token[call[c].agent].lock = None
    /\ token' = [token EXCEPT ![call[c].agent].lock = c]
    /\ MoveTo(c, "locked")
    /\ UNCHANGED agent

(* The claim: a second one waits for the row, then finds used_at set.      *)
EnrollClaim(c) ==
    /\ At(c, "enroll", "claim")
    /\ LET a == call[c].agent IN
       /\ token[a].lock = None
       /\ IF token[a].state = "unused"
          THEN /\ token' = [token EXCEPT ![a].lock = c]
               /\ MoveTo(c, "locked")
          ELSE Answer(c, "refused") /\ UNCHANGED token
    /\ UNCHANGED agent
Unlock(a) == token' = [token EXCEPT ![a].lock = None]
KeepUsed(a) == token' = [token EXCEPT ![a].lock = None, ![a].state = "used"]

(* The transaction reads the agent; revoked or deleted rolls the claim     *)
(* back.                                                                   *)
EnrollCheck(c) ==
    /\ At(c, "enroll", "locked")
    /\ LET a == call[c].agent IN
       IF Live(a) /\ ~agent[a].revoked
       THEN MoveTo(c, "write") /\ UNCHANGED token
       ELSE Answer(c, "refused") /\ Unlock(a)
    /\ UNCHANGED agent
(* So does a statement of the transaction that fails.                      *)
EnrollAbort(c) ==
    /\ At(c, "enroll", "locked") \/ At(c, "enroll", "write")
    /\ Answer(c, "refused") /\ Unlock(call[c].agent)
    /\ UNCHANGED agent

(* UPDATE agents by id, not on a row deleted meanwhile, and the commit.    *)
Written(a) ==
    agent' = IF Live(a)
             THEN [agent EXCEPT ![a] = [Mint(a) EXCEPT !.online = TRUE,
                                                       !.key = FALSE]]
             ELSE agent
EnrollCommit(c) ==
    /\ At(c, "enroll", "write")
    /\ LET a == call[c].agent IN
       /\ Written(a)
       /\ KeepUsed(a)
       /\ Granted(c, agent[a].cred + 1)

(* Register looks the row up by its key; the later UPDATE is by id.        *)
RegisterRead(c) ==
    /\ At(c, "register", "sent")
    /\ LET a == call[c].agent IN
       IF Live(a) /\ agent[a].key /\ ~agent[a].revoked
       THEN MoveTo(c, "write") ELSE Answer(c, "refused")
    /\ UNCHANGED <<agent, token>>
RegisterWrite(c) ==
    /\ At(c, "register", "write")
    /\ Written(call[c].agent)
    /\ Granted(c, agent[call[c].agent].cred + 1)
    /\ UNCHANGED token

(* The UPDATE's error is not looked at: the credential that is answered    *)
(* was written nowhere; none has the number 0.                             *)
RegisterUnwritten(c) ==
    /\ At(c, "register", "write")
    /\ Granted(c, 0)
    /\ UNCHANGED <<agent, token>>

(* AgentAuth, then the handler's write.                                    *)
HeartbeatAuth(c) ==
    /\ At(c, "heartbeat", "sent")
    /\ LET a == call[c].agent IN
       IF ~Live(a) \/ call[c].n = 0 \/ call[c].n # agent[a].cred
       THEN Answer(c, "refused")
       ELSE IF agent[a].revoked THEN Answer(c, "revoked")
       ELSE MoveTo(c, "write")
    /\ UNCHANGED <<agent, token>>
Heartbeat(c) ==
    /\ At(c, "heartbeat", "write")
    /\ LET a == call[c].agent IN
       agent' = IF Live(a) THEN [agent EXCEPT ![a].online = TRUE] ELSE agent
    /\ Answer(c, "ok")
    /\ UNCHANGED token

Serve(c) ==
    \/ EnrollRead(c) \/ EnrollClaim(c) \/ EnrollCheck(c) \/ EnrollCommit(c)
    \/ RegisterRead(c) \/ RegisterWrite(c)
    \/ HeartbeatAuth(c) \/ Heartbeat(c)

-----------------------------------------------------------------------------
EnrolmentTypeOK ==
    /\ agent \in [Agents -> [row : {"none", "live", "deleted"},
                             key : BOOLEAN, cred : Nat,
                             rotated : BOOLEAN, revoked : BOOLEAN,
                             online : BOOLEAN]]
    /\ token \in [Agents -> [state : {"none", "unused", "used", "revoked"},
                             expired : BOOLEAN,
                             lock : Clients \cup {None}]]
    /\ call \in [Clients ->
                   [op : {"none", "enroll", "register", "heartbeat"},
                    agent : Agents \cup {None}, n : Nat,
                    at : {"none", "sent", "claim", "locked", "write",
                          "answered"},
                    ans : {"none", "ok", "refused", "revoked", "lost"}]]

(* Claiming a token and writing the agent's row are one transaction: a     *)
(* token that is used has left its credential in the row, whatever was     *)
(* revoked, deleted or failed between the two (Enroll).                    *)
UsedTokenEnrolled ==
    \A a \in Agents :
        token[a].state = "used"
            => agent[a].cred # 0 \/ agent[a].row = "deleted"
=============================================================================
