---------------------------- MODULE Setup_proofs ----------------------------
(***************************************************************************)
(* What enrolment and the set-up program keep for any number of agents,    *)
(* machines and servers and every number of runs, faults and reboots.      *)
(*                                                                         *)
(* A credential that is held somewhere, by an answer on its way, a disk or *)
(* a run of the set-up program, is good: its agent has no token, or the    *)
(* token is used and the row has just this credential, or an operator      *)
(* rotated it or deleted the agent (Good).  That no step spoils one rests  *)
(* on the token's row lock (CallOK, RowOK) and on what a step may do to a  *)
(* row (Ages).  The run of the set-up program keeps apart what it found    *)
(* and what it added (WizardOK).                                           *)
(***************************************************************************)
EXTENDS Setup, TLAPS

AgentRow == [row : {"none", "live", "deleted"}, key : BOOLEAN, cred : Nat,
             rotated : BOOLEAN, revoked : BOOLEAN, online : BOOLEAN]
TokenRow == [state : {"none", "unused", "used", "revoked"}, expired : BOOLEAN,
             lock : Clients \cup {None}]
CallRow == [op : {"none", "enroll", "register", "heartbeat"},
            agent : Agents \cup {None}, n : Nat,
            at : {"none", "sent", "claim", "locked", "write", "answered"},
            ans : {"none", "ok", "refused", "revoked", "lost"}]

Good(x) ==
    /\ agent[x.agent].row # "none"
    /\ \/ token[x.agent].state = "none"
       \/ agent[x.agent].rotated
       \/ agent[x.agent].row = "deleted"
       \/ token[x.agent].state = "used" /\ x.n = agent[x.agent].cred

RowOK(a) ==
    /\ agent[a].row = "none" => token[a].state = "none" /\ ~agent[a].key
    /\ agent[a].key => token[a].state = "none"
    /\ token[a].lock # None => token[a].state = "unused"
    /\ token[a].state = "used" => agent[a].cred # 0 \/ agent[a].row = "deleted"

CallOK(c) ==
    /\ call[c].op = "enroll" /\ call[c].at \in {"claim", "locked", "write"}
         => call[c].agent \in Agents
    /\ call[c].op = "enroll" /\ call[c].at \in {"locked", "write"}
         => token[call[c].agent].lock = c
    /\ call[c].op = "register" /\ call[c].at = "write"
         => /\ call[c].agent \in Agents
            /\ agent[call[c].agent].row # "none"
            /\ token[call[c].agent].state = "none"
    /\ call[c].op \in {"enroll", "register"} /\ Answered(c, "ok")
         => call[c].agent \in Agents /\ Good(Granting(c))

ServerInv ==
    /\ EnrolmentTypeOK
    /\ \A a \in Agents : RowOK(a)
    /\ \A c \in Clients : CallOK(c)

-----------------------------------------------------------------------------
(* What a step may do to an agent's row and its token.                     *)

Ages(a) ==
    /\ agent[a].row # "none" => agent'[a].row # "none"
    /\ agent[a].row # "none" /\ token[a].state = "none" => token'[a].state = "none"
    /\ agent[a].row = "deleted" => agent'[a].row = "deleted"
    /\ agent[a].rotated => agent'[a].rotated
    /\ token[a].state = "used"
         => /\ token'[a].state = "used"
            /\ \/ agent'[a].cred = agent[a].cred
               \/ agent'[a].rotated \/ agent'[a].row = "deleted"

LEMMA GoodKept ==
    ASSUME NEW x, Ages(x.agent), Good(x)
    PROVE  Good(x)'
BY DEF Ages, Good

LEMMA SameAges ==
    ASSUME NEW a, agent'[a] = agent[a], token'[a] = token[a]
    PROVE  Ages(a) /\ (RowOK(a) => RowOK(a)')
BY DEF Ages, RowOK

LEMMA CallKept ==
    ASSUME EnrolmentTypeOK, \A a \in Agents : Ages(a),
           NEW c \in Clients, CallOK(c), call'[c] = call[c],
           \A a \in Agents : token[a].lock = c => token'[a].lock = c
    PROVE  CallOK(c)'
<1>1. call[c] \in CallRow
  BY DEF EnrolmentTypeOK, CallRow
<1>2. Granting(c)' = Granting(c) /\ (Answered(c, "ok")' <=> Answered(c, "ok"))
  BY DEF Granting, Answered
<1>3. ASSUME call[c].op = "register" /\ call[c].at = "write"
      PROVE  /\ agent'[call[c].agent].row # "none"
             /\ token'[call[c].agent].state = "none"
  BY <1>3 DEF CallOK, Ages
<1>4. ASSUME call[c].op \in {"enroll", "register"}, Answered(c, "ok")
      PROVE  Good(Granting(c))'
  <2> DEFINE a == call[c].agent
             n == call[c].n
  <2>1. a \in Agents /\ Good(Granting(c))
    BY <1>4 DEF CallOK
  <2>2. /\ agent[a].row # "none"
        /\ \/ token[a].state = "none" \/ agent[a].rotated
           \/ agent[a].row = "deleted"
           \/ token[a].state = "used" /\ n = agent[a].cred
    BY <2>1 DEF Good, Granting
  <2>3. Ages(a)
    BY <2>1
  <2> HIDE DEF a, n
  <2>4. /\ agent'[a].row # "none"
        /\ \/ token'[a].state = "none" \/ agent'[a].rotated
           \/ agent'[a].row = "deleted"
           \/ token'[a].state = "used" /\ n = agent'[a].cred
    BY <2>2, <2>3 DEF Ages
  <2> QED
    BY <2>4 DEF a, n, Good, Granting
<1> QED
  BY <1>2, <1>3, <1>4 DEF CallOK

(* A step that changes at most the row of a and the call of c.             *)
LEMMA ServerStep ==
    ASSUME ServerInv, EnrolmentTypeOK',
           NEW a \in Agents, NEW c \in Clients \cup {None},
           \A o \in Agents \ {a} : agent'[o] = agent[o] /\ token'[o] = token[o],
           \A o \in Clients \ {c} : call'[o] = call[o],
           \/ token'[a].lock = token[a].lock
           \/ token[a].lock \in {c, None},
           Ages(a), RowOK(a)', c # None => CallOK(c)'
    PROVE  ServerInv' /\ \A o \in Agents : Ages(o)
<1>1. \A o \in Agents : Ages(o) /\ RowOK(o)'
  <2> SUFFICES ASSUME NEW o \in Agents PROVE Ages(o) /\ RowOK(o)'
    OBVIOUS
  <2>1. CASE o = a
    BY <2>1
  <2>2. CASE o # a
    BY <2>2, SameAges DEF ServerInv
  <2> QED
    BY <2>1, <2>2
<1>2. ASSUME NEW o \in Clients \ {c} PROVE CallOK(o)'
  <2>1. o # None
    BY EnrolmentAssumption
  <2>2. \A b \in Agents : token[b].lock = o => token'[b].lock = o
    BY <2>1
  <2>3. call'[o] = call[o] /\ CallOK(o)
    BY DEF ServerInv
  <2> QED
    BY <1>1, <2>2, <2>3, CallKept DEF ServerInv
<1>3. None \notin Clients
  BY EnrolmentAssumption
<1> QED
  BY <1>1, <1>2, <1>3 DEF ServerInv

(* A step that changes the call of c only.                                 *)
LEMMA CallStep ==
    ASSUME ServerInv, EnrolmentTypeOK', NEW c \in Clients,
           UNCHANGED <<agent, token>>,
           \A o \in Clients \ {c} : call'[o] = call[o], CallOK(c)'
    PROVE  ServerInv' /\ \A o \in Agents : Ages(o)
<1>1. \A o \in Agents : Ages(o) /\ RowOK(o)'
  BY SameAges DEF ServerInv
<1>2. ASSUME NEW o \in Clients \ {c} PROVE CallOK(o)'
  BY <1>1, CallKept DEF ServerInv
<1> QED
  BY <1>1, <1>2 DEF ServerInv

-----------------------------------------------------------------------------
(* The operators' requests, the clock and the health monitor.              *)

Operator(a) ==
    \/ GenerateEnrollmentToken(a) \/ MarkOffline(a)
    \/ GenerateRegistrationToken(a) \/ Intervene(a) \/ Expire(a)

LEMMA OperatorStep ==
    ASSUME ServerInv, NEW a \in Agents, Operator(a)
    PROVE  ServerInv' /\ (\A o \in Agents : Ages(o)) /\ UNCHANGED call
<1> USE DEF AgentRow, TokenRow
<1>1. /\ agent \in [Agents -> AgentRow] /\ token \in [Agents -> TokenRow] /\ RowOK(a)
      /\ call \in [Clients -> CallRow]
  BY DEF ServerInv, EnrolmentTypeOK, CallRow
<1>2. call' = call
  BY DEF Operator, Intervene, GenerateEnrollmentToken, MarkOffline,
     GenerateRegistrationToken, RevokeToken, Revoke, Delete, RotateToken, Expire
<1>3. ASSUME NEW r \in AgentRow, NEW t \in TokenRow,
             agent' = [agent EXCEPT ![a] = r], token' = [token EXCEPT ![a] = t],
             t.lock = token[a].lock
      PROVE  /\ agent' \in [Agents -> AgentRow] /\ token' \in [Agents -> TokenRow]
             /\ agent'[a] = r /\ token'[a] = t
             /\ Ages(a) /\ RowOK(a)' => ServerInv' /\ \A o \in Agents : Ages(o)
  <2>1. /\ agent' \in [Agents -> AgentRow] /\ agent'[a] = r
        /\ \A o \in Agents \ {a} : agent'[o] = agent[o]
    BY <1>1, <1>3
  <2>2. /\ token' \in [Agents -> TokenRow] /\ token'[a] = t
        /\ \A o \in Agents \ {a} : token'[o] = token[o]
    BY <1>1, <1>3
  <2>3. EnrolmentTypeOK'
    BY <1>1, <1>2, <2>1, <2>2 DEF EnrolmentTypeOK, CallRow
  <2> QED
    BY <1>2, <1>3, <2>1, <2>2, <2>3, ServerStep
<1>4. CASE GenerateEnrollmentToken(a)
  <2> DEFINE r == [agent[a] EXCEPT !.row = "live"]
             t == [token[a] EXCEPT !.state = "unused"]
  <2>1. r \in AgentRow /\ r.row = "live" /\ r.key = agent[a].key /\ r.rotated = agent[a].rotated
        /\ r.cred = agent[a].cred
    BY <1>1
  <2>2. t \in TokenRow /\ t.lock = token[a].lock /\ t.state = "unused"
    BY <1>1
  <2>3. /\ agent' = [agent EXCEPT ![a] = r] /\ token' = [token EXCEPT ![a] = t]
        /\ agent[a].row = "none"
    BY <1>1, <1>4 DEF GenerateEnrollmentToken, Live, Mint
  <2> HIDE DEF r, t
  <2>4. agent'[a] = r /\ token'[a] = t
    BY <1>3, <2>1, <2>2, <2>3
  <2>5. Ages(a) /\ RowOK(a)'
    BY <1>1, <2>1, <2>2, <2>3, <2>4 DEF Ages, RowOK
  <2> QED
    BY <1>2, <1>3, <2>1, <2>2, <2>3, <2>5
<1>5. CASE GenerateRegistrationToken(a)
  <2> DEFINE r == [agent[a] EXCEPT !.row = "live", !.key = TRUE]
             t == token[a]
  <2>1. r \in AgentRow /\ r.row = "live"
        /\ r.rotated = agent[a].rotated /\ r.cred = agent[a].cred
    BY <1>1
  <2>2. t \in TokenRow /\ t.lock = token[a].lock /\ t.state = token[a].state
    BY <1>1
  <2>3. /\ agent' = [agent EXCEPT ![a] = r] /\ token' = [token EXCEPT ![a] = t]
        /\ agent[a].row = "none"
    BY <1>1, <1>5 DEF GenerateRegistrationToken, Live, Mint
  <2> HIDE DEF r, t
  <2>4. agent'[a] = r /\ token'[a] = t
    BY <1>3, <2>1, <2>2, <2>3
  <2>5. Ages(a) /\ RowOK(a)'
    BY <1>1, <2>1, <2>2, <2>3, <2>4 DEF Ages, RowOK
  <2> QED
    BY <1>2, <1>3, <2>1, <2>2, <2>3, <2>5
<1>6. CASE MarkOffline(a)
  <2> DEFINE r == [agent[a] EXCEPT !.online = FALSE]
             t == token[a]
  <2>1. r \in AgentRow /\ r.row = agent[a].row /\ r.key = agent[a].key
        /\ r.rotated = agent[a].rotated /\ r.cred = agent[a].cred
    BY <1>1
  <2>2. t \in TokenRow /\ t.lock = token[a].lock /\ t.state = token[a].state
    BY <1>1
  <2>3. agent' = [agent EXCEPT ![a] = r] /\ token' = [token EXCEPT ![a] = t]
    BY <1>1, <1>6 DEF MarkOffline, Live, Mint
  <2> HIDE DEF r, t
  <2>4. agent'[a] = r /\ token'[a] = t
    BY <1>3, <2>1, <2>2, <2>3
  <2>5. Ages(a) /\ RowOK(a)'
    BY <1>1, <2>1, <2>2, <2>3, <2>4 DEF Ages, RowOK
  <2> QED
    BY <1>2, <1>3, <2>1, <2>2, <2>3, <2>5
<1>7. CASE Revoke(a)
  <2> DEFINE r == [agent[a] EXCEPT !.revoked = TRUE, !.online = FALSE]
             t == token[a]
  <2>1. r \in AgentRow /\ r.row = agent[a].row /\ r.key = agent[a].key
        /\ r.rotated = agent[a].rotated /\ r.cred = agent[a].cred
    BY <1>1
  <2>2. t \in TokenRow /\ t.lock = token[a].lock /\ t.state = token[a].state
    BY <1>1
  <2>3. agent' = [agent EXCEPT ![a] = r] /\ token' = [token EXCEPT ![a] = t]
    BY <1>1, <1>7 DEF Revoke, Live, Mint
  <2> HIDE DEF r, t
  <2>4. agent'[a] = r /\ token'[a] = t
    BY <1>3, <2>1, <2>2, <2>3
  <2>5. Ages(a) /\ RowOK(a)'
    BY <1>1, <2>1, <2>2, <2>3, <2>4 DEF Ages, RowOK
  <2> QED
    BY <1>2, <1>3, <2>1, <2>2, <2>3, <2>5
<1>8. CASE Delete(a)
  <2> DEFINE r == [agent[a] EXCEPT !.row = "deleted"]
             t == token[a]
  <2>1. r \in AgentRow /\ r.row = "deleted" /\ r.key = agent[a].key /\ r.rotated = agent[a].rotated
        /\ r.cred = agent[a].cred
    BY <1>1
  <2>2. t \in TokenRow /\ t.lock = token[a].lock /\ t.state = token[a].state
    BY <1>1
  <2>3. /\ agent' = [agent EXCEPT ![a] = r] /\ token' = [token EXCEPT ![a] = t]
        /\ agent[a].row = "live"
    BY <1>1, <1>8 DEF Delete, Live, Mint
  <2> HIDE DEF r, t
  <2>4. agent'[a] = r /\ token'[a] = t
    BY <1>3, <2>1, <2>2, <2>3
  <2>5. Ages(a) /\ RowOK(a)'
    BY <1>1, <2>1, <2>2, <2>3, <2>4 DEF Ages, RowOK
  <2> QED
    BY <1>2, <1>3, <2>1, <2>2, <2>3, <2>5
<1>9. CASE RotateToken(a)
  <2> DEFINE n == agent[a].cred + 1
             r == [agent[a] EXCEPT !.cred = n, !.rotated = TRUE]
             t == token[a]
  <2>1. /\ r \in AgentRow /\ r.row = agent[a].row /\ r.key = agent[a].key
        /\ r.rotated /\ r.cred # 0
    <3>1. n \in Nat /\ n # 0
      BY <1>1
    <3> HIDE DEF n
    <3> QED
      BY <1>1, <3>1
  <2>2. t \in TokenRow /\ t.lock = token[a].lock /\ t.state = token[a].state
    BY <1>1
  <2>3. /\ agent' = [agent EXCEPT ![a] = r] /\ token' = [token EXCEPT ![a] = t]
        /\ agent[a].row = "live"
    BY <1>1, <1>9 DEF RotateToken, Live, Mint
  <2> HIDE DEF r, t
  <2>4. agent'[a] = r /\ token'[a] = t
    BY <1>3, <2>1, <2>2, <2>3
  <2>5. Ages(a) /\ RowOK(a)'
    BY <1>1, <2>1, <2>2, <2>3, <2>4 DEF Ages, RowOK
  <2> QED
    BY <1>2, <1>3, <2>1, <2>2, <2>3, <2>5
<1>10. CASE RevokeToken(a)
  <2> DEFINE r == agent[a]
             t == [token[a] EXCEPT !.state = "revoked"]
  <2>1. r \in AgentRow /\ r.row = agent[a].row /\ r.key = agent[a].key
        /\ r.rotated = agent[a].rotated /\ r.cred = agent[a].cred
    BY <1>1
  <2>2. t \in TokenRow /\ t.lock = token[a].lock /\ t.state = "revoked"
    BY <1>1
  <2>3. /\ agent' = [agent EXCEPT ![a] = r] /\ token' = [token EXCEPT ![a] = t]
        /\ token[a].state = "unused" /\ token[a].lock = None
    BY <1>1, <1>10 DEF RevokeToken, Live, Mint
  <2> HIDE DEF r, t
  <2>4. agent'[a] = r /\ token'[a] = t
    BY <1>3, <2>1, <2>2, <2>3
  <2>5. Ages(a) /\ RowOK(a)'
    BY <1>1, <2>1, <2>2, <2>3, <2>4 DEF Ages, RowOK
  <2> QED
    BY <1>2, <1>3, <2>1, <2>2, <2>3, <2>5
<1>11. CASE Expire(a)
  <2> DEFINE r == agent[a]
             t == [token[a] EXCEPT !.expired = TRUE]
  <2>1. r \in AgentRow /\ r.row = agent[a].row /\ r.key = agent[a].key
        /\ r.rotated = agent[a].rotated /\ r.cred = agent[a].cred
    BY <1>1
  <2>2. t \in TokenRow /\ t.lock = token[a].lock /\ t.state = token[a].state
    BY <1>1
  <2>3. agent' = [agent EXCEPT ![a] = r] /\ token' = [token EXCEPT ![a] = t]
    BY <1>1, <1>11 DEF Expire, Live, Mint
  <2> HIDE DEF r, t
  <2>4. agent'[a] = r /\ token'[a] = t
    BY <1>3, <2>1, <2>2, <2>3
  <2>5. Ages(a) /\ RowOK(a)'
    BY <1>1, <2>1, <2>2, <2>3, <2>4 DEF Ages, RowOK
  <2> QED
    BY <1>2, <1>3, <2>1, <2>2, <2>3, <2>5
<1> QED
  BY <1>4, <1>5, <1>6, <1>7, <1>8, <1>9, <1>10, <1>11 DEF Operator, Intervene

-----------------------------------------------------------------------------
(* The handlers of the agents' calls.                                      *)

(* The call of c goes on, and still asks for the same.                     *)
GoesOn(c) ==
    /\ call' \in [Clients -> CallRow]
    /\ \A o \in Clients \ {c} : call'[o] = call[o]
    /\ call'[c].op = call[c].op /\ call'[c].agent = call[c].agent

LEMMA CallMoved ==
    ASSUME ServerInv, NEW c \in Clients, NEW at \in {"claim", "locked", "write"},
           MoveTo(c, at)
    PROVE  GoesOn(c) /\ call'[c].at = at
<1>1. call \in [Clients -> CallRow]
  BY DEF ServerInv, EnrolmentTypeOK, CallRow
<1> DEFINE x == [call[c] EXCEPT !.at = at]
<1>2. x \in CallRow /\ x.at = at /\ x.op = call[c].op /\ x.agent = call[c].agent
  BY <1>1 DEF CallRow
<1>3. call' = [call EXCEPT ![c] = x]
  BY DEF MoveTo
<1> HIDE DEF x
<1> QED
  BY <1>1, <1>2, <1>3 DEF GoesOn

LEMMA CallAnswered ==
    ASSUME ServerInv, NEW c \in Clients,
           NEW ans \in {"ok", "refused", "revoked", "lost"}, Answer(c, ans)
    PROVE  GoesOn(c) /\ call'[c].at = "answered" /\ call'[c].ans = ans
<1>1. call \in [Clients -> CallRow]
  BY DEF ServerInv, EnrolmentTypeOK, CallRow
<1> DEFINE x == [call[c] EXCEPT !.at = "answered", !.ans = ans]
<1>2. /\ x \in CallRow /\ x.at = "answered" /\ x.ans = ans
      /\ x.op = call[c].op /\ x.agent = call[c].agent
  BY <1>1 DEF CallRow
<1>3. call' = [call EXCEPT ![c] = x]
  BY <1>1 DEF Answer, CallRow
<1> HIDE DEF x
<1> QED
  BY <1>1, <1>2, <1>3 DEF GoesOn

LEMMA CallGranted ==
    ASSUME ServerInv, NEW c \in Clients, NEW n \in Nat, Granted(c, n)
    PROVE  GoesOn(c) /\ call'[c].at = "answered" /\ call'[c].n = n
<1>1. call \in [Clients -> CallRow]
  BY DEF ServerInv, EnrolmentTypeOK, CallRow
<1> DEFINE x == [call[c] EXCEPT !.at = "answered", !.ans = "ok", !.n = n]
<1>2. /\ x \in CallRow /\ x.at = "answered" /\ x.n = n
      /\ x.op = call[c].op /\ x.agent = call[c].agent
  BY <1>1 DEF CallRow
<1>3. call' = [call EXCEPT ![c] = x]
  BY <1>1 DEF Granted, CallRow
<1> HIDE DEF x
<1> QED
  BY <1>1, <1>2, <1>3 DEF GoesOn

(* A call that is refused, or whose answer is lost, grants nothing.        *)
LEMMA Ungranted ==
    ASSUME ServerInv, NEW c \in Clients, NEW ans \in {"refused", "revoked", "lost"},
           Answer(c, ans)
    PROVE  GoesOn(c) /\ CallOK(c)'
<1>1. GoesOn(c) /\ call'[c].at = "answered" /\ call'[c].ans = ans
  BY CallAnswered
<1> QED
  BY <1>1 DEF CallOK, Answered

(* Only the call moves.                                                    *)
LEMMA OnlyCall ==
    ASSUME ServerInv, NEW c \in Clients, GoesOn(c), UNCHANGED <<agent, token>>, CallOK(c)'
    PROVE  ServerInv' /\ \A a \in Agents : Ages(a)
<1>1. EnrolmentTypeOK'
  BY DEF ServerInv, EnrolmentTypeOK, GoesOn, CallRow
<1> QED
  BY <1>1, CallStep DEF GoesOn

(* The call moves, and the row of a changes with it.                       *)
LEMMA CallAndRow ==
    ASSUME ServerInv, NEW c \in Clients, GoesOn(c), NEW a \in Agents,
           NEW r \in AgentRow, NEW t \in TokenRow,
           agent' = [agent EXCEPT ![a] = r], token' = [token EXCEPT ![a] = t],
           t.lock = token[a].lock \/ token[a].lock \in {c, None}
    PROVE  /\ agent'[a] = r /\ token'[a] = t
           /\ Ages(a) /\ RowOK(a)' /\ CallOK(c)'
                => ServerInv' /\ \A o \in Agents : Ages(o)
<1>1. agent \in [Agents -> AgentRow] /\ token \in [Agents -> TokenRow]
  BY DEF ServerInv, EnrolmentTypeOK, AgentRow, TokenRow
<1>2. /\ agent' \in [Agents -> AgentRow] /\ agent'[a] = r
      /\ \A o \in Agents \ {a} : agent'[o] = agent[o]
  BY <1>1
<1>3. /\ token' \in [Agents -> TokenRow] /\ token'[a] = t
      /\ \A o \in Agents \ {a} : token'[o] = token[o]
  BY <1>1
<1>4. EnrolmentTypeOK'
  BY <1>2, <1>3 DEF EnrolmentTypeOK, GoesOn, AgentRow, TokenRow, CallRow
<1> QED
  BY <1>2, <1>3, <1>4, ServerStep DEF GoesOn

Handler(c) ==
    Serve(c) \/ LoseAnswer(c) \/ EnrollAbort(c) \/ RegisterUnwritten(c)

LEMMA EnrollSteps ==
    ASSUME ServerInv, NEW c \in Clients,
           \/ EnrollRead(c) \/ EnrollClaim(c) \/ EnrollCheck(c) \/ EnrollAbort(c)
    PROVE  ServerInv' /\ (\A o \in Agents : Ages(o)) /\ GoesOn(c)
<1>0. PICK a : a = call[c].agent
  OBVIOUS
<1>1. /\ a \in Agents \cup {None} /\ None \notin Agents /\ None \notin Clients
      /\ CallOK(c) /\ \A o \in Agents : RowOK(o)
      /\ agent \in [Agents -> AgentRow] /\ token \in [Agents -> TokenRow]
  BY <1>0, EnrolmentAssumption DEF ServerInv, EnrolmentTypeOK, AgentRow, TokenRow
<1>2. ASSUME Answer(c, "refused"), UNCHANGED <<agent, token>>
      PROVE  ServerInv' /\ (\A o \in Agents : Ages(o)) /\ GoesOn(c)
  BY <1>2, Ungranted, OnlyCall
<1>3. ASSUME Answer(c, "refused"), Unlock(a), UNCHANGED agent, a \in Agents,
             token[a].lock = c
      PROVE  ServerInv' /\ (\A o \in Agents : Ages(o)) /\ GoesOn(c)
  <2> DEFINE r == agent[a]
             t == [token[a] EXCEPT !.lock = None]
  <2>1. GoesOn(c) /\ CallOK(c)'
    BY <1>3, Ungranted
  <2>2. r = agent[a] /\ r \in AgentRow /\ agent' = [agent EXCEPT ![a] = r]
    BY <1>1, <1>3
  <2>3. t \in TokenRow /\ t.state = token[a].state /\ t.lock = None
    BY <1>1, <1>3 DEF TokenRow
  <2>4. token' = [token EXCEPT ![a] = t]
    BY <1>3 DEF Unlock
  <2> HIDE DEF r, t
  <2>5. agent'[a] = r /\ token'[a] = t
    BY <1>1, <1>3, <2>2, <2>3, <2>4
  <2>6. Ages(a) /\ RowOK(a)'
    BY <1>1, <1>3, <2>2, <2>3, <2>5 DEF Ages, RowOK
  <2> QED
    BY <1>3, <2>1, <2>2, <2>3, <2>4, <2>6, CallAndRow
<1>4. CASE EnrollRead(c)
  <2>1. CASE Answer(c, "refused")
    BY <1>0, <1>2, <1>4, <2>1 DEF EnrollRead
  <2>2. CASE MoveTo(c, "claim") /\ a # None
    <3>1. GoesOn(c) /\ call'[c].at = "claim" /\ UNCHANGED <<agent, token>>
      BY <1>4, <2>2, CallMoved DEF EnrollRead
    <3>2. call'[c].agent = a /\ a \in Agents /\ call'[c].op = "enroll"
      BY <1>0, <1>1, <1>4, <2>2, <3>1 DEF EnrollRead, At, GoesOn
    <3>3. CallOK(c)'
      BY <3>1, <3>2 DEF CallOK, Answered
    <3> QED
      BY <3>1, <3>3, OnlyCall
  <2> QED
    BY <1>0, <1>4, <2>1, <2>2 DEF EnrollRead
<1>5. CASE EnrollClaim(c)
  <2>1. /\ call[c].op = "enroll" /\ a \in Agents /\ token[a].lock = None /\ agent' = agent
    BY <1>0, <1>1, <1>5 DEF EnrollClaim, At, CallOK
  <2>2. CASE Answer(c, "refused") /\ UNCHANGED token
    BY <1>2, <2>1, <2>2
  <2>3. CASE /\ token' = [token EXCEPT ![a].lock = c] /\ MoveTo(c, "locked")
             /\ token[a].state = "unused"
    <3> DEFINE r == agent[a]
               t == [token[a] EXCEPT !.lock = c]
    <3>1. GoesOn(c) /\ call'[c].at = "locked"
      BY <2>3, CallMoved
    <3>2. r = agent[a] /\ r \in AgentRow /\ agent' = [agent EXCEPT ![a] = r]
      BY <1>1, <2>1
    <3>3. t \in TokenRow /\ t.state = "unused" /\ t.lock = c
      BY <1>1, <2>1, <2>3 DEF TokenRow
    <3>4. token' = [token EXCEPT ![a] = t] /\ call'[c].agent = a /\ call'[c].op = "enroll"
      BY <1>0, <2>1, <2>3, <3>1 DEF GoesOn
    <3> HIDE DEF r, t
    <3>5. agent'[a] = r /\ token'[a] = t
      BY <1>1, <2>1, <3>2, <3>3, <3>4
    <3>6. Ages(a) /\ RowOK(a)'
      BY <1>1, <2>1, <2>3, <3>2, <3>3, <3>5 DEF Ages, RowOK
    <3>7. CallOK(c)'
      BY <2>1, <3>1, <3>3, <3>4, <3>5 DEF CallOK, Answered
    <3> QED
      BY <2>1, <3>1, <3>2, <3>3, <3>4, <3>6, <3>7, CallAndRow
  <2> QED
    BY <1>0, <1>5, <2>2, <2>3 DEF EnrollClaim
<1>6. ASSUME At(c, "enroll", "locked") \/ At(c, "enroll", "write")
      PROVE  a \in Agents /\ token[a].lock = c /\ call[c].op = "enroll"
  BY <1>0, <1>1, <1>6 DEF At, CallOK
<1>7. CASE EnrollCheck(c)
  <2>1. a \in Agents /\ token[a].lock = c /\ call[c].op = "enroll"
    BY <1>6, <1>7 DEF EnrollCheck
  <2>2. CASE Answer(c, "refused") /\ Unlock(a)
    BY <1>0, <1>3, <1>7, <2>1, <2>2 DEF EnrollCheck
  <2>3. CASE MoveTo(c, "write") /\ UNCHANGED token
    <3>1. GoesOn(c) /\ call'[c].at = "write" /\ UNCHANGED <<agent, token>>
      BY <1>7, <2>3, CallMoved DEF EnrollCheck
    <3>2. call'[c].agent = a /\ call'[c].op = "enroll"
      BY <1>0, <2>1, <3>1 DEF GoesOn
    <3>3. CallOK(c)'
      BY <2>1, <3>1, <3>2 DEF CallOK, Answered
    <3> QED
      BY <3>1, <3>3, OnlyCall
  <2> QED
    BY <1>0, <1>7, <2>2, <2>3 DEF EnrollCheck
<1>8. CASE EnrollAbort(c)
  BY <1>0, <1>3, <1>6, <1>8 DEF EnrollAbort
<1> QED
  BY <1>4, <1>5, <1>7, <1>8

(* UPDATE agents by id: a new credential, or nothing on a deleted row.     *)
LEMMA RowWritten ==
    ASSUME agent \in [Agents -> AgentRow], NEW a \in Agents, Written(a)
    PROVE  \E r \in AgentRow :
              /\ agent' = [agent EXCEPT ![a] = r] /\ r.row = agent[a].row
              /\ r.rotated = agent[a].rotated
              /\ ~Live(a) => r = agent[a]
              /\ Live(a) => r.cred = agent[a].cred + 1 /\ r.cred \in Nat /\ r.cred # 0 /\ ~r.key
<1>1. agent[a] \in AgentRow
  OBVIOUS
<1>2. CASE Live(a)
  <2> DEFINE n == agent[a].cred + 1
             r == [agent[a] EXCEPT !.cred = n, !.online = TRUE, !.key = FALSE]
  <2>1. n \in Nat /\ n # 0
    BY <1>1 DEF AgentRow
  <2>2. agent' = [agent EXCEPT ![a] = r]
    BY <1>1, <1>2 DEF Written, Mint, AgentRow
  <2>3. /\ r \in AgentRow /\ r.row = agent[a].row /\ r.rotated = agent[a].rotated
        /\ r.cred = n /\ ~r.key
    <3> HIDE DEF n
    <3> QED
      BY <1>1, <2>1 DEF AgentRow
  <2> HIDE DEF r
  <2> QED
    BY <1>2, <2>1, <2>2, <2>3
<1>3. CASE ~Live(a)
  BY <1>1, <1>3 DEF Written
<1> QED
  BY <1>2, <1>3

LEMMA CommitStep ==
    ASSUME ServerInv, NEW c \in Clients, EnrollCommit(c)
    PROVE  ServerInv' /\ (\A o \in Agents : Ages(o)) /\ GoesOn(c)
<1>1. PICK a : a = call[c].agent
  OBVIOUS
<1>2. /\ None \notin Clients /\ CallOK(c) /\ \A o \in Agents : RowOK(o)
      /\ agent \in [Agents -> AgentRow] /\ token \in [Agents -> TokenRow]
  BY EnrolmentAssumption DEF ServerInv, EnrolmentTypeOK, AgentRow, TokenRow
<1>3. a \in Agents /\ token[a].lock = c /\ call[c].op = "enroll"
  BY <1>1, <1>2 DEF EnrollCommit, At, CallOK
<1>4. RowOK(a) /\ token[a].state = "unused" /\ agent[a].row # "none"
  BY <1>2, <1>3 DEF RowOK
<1>5. PICK r \in AgentRow :
              /\ agent' = [agent EXCEPT ![a] = r] /\ r.row = agent[a].row
              /\ r.rotated = agent[a].rotated
              /\ ~Live(a) => r = agent[a]
              /\ Live(a) => r.cred = agent[a].cred + 1 /\ r.cred \in Nat /\ r.cred # 0 /\ ~r.key
  BY <1>1, <1>2, <1>3, RowWritten DEF EnrollCommit
<1>6. ~Live(a) => agent[a].row = "deleted"
  BY <1>2, <1>3, <1>4, EnrolmentAssumption DEF Live, AgentRow
<1> DEFINE t == [token[a] EXCEPT !.lock = None, !.state = "used"]
<1>7. t \in TokenRow /\ t.lock = None /\ t.state = "used"
  BY <1>2, <1>3 DEF TokenRow
<1>8. token' = [token EXCEPT ![a] = t]
  BY <1>1, <1>2, <1>3 DEF EnrollCommit, KeepUsed, TokenRow
<1>9. agent[a].cred + 1 \in Nat
  BY <1>2, <1>3 DEF AgentRow
<1>10. /\ GoesOn(c) /\ call'[c].at = "answered" /\ call'[c].n = agent[a].cred + 1
       /\ call'[c].agent = a /\ call'[c].op = "enroll"
  BY <1>1, <1>3, <1>9, CallGranted DEF EnrollCommit, GoesOn
<1> HIDE DEF t
<1>11. agent'[a] = r /\ token'[a] = t
  BY <1>2, <1>3, <1>5, <1>7, <1>8
<1>12. Ages(a)
  BY <1>4, <1>5, <1>11 DEF Ages
<1>13. RowOK(a)'
  BY <1>3, <1>4, <1>5, <1>6, <1>7, <1>11 DEF RowOK
<1>14. CallOK(c)'
  <2>1. /\ agent'[a].row # "none"
        /\ \/ agent'[a].row = "deleted"
           \/ token'[a].state = "used" /\ call'[c].n = agent'[a].cred
    BY <1>4, <1>5, <1>6, <1>7, <1>10, <1>11
  <2> QED
    BY <1>3, <1>10, <2>1 DEF CallOK, Good, Granting
<1> QED
  BY <1>3, <1>5, <1>7, <1>8, <1>10, <1>12, <1>13, <1>14, CallAndRow

LEMMA RegisterSteps ==
    ASSUME ServerInv, NEW c \in Clients,
           RegisterRead(c) \/ RegisterWrite(c) \/ RegisterUnwritten(c)
    PROVE  ServerInv' /\ (\A o \in Agents : Ages(o)) /\ GoesOn(c)
<1>1. PICK a : a = call[c].agent
  OBVIOUS
<1>2. /\ None \notin Clients /\ CallOK(c) /\ \A o \in Agents : RowOK(o)
      /\ agent \in [Agents -> AgentRow] /\ token \in [Agents -> TokenRow]
      /\ a \in Agents \cup {None} /\ None \notin Agents
  BY <1>1, EnrolmentAssumption DEF ServerInv, EnrolmentTypeOK, AgentRow, TokenRow
<1>3. CASE RegisterRead(c)
  <2>1. CASE Answer(c, "refused")
    BY <1>3, <2>1, Ungranted, OnlyCall DEF RegisterRead
  <2>2. CASE MoveTo(c, "write") /\ Live(a) /\ agent[a].key
    <3>1. a \in Agents /\ agent[a].row # "none" /\ token[a].state = "none"
      BY <1>2, <2>2 DEF Live, RowOK
    <3>2. GoesOn(c) /\ call'[c].at = "write" /\ UNCHANGED <<agent, token>>
      BY <1>3, <2>2, CallMoved DEF RegisterRead
    <3>3. call'[c].op = "register" /\ call'[c].agent = a
      BY <1>1, <1>3, <3>2 DEF RegisterRead, At, GoesOn
    <3>4. CallOK(c)'
      BY <3>1, <3>2, <3>3 DEF CallOK, Answered
    <3> QED
      BY <3>2, <3>4, OnlyCall
  <2> QED
    BY <1>1, <1>3, <2>1, <2>2 DEF RegisterRead
<1>4. CASE RegisterWrite(c)
  <2>1. a \in Agents /\ agent[a].row # "none" /\ token[a].state = "none"
        /\ call[c].op = "register"
    BY <1>1, <1>2, <1>4 DEF RegisterWrite, At, CallOK
  <2>2. PICK r \in AgentRow :
              /\ agent' = [agent EXCEPT ![a] = r] /\ r.row = agent[a].row
              /\ r.rotated = agent[a].rotated
              /\ ~Live(a) => r = agent[a]
              /\ Live(a) => r.cred = agent[a].cred + 1 /\ r.cred \in Nat /\ r.cred # 0 /\ ~r.key
    BY <1>1, <1>2, <1>4, <2>1, RowWritten DEF RegisterWrite
  <2>3. PICK t \in TokenRow : t = token[a]
    BY <1>2, <2>1
  <2>4. token' = [token EXCEPT ![a] = t]
    BY <1>2, <1>4, <2>3 DEF RegisterWrite
  <2>5. agent[a].cred + 1 \in Nat
    BY <1>2, <2>1 DEF AgentRow
  <2>6. /\ GoesOn(c) /\ call'[c].at = "answered"
        /\ call'[c].agent = a /\ call'[c].op = "register"
    BY <1>1, <1>4, <2>1, <2>5, CallGranted DEF RegisterWrite, GoesOn
  <2>7. agent'[a] = r /\ token'[a] = t
    BY <1>2, <2>1, <2>2, <2>3, <2>4
  <2>8. Ages(a) /\ RowOK(a)'
    BY <1>2, <2>1, <2>2, <2>3, <2>7 DEF Ages, RowOK
  <2>9. CallOK(c)'
    BY <2>1, <2>2, <2>3, <2>6, <2>7 DEF CallOK, Good, Granting
  <2> QED
    BY <2>1, <2>2, <2>3, <2>4, <2>6, <2>8, <2>9, CallAndRow
<1>5. CASE RegisterUnwritten(c)
  <2>1. a \in Agents /\ agent[a].row # "none" /\ token[a].state = "none"
        /\ call[c].op = "register" /\ UNCHANGED <<agent, token>>
    BY <1>1, <1>2, <1>5 DEF RegisterUnwritten, At, CallOK
  <2>2. 0 \in Nat
    OBVIOUS
  <2>3. /\ GoesOn(c) /\ call'[c].at = "answered"
        /\ call'[c].agent = a /\ call'[c].op = "register"
    BY <1>1, <1>5, <2>1, <2>2, CallGranted DEF RegisterUnwritten, GoesOn
  <2>4. CallOK(c)'
    BY <2>1, <2>3 DEF CallOK, Good, Granting
  <2> QED
    BY <2>1, <2>3, <2>4, OnlyCall
<1> QED
  BY <1>3, <1>4, <1>5

LEMMA HeartbeatSteps ==
    ASSUME ServerInv, NEW c \in Clients,
           HeartbeatAuth(c) \/ Heartbeat(c) \/ LoseAnswer(c)
    PROVE  ServerInv' /\ (\A o \in Agents : Ages(o)) /\ GoesOn(c)
<1>1. PICK a : a = call[c].agent
  OBVIOUS
<1>2. /\ \A o \in Agents : RowOK(o)
      /\ agent \in [Agents -> AgentRow] /\ token \in [Agents -> TokenRow]
      /\ a \in Agents \cup {None}
  BY <1>1 DEF ServerInv, EnrolmentTypeOK, AgentRow, TokenRow
<1>3. CASE LoseAnswer(c)
  BY <1>3, Ungranted, OnlyCall DEF LoseAnswer
<1>4. CASE HeartbeatAuth(c)
  <2>1. CASE Answer(c, "refused") \/ Answer(c, "revoked")
    BY <1>4, <2>1, Ungranted, OnlyCall DEF HeartbeatAuth
  <2>2. CASE MoveTo(c, "write")
    <3>1. GoesOn(c) /\ call'[c].at = "write" /\ UNCHANGED <<agent, token>>
      BY <1>4, <2>2, CallMoved DEF HeartbeatAuth
    <3>2. call'[c].op = "heartbeat"
      BY <1>4, <3>1 DEF HeartbeatAuth, At, GoesOn
    <3> QED
      BY <3>1, <3>2, OnlyCall DEF CallOK
  <2> QED
    BY <1>4, <2>1, <2>2 DEF HeartbeatAuth
<1>5. CASE Heartbeat(c)
  <2>1. GoesOn(c) /\ call'[c].op = "heartbeat"
    BY <1>5, CallAnswered DEF Heartbeat, At, GoesOn
  <2>2. CallOK(c)'
    BY <2>1 DEF CallOK
  <2>3. CASE Live(a)
    <3> DEFINE r == [agent[a] EXCEPT !.online = TRUE]
    <3>1. a \in Agents
      BY <1>2, <2>3 DEF Live
    <3>2. /\ r \in AgentRow /\ r.row = agent[a].row /\ r.key = agent[a].key
          /\ r.rotated = agent[a].rotated /\ r.cred = agent[a].cred
      BY <1>2, <3>1 DEF AgentRow
    <3>3. agent' = [agent EXCEPT ![a] = r]
      BY <1>1, <1>5, <2>3 DEF Heartbeat
    <3> HIDE DEF r
    <3>4. PICK t \in TokenRow : t = token[a]
      BY <1>2, <3>1
    <3>5. token' = [token EXCEPT ![a] = t]
      BY <1>2, <1>5, <3>4 DEF Heartbeat
    <3>6. agent'[a] = r /\ token'[a] = t
      BY <1>2, <3>1, <3>2, <3>3, <3>4, <3>5
    <3>7. Ages(a) /\ RowOK(a)'
      BY <1>2, <3>1, <3>2, <3>4, <3>6 DEF Ages, RowOK
    <3> QED
      BY <2>1, <2>2, <3>1, <3>2, <3>3, <3>4, <3>5, <3>7, CallAndRow
  <2>4. CASE ~Live(a)
    <3>1. UNCHANGED <<agent, token>>
      BY <1>1, <1>5, <2>4 DEF Heartbeat
    <3> QED
      BY <2>1, <2>2, <3>1, OnlyCall
  <2> QED
    BY <2>3, <2>4
<1> QED
  BY <1>3, <1>4, <1>5

LEMMA HandlerStep ==
    ASSUME ServerInv, NEW c \in Clients, Handler(c)
    PROVE  ServerInv' /\ (\A o \in Agents : Ages(o)) /\ GoesOn(c)
BY EnrollSteps, CommitStep, RegisterSteps, HeartbeatSteps DEF Handler, Serve

-----------------------------------------------------------------------------
(* The machines.                                                           *)

Running == {"enroll", "stop", "copy", "config", "save", "restart", "install", "start"}
Unsaved == {"enroll", "stop", "copy", "config", "save", "restart"}

ProcRow == [at : {"off", "starting", "asking", "idle", "polling", "beating"},
            cred : MayBe(Credentials), server : MayBe(Servers)]
SetupRow == [at : {"none", "enroll", "stop", "copy", "config", "save",
                   "restart", "install", "start", "done", "failed", "killed"},
             fresh : BOOLEAN, to : MayBe(Servers),
             new : MayBe(Credentials), old : DiskType,
             undo : SUBSET {"exe", "config", "service"},
             harmed : SUBSET {"exe", "config", "credential"}]

(* The files of the old installation, but for those whose writing failed.  *)
Kept(old, d, to, harmed) ==
    /\ old.exe # "none" => d.exe # "none"
    /\ old.exe = "whole" /\ "exe" \notin harmed => d.exe = "whole"
    /\ old.config # None => d.config # None
    /\ old.config \in Servers /\ "config" \notin harmed
         => d.config \in {old.config, to}

(* What the run added was not there before.                                *)
Added(old, u) == /\ "exe" \in u => old.exe = "none"
                 /\ "config" \in u => old.config = None

MachineOK(m) ==
    /\ proc[m].at \in {"polling", "beating"} => proc[m].cred \in Credentials
    /\ proc[m].at = "asking"
         => m \notin Wizards /\ call[AgentOf(m)].op \in {"enroll", "register"}
    /\ disk[m].store # None => Good(disk[m].store)
    /\ disk[m].state # None => Good(disk[m].state)
    /\ m \in Wizards => disk[m].state = None

RunOK(s, d) ==
    /\ s.at = "save" => s.fresh
    /\ s.at = "restart" => ~s.fresh
    /\ s.at \in Running => /\ Kept(s.old, d, s.to, {}) /\ Added(s.old, s.undo)
                           /\ s.to # None
                           /\ s.at \in Unsaved \/ ~s.fresh => d.store = s.old.store
    /\ s.at = "failed" => KeptFrom(s.old, d, s.to, s.harmed)

WizardOK(m) ==
    /\ setup[m].new # None => Good(setup[m].new)
    /\ setup[m].old.store # None => Good(setup[m].old.store)
    /\ setup[m].at = "enroll" => call[SetupOf(m)].op = "enroll"
    /\ RunOK(setup[m], disk[m])

MachinesTyped ==
    /\ disk \in [Machines -> DiskType] /\ proc \in [Machines -> ProcRow]
    /\ setup \in [Wizards -> SetupRow]

MachinesInv ==
    /\ MachinesTyped
    /\ \A m \in Machines : MachineOK(m)
    /\ \A m \in Wizards : WizardOK(m)

IInv ==
    ServerInv /\ MachinesInv
    /\ spent \in [setups : 0 .. MaxSetups, upsets : 0 .. MaxUpsets]

(* While the servers work the machines keep what they have.                *)
LEMMA MachinesWait ==
    ASSUME ServerInv, MachinesInv, UNCHANGED <<disk, proc, setup>>,
           \A a \in Agents : Ages(a), \A c \in Clients : call'[c].op = call[c].op
    PROVE  MachinesInv'
<1>1. MachinesTyped'
  BY DEF MachinesInv, MachinesTyped
<1>2. ASSUME NEW x \in Credentials, Good(x) PROVE Good(x)'
  BY <1>2, GoodKept DEF Credentials
<1>3. Wizards \subseteq Machines
  BY SetupAssumption
<1>4. ASSUME NEW m \in Machines PROVE MachineOK(m)'
  <2>1. disk[m].store \in MayBe(Credentials) /\ disk[m].state \in MayBe(Credentials)
    BY DEF MachinesInv, MachinesTyped, DiskType
  <2>2. PICK x, y : x = disk[m].store /\ y = disk[m].state
    OBVIOUS
  <2>3. (x # None => Good(x)) /\ (y # None => Good(y)) /\ x \in MayBe(Credentials)
        /\ y \in MayBe(Credentials)
    BY <2>1, <2>2 DEF MachinesInv, MachineOK
  <2>4. (x # None => Good(x)') /\ (y # None => Good(y)')
    BY <1>2, <2>3 DEF MayBe
  <2>5. (disk[m].store # None => Good(disk[m].store)')
        /\ (disk[m].state # None => Good(disk[m].state)')
    BY <2>2, <2>4 DEF Good
  <2>6. call'[AgentOf(m)].op = call[AgentOf(m)].op
    BY DEF AgentOf, Clients
  <2> QED
    BY <2>5, <2>6 DEF MachinesInv, MachineOK
<1>5. ASSUME NEW m \in Wizards PROVE WizardOK(m)'
  <2>1. /\ setup[m].new \in MayBe(Credentials)
        /\ setup[m].old.store \in MayBe(Credentials)
    BY DEF MachinesInv, MachinesTyped, SetupRow, DiskType
  <2>2. PICK x, y : x = setup[m].new /\ y = setup[m].old.store
    OBVIOUS
  <2>3. (x # None => Good(x)) /\ (y # None => Good(y)) /\ x \in MayBe(Credentials)
        /\ y \in MayBe(Credentials)
    BY <2>1, <2>2 DEF MachinesInv, WizardOK
  <2>4. (x # None => Good(x)') /\ (y # None => Good(y)')
    BY <1>2, <2>3 DEF MayBe
  <2>5. (setup[m].new # None => Good(setup[m].new)')
        /\ (setup[m].old.store # None => Good(setup[m].old.store)')
    BY <2>2, <2>4 DEF Good
  <2>6. call'[SetupOf(m)].op = call[SetupOf(m)].op
    BY <1>3 DEF SetupOf, Clients
  <2> QED
    BY <2>5, <2>6 DEF MachinesInv, WizardOK, RunOK
<1> QED
  BY <1>1, <1>4, <1>5 DEF MachinesInv

(* A client that posts a call, or forgets one, disturbs no handler.        *)
LEMMA ClientsCall ==
    ASSUME ServerInv, UNCHANGED <<agent, token>>, call' \in [Clients -> CallRow],
           \A c \in Clients : call'[c] = call[c] \/ call'[c].at \in {"none", "sent"}
    PROVE  ServerInv'
<1>1. EnrolmentTypeOK'
  BY DEF ServerInv, EnrolmentTypeOK, CallRow
<1>2. \A a \in Agents : Ages(a) /\ RowOK(a)'
  BY SameAges DEF ServerInv
<1>3. ASSUME NEW c \in Clients PROVE CallOK(c)'
  <2>1. CASE call'[c] = call[c]
    BY <1>2, <2>1, CallKept DEF ServerInv
  <2>2. CASE call'[c].at \in {"none", "sent"}
    BY <2>2 DEF CallOK, Answered
  <2> QED
    BY <2>1, <2>2
<1> QED
  BY <1>1, <1>2, <1>3 DEF ServerInv

LEMMA Posting ==
    ASSUME ServerInv, UNCHANGED <<agent, token>>, NEW c \in Clients,
           NEW op \in {"enroll", "register", "heartbeat"},
           NEW a \in Agents \cup {None}, NEW n \in Nat, Post(c, op, a, n)
    PROVE  ServerInv' /\ call'[c].op = op /\ \A o \in Clients \ {c} : call'[o] = call[o]
<1> DEFINE x == [op |-> op, agent |-> a, n |-> n, at |-> "sent", ans |-> "none"]
<1>1. x \in CallRow /\ x.op = op /\ x.at = "sent"
  BY DEF CallRow
<1>2. call' = [call EXCEPT ![c] = x] /\ call \in [Clients -> CallRow]
  BY DEF Post, ServerInv, EnrolmentTypeOK, CallRow
<1> HIDE DEF x
<1>3. /\ call' \in [Clients -> CallRow] /\ call'[c] = x
      /\ \A o \in Clients \ {c} : call'[o] = call[o]
  BY <1>1, <1>2
<1> QED
  BY <1>1, <1>3, ClientsCall

LEMMA Hanging ==
    ASSUME ServerInv, UNCHANGED <<agent, token>>, NEW c \in Clients, NEW d \in Clients,
           call' = [call EXCEPT ![c] = NoCall, ![d] = NoCall]
    PROVE  ServerInv' /\ \A o \in Clients \ {c, d} : call'[o] = call[o]
<1>1. NoCall \in CallRow /\ NoCall.at = "none"
  BY DEF CallRow, NoCall
<1>2. call \in [Clients -> CallRow]
  BY DEF ServerInv, EnrolmentTypeOK, CallRow
<1>3. /\ call' \in [Clients -> CallRow] /\ call'[c] = NoCall /\ call'[d] = NoCall
      /\ \A o \in Clients \ {c, d} : call'[o] = call[o]
  BY <1>1, <1>2
<1> QED
  BY <1>1, <1>3, ClientsCall

LEMMA HangingOne ==
    ASSUME ServerInv, UNCHANGED <<agent, token>>, NEW c \in Clients, Hangs(c)
    PROVE  ServerInv' /\ \A o \in Clients \ {c} : call'[o] = call[o]
<1>1. call \in [Clients -> CallRow]
  BY DEF ServerInv, EnrolmentTypeOK, CallRow
<1>2. call' = [call EXCEPT ![c] = NoCall, ![c] = NoCall]
  BY <1>1 DEF Hangs
<1> QED
  BY <1>2, Hanging

LEMMA Programs ==
    /\ \A m \in Machines : AgentOf(m) \in Clients /\ SetupOf(m) \in Clients
    /\ \A m, o \in Machines :
         /\ AgentOf(m) # SetupOf(o)
         /\ m # o => AgentOf(m) # AgentOf(o) /\ SetupOf(m) # SetupOf(o)
BY DEF AgentOf, SetupOf, Clients

(* The step of one machine.                                                *)
LEMMA OneMachine ==
    ASSUME ServerInv, MachinesInv, UNCHANGED <<agent, token>>, NEW m \in Machines,
           MachinesTyped',
           \A o \in Machines \ {m} : disk'[o] = disk[o] /\ proc'[o] = proc[o],
           \A o \in Wizards \ {m} : setup'[o] = setup[o],
           \A o \in Clients \ {AgentOf(m), SetupOf(m)} : call'[o] = call[o],
           MachineOK(m)', m \in Wizards => WizardOK(m)'
    PROVE  MachinesInv'
<1>1. ASSUME NEW o \in Machines \ {m} PROVE MachineOK(o)'
  <2>1. call'[AgentOf(o)] = call[AgentOf(o)]
    BY Programs
  <2>2. disk'[o] = disk[o] /\ proc'[o] = proc[o]
    OBVIOUS
  <2>3. MachineOK(o)
    BY DEF MachinesInv
  <2>4. agent' = agent /\ token' = token
    OBVIOUS
  <2>5. /\ disk[o].store # None => Good(disk[o].store)'
        /\ disk[o].state # None => Good(disk[o].state)'
    BY <2>2, <2>3, <2>4 DEF MachineOK, Good
  <2> QED
    BY <2>1, <2>2, <2>3, <2>5 DEF MachineOK
<1>2. ASSUME NEW o \in Wizards \ {m} PROVE WizardOK(o)'
  <2>1. o \in Machines /\ call'[SetupOf(o)] = call[SetupOf(o)]
    BY SetupAssumption, Programs
  <2>2. setup'[o] = setup[o] /\ disk'[o] = disk[o]
    BY <2>1
  <2>3. WizardOK(o)
    BY DEF MachinesInv
  <2>4. agent' = agent /\ token' = token
    OBVIOUS
  <2>5. /\ setup[o].new # None => Good(setup[o].new)'
        /\ setup[o].old.store # None => Good(setup[o].old.store)'
    BY <2>2, <2>3, <2>4 DEF WizardOK, Good
  <2>6. RunOK(setup[o], disk[o])
    BY <2>3 DEF WizardOK
  <2>7. RunOK(setup[o], disk[o])'
    BY <2>2, <2>6 DEF RunOK, Kept, KeptFrom
  <2> QED
    BY <2>1, <2>2, <2>3, <2>5, <2>7 DEF WizardOK
<1> QED
  BY <1>1, <1>2 DEF MachinesInv

(* The run of the set-up program does not mind what else happens.          *)
LEMMA WizardKept ==
    ASSUME MachinesInv, UNCHANGED <<agent, token>>, NEW m \in Wizards,
           setup'[m] = setup[m], disk'[m].store = disk[m].store,
           disk'[m].exe = disk[m].exe, disk'[m].config = disk[m].config,
           call'[SetupOf(m)] = call[SetupOf(m)]
    PROVE  WizardOK(m)'
<1>1. WizardOK(m)
  BY DEF MachinesInv
<1>2. /\ setup[m].new # None => Good(setup[m].new)'
      /\ setup[m].old.store # None => Good(setup[m].old.store)'
  BY <1>1 DEF WizardOK, Good
<1>3. RunOK(setup[m], disk[m])
  BY <1>1 DEF WizardOK
<1>4. RunOK(setup[m], disk[m])'
  BY <1>3 DEF RunOK, Kept, KeptFrom
<1> QED
  BY <1>1, <1>2, <1>4 DEF WizardOK

-----------------------------------------------------------------------------
(* The agent process.                                                      *)

LEMMA ProcWritten ==
    ASSUME MachinesInv, NEW m \in Machines, NEW p \in ProcRow,
           proc' = [proc EXCEPT ![m] = p]
    PROVE  /\ proc' \in [Machines -> ProcRow] /\ proc'[m] = p
           /\ \A o \in Machines \ {m} : proc'[o] = proc[o]
BY DEF MachinesInv, MachinesTyped

LEMMA DiskWritten ==
    ASSUME MachinesInv, NEW m \in Machines, NEW d \in DiskType,
           disk' = [disk EXCEPT ![m] = d]
    PROVE  /\ disk' \in [Machines -> DiskType] /\ disk'[m] = d
           /\ \A o \in Machines \ {m} : disk'[o] = disk[o]
BY DEF MachinesInv, MachinesTyped

LEMMA ServerForTyped ==
    ASSUME MachinesInv, NEW m \in Machines
    PROVE  ServerFor(m) \in MayBe(Servers)
BY SetupAssumption DEF ServerFor, Configured, MachinesInv, MachinesTyped, DiskType, MayBe

LEMMA ResolveStep ==
    ASSUME ServerInv, MachinesInv, NEW m \in Machines, Resolve(m)
    PROVE  ServerInv' /\ MachinesInv'
<1>1. /\ disk \in [Machines -> DiskType] /\ proc \in [Machines -> ProcRow]
      /\ setup \in [Wizards -> SetupRow] /\ MachineOK(m)
      /\ UNCHANGED <<agent, token, setup>>
  BY DEF MachinesInv, MachinesTyped, Resolve
<1>2. AgentOf(m) \in Clients /\ SetupOf(m) \in Clients /\ AgentOf(m) # SetupOf(m)
  BY Programs
<1>3. UNCHANGED call => ServerInv'
  BY <1>1, <1>2, ClientsCall DEF ServerInv, EnrolmentTypeOK, CallRow
<1>4. CASE \E x \in Credentials :
             /\ proc' = [proc EXCEPT ![m] = [at |-> "polling", cred |-> x,
                                             server |-> ServerFor(m)]]
             /\ \/ UNCHANGED disk
                \/ m \notin Wizards /\ disk[m].state = x /\ disk' = Stored(m, x)
             /\ UNCHANGED call
  <2>1. PICK x \in Credentials :
             /\ proc' = [proc EXCEPT ![m] = [at |-> "polling", cred |-> x,
                                             server |-> ServerFor(m)]]
             /\ \/ UNCHANGED disk
                \/ m \notin Wizards /\ disk[m].state = x /\ disk' = Stored(m, x)
             /\ UNCHANGED call
    BY <1>4
  <2> DEFINE p == [at |-> "polling", cred |-> x, server |-> ServerFor(m)]
  <2>2. p \in ProcRow /\ p.at = "polling" /\ p.cred = x
    BY ServerForTyped DEF ProcRow, MayBe
  <2> HIDE DEF p
  <2>3. /\ proc' \in [Machines -> ProcRow] /\ proc'[m] = p
        /\ \A o \in Machines \ {m} : proc'[o] = proc[o]
    BY <2>1, <2>2, ProcWritten DEF p
  <2>4. /\ disk' \in [Machines -> DiskType] /\ \A o \in Machines \ {m} : disk'[o] = disk[o]
        /\ disk'[m].store \in {disk[m].store, disk[m].state}
        /\ disk'[m].state = disk[m].state
        /\ m \in Wizards => disk' = disk
    <3>1. CASE UNCHANGED disk
      BY <1>1, <3>1
    <3>2. CASE m \notin Wizards /\ disk[m].state = x /\ disk' = Stored(m, x)
      <4> DEFINE d == [disk[m] EXCEPT !.store = x]
      <4>1. d \in DiskType /\ d.store = x /\ d.state = disk[m].state
        BY <1>1 DEF DiskType, MayBe
      <4>2. disk' = [disk EXCEPT ![m] = d]
        BY <3>2 DEF Stored
      <4> HIDE DEF d
      <4>3. /\ disk' \in [Machines -> DiskType] /\ disk'[m] = d
            /\ \A o \in Machines \ {m} : disk'[o] = disk[o]
        BY <4>1, <4>2, DiskWritten
      <4> QED
        BY <3>2, <4>1, <4>3
    <3> QED
      BY <2>1, <3>1, <3>2
  <2>5. MachineOK(m)'
    BY <1>1, <2>2, <2>3, <2>4 DEF MachineOK, Good
  <2>6. m \in Wizards => WizardOK(m)'
    BY <1>1, <2>1, <2>4, WizardKept
  <2>7. MachinesTyped'
    BY <1>1, <2>3, <2>4 DEF MachinesTyped
  <2> QED
    BY <1>1, <1>3, <2>1, <2>3, <2>4, <2>5, <2>6, <2>7, OneMachine
<1>5. CASE /\ m \notin Wizards /\ UNCHANGED disk
           /\ \E op \in {"enroll", "register"} : Post(AgentOf(m), op, EnvSecret[m], 0)
           /\ proc' = [proc EXCEPT ![m].at = "asking", ![m].server = ServerFor(m)]
  <2>1. PICK op \in {"enroll", "register"} : Post(AgentOf(m), op, EnvSecret[m], 0)
    BY <1>5
  <2>2. EnvSecret[m] \in Agents /\ 0 \in Nat
    BY <1>5, SetupAssumption
  <2>3. /\ ServerInv' /\ call'[AgentOf(m)].op = op
        /\ \A o \in Clients \ {AgentOf(m)} : call'[o] = call[o]
    BY <1>1, <1>2, <2>1, <2>2, Posting
  <2> DEFINE p == [proc[m] EXCEPT !.at = "asking", !.server = ServerFor(m)]
  <2>4. p \in ProcRow /\ p.at = "asking"
    BY <1>1, ServerForTyped DEF ProcRow
  <2>5. proc' = [proc EXCEPT ![m] = p]
    BY <1>1, <1>5 DEF ProcRow
  <2> HIDE DEF p
  <2>6. /\ proc' \in [Machines -> ProcRow] /\ proc'[m] = p
        /\ \A o \in Machines \ {m} : proc'[o] = proc[o]
    BY <2>4, <2>5, ProcWritten
  <2>7. MachineOK(m)'
    BY <1>1, <1>5, <2>3, <2>4, <2>6 DEF MachineOK, Good
  <2>8. MachinesTyped'
    BY <1>1, <1>5, <2>6 DEF MachinesTyped
  <2> QED
    BY <1>1, <1>5, <2>3, <2>6, <2>7, <2>8, OneMachine
<1>6. CASE Idles(m) /\ UNCHANGED <<disk, call>>
  <2> DEFINE p == [proc[m] EXCEPT !.at = "idle"]
  <2>1. p \in ProcRow /\ p.at = "idle"
    BY <1>1 DEF ProcRow
  <2>2. proc' = [proc EXCEPT ![m] = p]
    BY <1>6 DEF Idles
  <2> HIDE DEF p
  <2>3. /\ proc' \in [Machines -> ProcRow] /\ proc'[m] = p
        /\ \A o \in Machines \ {m} : proc'[o] = proc[o]
    BY <2>1, <2>2, ProcWritten
  <2>4. MachineOK(m)' /\ MachinesTyped'
    BY <1>1, <1>6, <2>1, <2>3 DEF MachineOK, Good, MachinesTyped
  <2>5. m \in Wizards => WizardOK(m)'
    BY <1>1, <1>6, WizardKept
  <2> QED
    BY <1>1, <1>3, <1>6, <2>3, <2>4, <2>5, OneMachine
<1>7. disk[m].store \in MayBe(Credentials) /\ disk[m].state \in MayBe(Credentials)
      /\ (m \in Wizards => disk[m].state = None)
  BY <1>1 DEF DiskType, MachineOK
<1> QED
  BY <1>4, <1>5, <1>6, <1>7 DEF Resolve, MayBe

(* The step of the agent process of m.                                     *)
LEMMA AgentStep ==
    ASSUME ServerInv, MachinesInv, ServerInv', UNCHANGED <<agent, token, setup>>,
           NEW m \in Machines, NEW p \in ProcRow, NEW d \in DiskType,
           proc' = [proc EXCEPT ![m] = p], disk' = [disk EXCEPT ![m] = d],
           p.at # "asking", p.at \in {"polling", "beating"} => p.cred \in Credentials,
           \A x \in {d.store, d.state} :
              x # None => x \in {disk[m].store, disk[m].state} \/ Good(x)',
           m \in Wizards => /\ d.store = disk[m].store /\ d.state = disk[m].state
                            /\ d.exe = disk[m].exe /\ d.config = disk[m].config,
           \A c \in Clients \ {AgentOf(m)} : call'[c] = call[c]
    PROVE  MachinesInv'
<1>1. /\ proc' \in [Machines -> ProcRow] /\ proc'[m] = p
      /\ \A o \in Machines \ {m} : proc'[o] = proc[o]
  BY ProcWritten
<1>2. /\ disk' \in [Machines -> DiskType] /\ disk'[m] = d
      /\ \A o \in Machines \ {m} : disk'[o] = disk[o]
  BY DiskWritten
<1>3. AgentOf(m) \in Clients /\ SetupOf(m) \in Clients /\ AgentOf(m) # SetupOf(m)
  BY Programs
<1>4. MachineOK(m) /\ setup \in [Wizards -> SetupRow]
  BY DEF MachinesInv, MachinesTyped
<1>5. MachinesTyped'
  BY <1>1, <1>2, <1>4 DEF MachinesTyped
<1>6. ASSUME NEW x \in {d.store, d.state}, x # None PROVE Good(x)'
  <2>1. CASE x \in {disk[m].store, disk[m].state}
    BY <1>4, <1>6, <2>1 DEF MachineOK, Good
  <2> QED
    BY <1>6, <2>1
<1>7. Good(disk[m].store)' <=> Good(d.store)'
  BY <1>2 DEF Good
<1>8. Good(disk[m].state)' <=> Good(d.state)'
  BY <1>2 DEF Good
<1>9. MachineOK(m)'
  BY <1>1, <1>2, <1>4, <1>6, <1>7, <1>8 DEF MachineOK
<1>10. m \in Wizards => WizardOK(m)'
  BY <1>2, <1>3, WizardKept
<1> QED
  BY <1>1, <1>2, <1>5, <1>9, <1>10, OneMachine

LEMMA EnrolledStep ==
    ASSUME ServerInv, MachinesInv, NEW m \in Machines, Enrolled(m)
    PROVE  ServerInv' /\ MachinesInv'
<1> DEFINE c == AgentOf(m)
<1>1. c \in Clients /\ UNCHANGED <<agent, token, setup>> /\ Hangs(c)
  BY Programs DEF Enrolled
<1>2. ServerInv' /\ \A o \in Clients \ {c} : call'[o] = call[o]
  BY <1>1, HangingOne
<1>3. /\ disk \in [Machines -> DiskType] /\ proc \in [Machines -> ProcRow] /\ MachineOK(m)
      /\ call \in [Clients -> CallRow] /\ CallOK(c)
  BY <1>1 DEF MachinesInv, MachinesTyped, ServerInv, EnrolmentTypeOK, CallRow
<1>4. /\ proc[m].at = "asking" /\ m \notin Wizards
      /\ call[c].op \in {"enroll", "register"}
  BY <1>3 DEF Enrolled, MachineOK
<1>5. CASE Idles(m) /\ UNCHANGED disk
  <2> DEFINE p == [proc[m] EXCEPT !.at = "idle"]
             d == disk[m]
  <2>1. p \in ProcRow /\ d \in DiskType /\ p.at = "idle"
    BY <1>3 DEF ProcRow
  <2>2. proc' = [proc EXCEPT ![m] = p] /\ disk' = [disk EXCEPT ![m] = d]
    BY <1>3, <1>5 DEF Idles
  <2> QED
    BY <1>1, <1>2, <1>4, <2>1, <2>2, AgentStep
<1>6. CASE /\ Answered(c, "ok") /\ Runs(m, Granting(c))
           /\ disk' = IF call[c].op = "enroll"
                      THEN Stored(m, Granting(c)) ELSE InState(m, Granting(c))
  <2>1. Granting(c) \in Credentials /\ Good(Granting(c))
    <3>1. call[c].agent \in Agents /\ Good(Granting(c))
      BY <1>3, <1>4, <1>6 DEF CallOK
    <3>2. call[c].n \in Nat
      BY <1>1, <1>3 DEF CallRow
    <3> QED
      BY <3>1, <3>2 DEF Granting, Credentials
  <2>2. PICK x \in Credentials : x = Granting(c)
    BY <2>1
  <2>3. Good(x)'
    BY <1>1, <2>1, <2>2 DEF Good
  <2> DEFINE p == [proc[m] EXCEPT !.at = "polling", !.cred = x]
             d == IF call[c].op = "enroll" THEN [disk[m] EXCEPT !.store = x]
                  ELSE [disk[m] EXCEPT !.state = x]
  <2>4. p \in ProcRow /\ p.at = "polling" /\ p.cred = x
    BY <1>3 DEF ProcRow, MayBe
  <2>5. d \in DiskType /\ \A y \in {d.store, d.state} :
                            y \in {x, disk[m].store, disk[m].state}
    BY <1>3 DEF DiskType, MayBe
  <2>6. proc' = [proc EXCEPT ![m] = p] /\ disk' = [disk EXCEPT ![m] = d]
    BY <1>3, <1>6, <2>2 DEF Runs, Stored, InState, ProcRow, DiskType
  <2> HIDE DEF p, d
  <2>7. \A y \in {d.store, d.state} :
           y # None => y \in {disk[m].store, disk[m].state} \/ Good(y)'
    BY <2>3, <2>5
  <2> QED
    BY <1>1, <1>2, <1>4, <2>4, <2>5, <2>6, <2>7, AgentStep
<1> QED
  BY <1>2, <1>5, <1>6 DEF Enrolled

LEMMA BeatStep ==
    ASSUME ServerInv, MachinesInv, NEW m \in Machines, Beat(m)
    PROVE  ServerInv' /\ MachinesInv'
<1> DEFINE c == AgentOf(m)
<1>1. c \in Clients /\ UNCHANGED <<agent, token, disk, setup>>
  BY Programs DEF Beat
<1>2. /\ disk \in [Machines -> DiskType] /\ proc \in [Machines -> ProcRow] /\ MachineOK(m)
  BY DEF MachinesInv, MachinesTyped
<1>3. proc[m].cred \in Credentials
  BY <1>2 DEF Beat, MachineOK
<1> DEFINE a == KnownAt(proc[m].server, proc[m].cred.agent)
           n == proc[m].cred.n
<1>4. a \in Agents \cup {None} /\ n \in Nat
  BY <1>3 DEF KnownAt, Credentials
<1>5. Post(c, "heartbeat", a, n)
  BY DEF Beat
<1> HIDE DEF a, n
<1>6. ServerInv' /\ \A o \in Clients \ {c} : call'[o] = call[o]
  BY <1>1, <1>4, <1>5, Posting
<1> DEFINE p == [proc[m] EXCEPT !.at = "beating"]
           d == disk[m]
<1>7. p \in ProcRow /\ d \in DiskType /\ p.at = "beating" /\ p.cred \in Credentials
  BY <1>2, <1>3 DEF ProcRow
<1>8. proc' = [proc EXCEPT ![m] = p] /\ disk' = [disk EXCEPT ![m] = d]
  BY <1>1, <1>2 DEF Beat
<1>9. \A x \in {d.store, d.state} : x \in {disk[m].store, disk[m].state}
  OBVIOUS
<1>10. d.store = disk[m].store /\ d.state = disk[m].state
       /\ d.exe = disk[m].exe /\ d.config = disk[m].config
  OBVIOUS
<1> HIDE DEF p, d
<1> QED
  BY <1>1, <1>6, <1>7, <1>8, <1>9, <1>10, AgentStep

LEMMA BeatenStep ==
    ASSUME ServerInv, MachinesInv, NEW m \in Machines, Beaten(m)
    PROVE  ServerInv' /\ MachinesInv'
<1> DEFINE c == AgentOf(m)
<1>1. c \in Clients /\ UNCHANGED <<agent, token, setup>> /\ Hangs(c)
  BY Programs DEF Beaten
<1>2. ServerInv' /\ \A o \in Clients \ {c} : call'[o] = call[o]
  BY <1>1, HangingOne
<1>3. /\ disk \in [Machines -> DiskType] /\ proc \in [Machines -> ProcRow] /\ MachineOK(m)
  BY DEF MachinesInv, MachinesTyped
<1>4. proc[m].cred \in Credentials
  BY <1>3 DEF Beaten, MachineOK
<1>a. PICK at \in {"off", "idle", "polling"}, svc \in {"stopped", disk[m].service} :
         /\ proc' = [proc EXCEPT ![m] = [proc[m] EXCEPT !.at = at]]
         /\ disk' = [disk EXCEPT ![m] = [disk[m] EXCEPT !.service = svc]]
  <2>1. CASE Runs(m, proc[m].cred) /\ UNCHANGED disk
    BY <1>3, <2>1 DEF Runs, ProcRow, DiskType
  <2>2. CASE /\ Exits(m)
             /\ disk' = IF m \in Wizards
                        THEN [disk EXCEPT ![m].service = "stopped"] ELSE disk
    BY <1>3, <2>2 DEF Exits, ProcRow, DiskType
  <2>3. CASE Idles(m) /\ UNCHANGED disk
    BY <1>3, <2>3 DEF Idles, ProcRow, DiskType
  <2> QED
    BY <2>1, <2>2, <2>3 DEF Beaten
<1> DEFINE p == [proc[m] EXCEPT !.at = at]
           d == [disk[m] EXCEPT !.service = svc]
<1>5. p \in ProcRow /\ d \in DiskType /\ p.at \in {"off", "idle", "polling"}
      /\ p.cred \in Credentials
  BY <1>3, <1>4 DEF ProcRow, DiskType
<1>6. d.store = disk[m].store /\ d.state = disk[m].state
      /\ d.exe = disk[m].exe /\ d.config = disk[m].config
  BY <1>3 DEF DiskType
<1>7. proc' = [proc EXCEPT ![m] = p]
  BY <1>a
<1>8. disk' = [disk EXCEPT ![m] = d]
  BY <1>a
<1> HIDE DEF p, d
<1>9. \A x \in {d.store, d.state} : x \in {disk[m].store, disk[m].state}
  BY <1>6
<1> QED
  BY <1>1, <1>2, <1>5, <1>6, <1>7, <1>8, <1>9, AgentStep

-----------------------------------------------------------------------------
(* The set-up program.                                                     *)

(* The step of a run of the set-up program on m.                           *)
LEMMA SetupStep ==
    ASSUME ServerInv, MachinesInv, ServerInv', UNCHANGED <<agent, token>>,
           NEW m \in Wizards, NEW s \in SetupRow, NEW d \in DiskType, NEW p \in ProcRow,
           setup' = [setup EXCEPT ![m] = s], disk' = [disk EXCEPT ![m] = d],
           proc' = [proc EXCEPT ![m] = p],
           p = proc[m] \/ p.at \in {"off", "starting"},
           d.state = disk[m].state,
           \A x \in {d.store, s.new, s.old.store} :
              x # None => \/ x \in {disk[m].store, setup[m].new, setup[m].old.store}
                          \/ Good(x)',
           RunOK(s, d), s.at = "enroll" => call'[SetupOf(m)].op = "enroll",
           \A c \in Clients \ {AgentOf(m), SetupOf(m)} : call'[c] = call[c]
    PROVE  MachinesInv'
<1>1. m \in Machines
  BY SetupAssumption
<1>2. /\ proc' \in [Machines -> ProcRow] /\ proc'[m] = p
      /\ \A o \in Machines \ {m} : proc'[o] = proc[o]
  BY <1>1, ProcWritten
<1>3. /\ disk' \in [Machines -> DiskType] /\ disk'[m] = d
      /\ \A o \in Machines \ {m} : disk'[o] = disk[o]
  BY <1>1, DiskWritten
<1>4. MachineOK(m) /\ WizardOK(m) /\ setup \in [Wizards -> SetupRow]
  BY <1>1 DEF MachinesInv, MachinesTyped
<1>5. /\ setup' \in [Wizards -> SetupRow] /\ setup'[m] = s
      /\ \A o \in Wizards \ {m} : setup'[o] = setup[o]
  BY <1>4
<1>6. MachinesTyped'
  BY <1>2, <1>3, <1>5 DEF MachinesTyped
<1>7. ASSUME NEW x \in {d.store, s.new, s.old.store}, x # None PROVE Good(x)'
  <2>1. CASE x \in {disk[m].store, setup[m].new, setup[m].old.store}
    BY <1>4, <1>7, <2>1 DEF MachineOK, WizardOK, Good
  <2> QED
    BY <1>7, <2>1
<1>8. /\ Good(disk[m].store)' <=> Good(d.store)'
      /\ Good(setup[m].new)' <=> Good(s.new)'
      /\ Good(setup[m].old.store)' <=> Good(s.old.store)'
  BY <1>3, <1>5 DEF Good
<1>9. d.state = None /\ p.at # "asking"
  BY <1>1, <1>4 DEF MachineOK
<1>10. p.at \in {"polling", "beating"} => p.cred \in Credentials
  BY <1>4 DEF MachineOK
<1>11. MachineOK(m)'
  BY <1>2, <1>3, <1>7, <1>8, <1>9, <1>10 DEF MachineOK
<1>12. RunOK(setup[m], disk[m])'
  BY <1>3, <1>5 DEF RunOK, Kept, KeptFrom
<1>13. WizardOK(m)'
  BY <1>5, <1>7, <1>8, <1>12 DEF WizardOK
<1> QED
  BY <1>1, <1>2, <1>3, <1>5, <1>6, <1>11, <1>13, OneMachine

LEMMA Found ==
    ASSUME MachinesInv, NEW m \in Wizards
    PROVE  /\ m \in Machines /\ AgentOf(m) \in Clients /\ SetupOf(m) \in Clients
           /\ AgentOf(m) # SetupOf(m)
           /\ disk \in [Machines -> DiskType] /\ proc \in [Machines -> ProcRow]
           /\ setup \in [Wizards -> SetupRow]
           /\ setup[m] \in SetupRow /\ disk[m] \in DiskType /\ proc[m] \in ProcRow
           /\ RunOK(setup[m], disk[m])
BY SetupAssumption, Programs DEF MachinesInv, MachinesTyped, WizardOK

LEMMA RebootStep ==
    ASSUME ServerInv, MachinesInv, NEW m \in Machines, Reboot(m)
    PROVE  ServerInv' /\ MachinesInv'
<1>1. AgentOf(m) \in Clients /\ SetupOf(m) \in Clients /\ UNCHANGED <<agent, token>>
  BY Programs DEF Reboot
<1>2. ServerInv' /\ \A c \in Clients \ {AgentOf(m), SetupOf(m)} : call'[c] = call[c]
  BY <1>1, Hanging DEF Reboot
<1>3. /\ disk \in [Machines -> DiskType] /\ proc \in [Machines -> ProcRow]
      /\ setup \in [Wizards -> SetupRow] /\ MachineOK(m)
  BY DEF MachinesInv, MachinesTyped
<1> DEFINE up == m \in Wizards => disk[m].service # "none" /\ disk[m].exe = "whole"
           p == [proc[m] EXCEPT !.at = IF up THEN "starting" ELSE "off"]
           d == IF m \notin Wizards THEN disk[m]
                ELSE IF up THEN Up(disk[m]) ELSE Halted(disk[m])
<1>4. p \in ProcRow /\ p.at \in {"off", "starting"}
  BY <1>3 DEF ProcRow
<1>5. /\ d \in DiskType /\ d.store = disk[m].store /\ d.state = disk[m].state
      /\ d.exe = disk[m].exe /\ d.config = disk[m].config
  BY <1>3 DEF DiskType, Up, Halted
<1>6. proc' = [proc EXCEPT ![m] = p]
  BY <1>3 DEF Reboot
<1>7. disk' = [disk EXCEPT ![m] = d]
  <2>1. CASE m \in Wizards
    BY <1>3, <2>1 DEF Reboot
  <2>2. CASE m \notin Wizards
    BY <1>3, <2>2 DEF Reboot
  <2> QED
    BY <2>1, <2>2
<1> HIDE DEF up, p, d
<1>8. CASE m \in Wizards
  <2> DEFINE s == IF setup[m].at \notin {"none", "done", "failed"}
                  THEN [setup[m] EXCEPT !.at = "killed"] ELSE setup[m]
  <2>1. s \in SetupRow /\ s.new = setup[m].new /\ s.old = setup[m].old
        /\ s.at # "enroll"
    BY <1>3, <1>8 DEF SetupRow
  <2>2. setup' = [setup EXCEPT ![m] = s]
    BY <1>3, <1>8 DEF Reboot, SetupRow
  <2>3. RunOK(s, d)
    <3>1. RunOK(setup[m], disk[m]) /\ setup[m] \in SetupRow
      BY <1>8, Found
    <3>2. CASE s = setup[m]
      BY <1>5, <3>1, <3>2 DEF RunOK, Kept, KeptFrom
    <3>3. CASE s.at = "killed"
      BY <3>3 DEF RunOK, Running
    <3> QED
      BY <3>1, <3>2, <3>3 DEF SetupRow
  <2> HIDE DEF s
  <2>4. \A x \in {d.store, s.new, s.old.store} :
           x \in {disk[m].store, setup[m].new, setup[m].old.store}
    BY <1>5, <2>1
  <2> QED
    BY <1>1, <1>2, <1>4, <1>5, <1>6, <1>7, <1>8, <2>1, <2>2, <2>3, <2>4, SetupStep
<1>9. CASE m \notin Wizards
  <2>1. /\ proc' \in [Machines -> ProcRow] /\ proc'[m] = p
        /\ \A o \in Machines \ {m} : proc'[o] = proc[o]
    BY <1>4, <1>6, ProcWritten
  <2>2. /\ disk' \in [Machines -> DiskType] /\ disk'[m] = d
        /\ \A o \in Machines \ {m} : disk'[o] = disk[o]
    BY <1>5, <1>7, DiskWritten
  <2>3. setup' = setup
    BY <1>9 DEF Reboot
  <2>4. MachineOK(m)' /\ MachinesTyped'
    BY <1>1, <1>3, <1>4, <1>5, <1>9, <2>1, <2>2, <2>3 DEF MachineOK, Good, MachinesTyped
  <2> QED
    BY <1>1, <1>2, <1>9, <2>1, <2>2, <2>3, <2>4, OneMachine
<1> QED
  BY <1>2, <1>8, <1>9

LEMMA RunStep ==
    ASSUME ServerInv, MachinesInv, NEW m \in Wizards, NEW s \in Servers,
           NEW secret \in MayBe(Secrets(s)), Run(m, s, secret)
    PROVE  ServerInv' /\ MachinesInv'
<1> DEFINE c == SetupOf(m)
           fresh == Plan(m, s, secret) = "fresh"
           r == [NoSetup EXCEPT !.at = IF fresh THEN "enroll" ELSE "stop",
                                !.fresh = fresh, !.to = s, !.old = disk[m]]
<1>1. /\ m \in Machines /\ c \in Clients /\ disk[m] \in DiskType /\ proc[m] \in ProcRow
      /\ disk \in [Machines -> DiskType] /\ proc \in [Machines -> ProcRow]
  BY Found
<1>2. UNCHANGED <<agent, token, disk, proc>>
  BY DEF Run
<1>3. /\ ServerInv' /\ \A o \in Clients \ {c} : call'[o] = call[o]
      /\ fresh => call'[c].op = "enroll"
  <2>1. CASE fresh
    <3>1. Post(c, "enroll", secret, 0)
      BY <2>1 DEF Run
    <3>2. secret \in Agents \cup {None} /\ 0 \in Nat
      BY DEF MayBe, Secrets
    <3> QED
      BY <1>1, <1>2, <3>1, <3>2, Posting
  <2>2. CASE ~fresh
    <3>1. UNCHANGED call
      BY <2>2 DEF Run
    <3>2. call' \in [Clients -> CallRow]
      BY <3>1 DEF ServerInv, EnrolmentTypeOK, CallRow
    <3> QED
      BY <1>2, <2>2, <3>1, <3>2, ClientsCall
  <2> QED
    BY <2>1, <2>2
<1>4. setup' = [setup EXCEPT ![m] = r]
  BY DEF Run
<1>5. Kept(disk[m], disk[m], s, {}) /\ Added(disk[m], {})
  BY DEF Kept, Added
<1>6. /\ r \in SetupRow /\ r.new = None /\ r.old = disk[m] /\ r.undo = {}
      /\ r.to = s /\ r.at = IF fresh THEN "enroll" ELSE "stop"
  BY <1>1 DEF NoSetup, SetupRow, MayBe
<1> HIDE DEF r, fresh
<1>7. RunOK(r, disk[m])
  BY <1>5, <1>6, SetupAssumption DEF RunOK, Running
<1> DEFINE p == proc[m]
           d == disk[m]
<1>8. /\ proc' = [proc EXCEPT ![m] = p] /\ disk' = [disk EXCEPT ![m] = d]
      /\ p \in ProcRow /\ p = proc[m] /\ d \in DiskType /\ d.state = disk[m].state
      /\ RunOK(r, d)
      /\ \A x \in {d.store, r.new, r.old.store} :
            x # None => x \in {disk[m].store, setup[m].new, setup[m].old.store}
      /\ r.at = "enroll" => call'[SetupOf(m)].op = "enroll"
  BY <1>1, <1>2, <1>3, <1>6, <1>7
<1> HIDE DEF p, d
<1>9. UNCHANGED <<agent, token>>
  BY <1>2
<1>10. \A o \in Clients \ {AgentOf(m), SetupOf(m)} : call'[o] = call[o]
  BY <1>3
<1> HIDE DEF c
<1> QED
  BY <1>3, <1>4, <1>6, <1>8, <1>9, <1>10, SetupStep

(* What the rollback removes is what the run added.                        *)
LEMMA Undoing ==
    ASSUME NEW d \in DiskType, NEW old, NEW to, NEW harmed, NEW u,
           Kept(old, d, to, harmed), Added(old, u)
    PROVE  /\ Undone(d, u) \in DiskType /\ Kept(old, Undone(d, u), to, harmed)
           /\ Undone(d, u).store = d.store /\ Undone(d, u).state = d.state
<1> DEFINE e == IF "service" \in u THEN Removed(d) ELSE d
           f == [e EXCEPT !.exe = IF "exe" \in u THEN "none" ELSE @,
                          !.config = IF "config" \in u THEN None ELSE @]
<1>1. /\ e \in DiskType /\ e.store = d.store /\ e.state = d.state
      /\ e.exe = d.exe /\ e.config = d.config
  BY DEF DiskType, Removed
<1>2. Undone(d, u) = f
  BY DEF Undone
<1> HIDE DEF e
<1>3. /\ f.store = e.store /\ f.state = e.state
      /\ f.exe = (IF "exe" \in u THEN "none" ELSE e.exe)
      /\ f.config = IF "config" \in u THEN None ELSE e.config
  BY <1>1 DEF DiskType
<1>4. f \in DiskType
  BY <1>1 DEF DiskType, MayBe
<1> HIDE DEF f
<1>5. Kept(old, f, to, harmed)
  BY <1>1, <1>3, SetupAssumption DEF Kept, Added
<1> QED
  BY <1>1, <1>2, <1>3, <1>4, <1>5

LEMMA FailedStep ==
    ASSUME ServerInv, MachinesInv, ServerInv', UNCHANGED <<agent, token>>,
           NEW m \in Wizards, NEW d \in DiskType, NEW p \in ProcRow,
           NEW harmed \in SUBSET {"exe", "config", "credential"},
           FailLeaving(m, d, harmed), proc' = [proc EXCEPT ![m] = p],
           p = proc[m] \/ p.at \in {"off", "starting"},
           KeptFrom(setup[m].old, d, setup[m].to, harmed), d.state = disk[m].state,
           d.store \in {disk[m].store, setup[m].old.store, None},
           \A c \in Clients \ {AgentOf(m), SetupOf(m)} : call'[c] = call[c]
    PROVE  MachinesInv'
<1> DEFINE s == [setup[m] EXCEPT !.at = "failed", !.harmed = harmed]
<1>1. /\ s \in SetupRow /\ s.at = "failed" /\ s.old = setup[m].old
      /\ s.new = setup[m].new /\ s.to = setup[m].to /\ s.harmed = harmed
  <2>1. setup[m] \in SetupRow
    BY Found
  <2> QED
    BY <2>1 DEF SetupRow
<1>2. setup' = [setup EXCEPT ![m] = s] /\ disk' = [disk EXCEPT ![m] = d]
  BY Found DEF FailLeaving, SetupRow
<1> HIDE DEF s
<1>3. RunOK(s, d)
  BY <1>1 DEF RunOK, Running
<1>4. \A x \in {d.store, s.new, s.old.store} :
         x # None => x \in {disk[m].store, setup[m].new, setup[m].old.store}
  BY <1>1
<1> QED
  BY <1>1, <1>2, <1>3, <1>4, SetupStep

(* Whatever of the rollback fails, it leaves what was there.               *)
LEMMA RollbackStep ==
    ASSUME ServerInv, MachinesInv, ServerInv', UNCHANGED <<agent, token>>,
           NEW m \in Wizards, NEW d \in DiskType, NEW p \in ProcRow,
           NEW harmed \in SUBSET {"exe", "config"},
           setup[m].at \in Running, Rollback(m, d, harmed),
           proc' = [proc EXCEPT ![m] = p],
           p = proc[m] \/ p.at \in {"off", "starting"},
           Kept(setup[m].old, d, setup[m].to, harmed), d.state = disk[m].state,
           d.store \in {disk[m].store, None},
           ~setup[m].fresh => d.store = setup[m].old.store,
           \A c \in Clients \ {AgentOf(m), SetupOf(m)} : call'[c] = call[c]
    PROVE  MachinesInv'
<1> DEFINE old == setup[m].old
           to == setup[m].to
<1>1. /\ setup[m] \in SetupRow /\ Added(old, setup[m].undo) /\ old \in DiskType
      /\ harmed \in SUBSET {"exe", "config", "credential"}
  BY Found DEF RunOK, SetupRow
<1>2. CASE ~setup[m].fresh
  <2>1. FailLeaving(m, d, harmed)
    BY <1>2 DEF Rollback
  <2>2. KeptFrom(old, d, to, harmed)
    BY <1>2 DEF Kept, KeptFrom
  <2>3. d.store \in {disk[m].store, old.store, None}
    OBVIOUS
  <2> QED
    BY <1>1, <2>1, <2>2, <2>3, FailedStep
<1>3. ASSUME NEW u \in SUBSET setup[m].undo, NEW x \in {old.store, d.store, None},
             NEW h \in {harmed, harmed \cup {"credential"}},
             FailLeaving(m, [Undone(d, u) EXCEPT !.store = x], h),
             old.store # None /\ "credential" \notin h => x = old.store
      PROVE  MachinesInv'
  <2>1. Added(old, u)
    BY <1>1 DEF Added
  <2> DEFINE e == [Undone(d, u) EXCEPT !.store = x]
  <2>2. x \in MayBe(Credentials)
    BY <1>1 DEF DiskType, MayBe
  <2>3. /\ Undone(d, u) \in DiskType /\ Kept(old, Undone(d, u), to, harmed)
        /\ Undone(d, u).store = d.store /\ Undone(d, u).state = d.state
    BY <2>1, Undoing
  <2>4. /\ e \in DiskType /\ e.store = x /\ e.state = Undone(d, u).state
        /\ e.exe = Undone(d, u).exe /\ e.config = Undone(d, u).config
    BY <2>2, <2>3 DEF DiskType
  <2>5. FailLeaving(m, e, h)
    BY <1>3
  <2> HIDE DEF e
  <2>6. KeptFrom(old, e, to, h)
    BY <1>3, <2>3, <2>4 DEF Kept, KeptFrom
  <2>7. /\ e.store \in {disk[m].store, old.store, None} /\ e.state = disk[m].state
        /\ h \in SUBSET {"exe", "config", "credential"}
    BY <1>3, <2>3, <2>4
  <2> QED
    BY <2>4, <2>5, <2>6, <2>7, FailedStep
<1>4. ASSUME setup[m].fresh, NEW u \in SUBSET setup[m].undo, old.store = None,
             FailLeaving(m, Undone(d, u), harmed)
      PROVE  MachinesInv'
  <2>1. Added(old, u)
    BY <1>1 DEF Added
  <2>2. /\ Undone(d, u) \in DiskType /\ Kept(old, Undone(d, u), to, harmed)
        /\ Undone(d, u).store = d.store /\ Undone(d, u).state = d.state
    BY <2>1, Undoing
  <2> DEFINE e == Undone(d, u)
  <2>3. FailLeaving(m, e, harmed)
    BY <1>4
  <2> HIDE DEF e
  <2>4. KeptFrom(old, e, to, harmed)
    BY <1>4, <2>2 DEF Kept, KeptFrom, e
  <2>5. e \in DiskType /\ e.store \in {disk[m].store, old.store, None}
        /\ e.state = disk[m].state
    BY <2>2 DEF e
  <2> QED
    BY <1>1, <2>3, <2>4, <2>5, FailedStep
<1>5. CASE setup[m].fresh
  <2>1. PICK u \in SUBSET setup[m].undo :
           \/ FailLeaving(m, PutBack(m, Undone(d, u)), harmed)
           \/ /\ setup[m].old.store # None
              /\ \E left \in {d.store, None} :
                    FailLeaving(m, [Undone(d, u) EXCEPT !.store = left],
                                harmed \cup {"credential"})
    BY <1>5 DEF Rollback
  <2>2. CASE FailLeaving(m, PutBack(m, Undone(d, u)), harmed)
    <3>1. CASE old.store = None
      BY <1>4, <1>5, <2>2, <3>1 DEF PutBack
    <3>2. CASE old.store # None
      <4>1. FailLeaving(m, [Undone(d, u) EXCEPT !.store = old.store], harmed)
        BY <2>2, <3>2 DEF PutBack
      <4> QED
        BY <1>3, <4>1
    <3> QED
      BY <3>1, <3>2
  <2>3. ASSUME NEW left \in {d.store, None},
               FailLeaving(m, [Undone(d, u) EXCEPT !.store = left],
                           harmed \cup {"credential"})
        PROVE  MachinesInv'
    <3>1. PICK h : h = harmed \cup {"credential"}
      OBVIOUS
    <3>2. /\ FailLeaving(m, [Undone(d, u) EXCEPT !.store = left], h)
          /\ h \in {harmed, harmed \cup {"credential"}} /\ "credential" \in h
      BY <2>3, <3>1
    <3> QED
      BY <1>3, <3>2
  <2> QED
    BY <2>1, <2>2, <2>3
<1> QED
  BY <1>2, <1>5

(* A step that fails, and spoils no file.                                  *)
LEMMA FailStep ==
    ASSUME ServerInv, MachinesInv, ServerInv', UNCHANGED <<agent, token, proc>>,
           NEW m \in Wizards, setup[m].at \in Running, Fail(m, disk[m], {}),
           \A c \in Clients \ {AgentOf(m), SetupOf(m)} : call'[c] = call[c]
    PROVE  MachinesInv'
<1> DEFINE p == proc[m]
           d == disk[m]
           harmed == {}
<1>1. /\ p \in ProcRow /\ proc' = [proc EXCEPT ![m] = p] /\ d \in DiskType
      /\ p = proc[m] /\ Rollback(m, d, harmed) /\ harmed \in SUBSET {"exe", "config"}
  BY Found DEF Fail
<1>2. /\ Kept(setup[m].old, d, setup[m].to, harmed)
      /\ ~setup[m].fresh => d.store = setup[m].old.store
      /\ d.state = disk[m].state /\ d.store \in {disk[m].store, None}
  BY Found DEF RunOK
<1>3. UNCHANGED <<agent, token>>
  OBVIOUS
<1> HIDE DEF p, d, harmed
<1> QED
  BY <1>1, <1>2, <1>3, RollbackStep

Moved(m, at, u) == [setup[m] EXCEPT !.at = at, !.undo = @ \cup u]

LEMMA MovedBy ==
    ASSUME MachinesInv, NEW m \in Wizards, NEW at
    PROVE  /\ Goes(m, at) => setup' = [setup EXCEPT ![m] = Moved(m, at, {})]
           /\ \A part : GoesUndoing(m, at, part)
                          => setup' = [setup EXCEPT ![m] = Moved(m, at, {part})]
<1>1. setup \in [Wizards -> SetupRow] /\ setup[m].undo \cup {} = setup[m].undo
  BY Found
<1>2. Moved(m, at, {}) = [setup[m] EXCEPT !.at = at]
  BY <1>1, Found DEF Moved, SetupRow
<1> QED
  BY <1>1, <1>2 DEF Goes, GoesUndoing, Moved

(* A step of the run succeeds.                                             *)
LEMMA Advance ==
    ASSUME ServerInv, MachinesInv, ServerInv', UNCHANGED <<agent, token>>,
           NEW m \in Wizards, NEW d \in DiskType, NEW p \in ProcRow,
           NEW at \in {"copy", "config", "save", "restart", "install", "start", "done"},
           NEW u \in SUBSET {"exe", "config", "service"},
           setup[m].at \in Running,
           disk' = [disk EXCEPT ![m] = d], proc' = [proc EXCEPT ![m] = p],
           setup' = [setup EXCEPT ![m] = Moved(m, at, u)],
           p = proc[m] \/ p.at \in {"off", "starting"},
           d.state = disk[m].state, d.store \in {disk[m].store, setup[m].new},
           Kept(setup[m].old, d, setup[m].to, {}), Added(setup[m].old, u),
           at = "save" => setup[m].fresh, at = "restart" => ~setup[m].fresh,
           at \in Unsaved \/ ~setup[m].fresh
             => /\ d.store = disk[m].store
                /\ setup[m].at \in Unsaved \/ ~setup[m].fresh,
           \A c \in Clients \ {AgentOf(m), SetupOf(m)} : call'[c] = call[c]
    PROVE  MachinesInv'
<1> DEFINE v == setup[m].undo \cup u
           s == [setup[m] EXCEPT !.at = at, !.undo = v]
<1>0. setup[m] \in SetupRow
  BY Found
<1>1. /\ s \in SetupRow /\ s.at = at /\ s.old = setup[m].old /\ s.fresh = setup[m].fresh
      /\ s.new = setup[m].new
      /\ s.undo = v /\ s.to = setup[m].to
  <2>1. v \in SUBSET {"exe", "config", "service"}
    BY <1>0 DEF SetupRow
  <2>2. PICK x \in SetupRow : x = setup[m]
    BY <1>0
  <2>3. s = [x EXCEPT !.at = at, !.undo = v]
    BY <2>2
  <2> HIDE DEF v, s
  <2>4. /\ s \in SetupRow /\ s.at = at /\ s.old = x.old /\ s.fresh = x.fresh
        /\ s.new = x.new /\ s.undo = v /\ s.to = x.to
    BY <2>1, <2>3 DEF SetupRow
  <2> QED
    BY <2>2, <2>4
<1>2. setup' = [setup EXCEPT ![m] = s]
  BY DEF Moved
<1> HIDE DEF s
<1>3. RunOK(setup[m], disk[m])
  BY Found
<1>4. Added(s.old, s.undo)
  BY <1>1, <1>3 DEF RunOK, Added
<1>5. RunOK(s, d)
  BY <1>1, <1>3, <1>4 DEF RunOK, Running
<1>6. \A x \in {d.store, s.new, s.old.store} :
         x # None => x \in {disk[m].store, setup[m].new, setup[m].old.store}
  BY <1>1
<1>7. s.at # "enroll"
  BY <1>1
<1> QED
  BY <1>1, <1>2, <1>5, <1>6, <1>7, SetupStep

LEMMA OnDisk ==
    ASSUME ServerInv, UNCHANGED serverVars
    PROVE  /\ ServerInv' /\ UNCHANGED <<agent, token>>
           /\ \A c \in Clients : call'[c] = call[c]
<1>1. UNCHANGED <<agent, token>> /\ UNCHANGED call
  BY DEF serverVars
<1>2. call' \in [Clients -> CallRow]
  BY <1>1 DEF ServerInv, EnrolmentTypeOK, CallRow
<1> QED
  BY <1>1, <1>2, ClientsCall

(* A step that only touches the disk fails.                                *)
LEMMA DiskFails ==
    ASSUME ServerInv, MachinesInv, UNCHANGED <<serverVars, proc>>,
           NEW m \in Wizards, NEW d \in DiskType, NEW harmed \in SUBSET {"exe", "config"},
           setup[m].at \in Running, Fail(m, d, harmed),
           Kept(setup[m].old, d, setup[m].to, harmed), d.state = disk[m].state,
           d.store \in {disk[m].store, None},
           ~setup[m].fresh => d.store = setup[m].old.store
    PROVE  ServerInv' /\ MachinesInv'
<1>1. UNCHANGED serverVars /\ UNCHANGED proc
  OBVIOUS
<1>2. /\ ServerInv' /\ UNCHANGED <<agent, token>>
      /\ \A c \in Clients \ {AgentOf(m), SetupOf(m)} : call'[c] = call[c]
  BY <1>1, OnDisk
<1> DEFINE p == proc[m]
<1>3. /\ p \in ProcRow /\ proc' = [proc EXCEPT ![m] = p] /\ p = proc[m]
      /\ Rollback(m, d, harmed)
  BY <1>1, Found DEF Fail
<1> HIDE DEF p
<1>4. MachinesInv'
  BY <1>2, <1>3, RollbackStep
<1> QED
  BY <1>2, <1>4

(* And leaves the disk as it was.                                          *)
LEMMA DiskStays ==
    ASSUME ServerInv, MachinesInv, UNCHANGED <<serverVars, proc>>,
           NEW m \in Wizards, setup[m].at \in Running, Fail(m, disk[m], {})
    PROVE  ServerInv' /\ MachinesInv'
<1>1. UNCHANGED serverVars /\ UNCHANGED proc
  OBVIOUS
<1>2. /\ ServerInv' /\ UNCHANGED <<agent, token>>
      /\ \A c \in Clients : call'[c] = call[c]
  BY <1>1, OnDisk
<1> QED
  BY <1>1, <1>2, FailStep

(* Or it succeeds.                                                         *)
LEMMA DiskAdvances ==
    ASSUME ServerInv, MachinesInv, UNCHANGED <<serverVars, proc>>,
           NEW m \in Wizards, NEW d \in DiskType,
           NEW at \in {"copy", "config", "save", "restart", "install", "start", "done"},
           NEW u \in SUBSET {"exe", "config", "service"},
           setup[m].at \in Running,
           disk' = [disk EXCEPT ![m] = d],
           setup' = [setup EXCEPT ![m] = Moved(m, at, u)],
           d.state = disk[m].state, d.store \in {disk[m].store, setup[m].new},
           Kept(setup[m].old, d, setup[m].to, {}), Added(setup[m].old, u),
           at = "save" => setup[m].fresh, at = "restart" => ~setup[m].fresh,
           at \in Unsaved \/ ~setup[m].fresh
             => /\ d.store = disk[m].store
                /\ setup[m].at \in Unsaved \/ ~setup[m].fresh
    PROVE  ServerInv' /\ MachinesInv'
<1>1. UNCHANGED serverVars /\ UNCHANGED proc
  OBVIOUS
<1>2. /\ ServerInv' /\ UNCHANGED <<agent, token>>
      /\ \A c \in Clients : call'[c] = call[c]
  BY <1>1, OnDisk
<1> DEFINE p == proc[m]
<1>3. p \in ProcRow /\ p = proc[m] /\ proc' = [proc EXCEPT ![m] = p]
  BY <1>1, Found
<1>4. \A c \in Clients \ {AgentOf(m), SetupOf(m)} : call'[c] = call[c]
  BY <1>2
<1> HIDE DEF p
<1>5. ServerInv' /\ UNCHANGED <<agent, token>>
  BY <1>2
<1>6. at \in Unsaved \/ ~setup[m].fresh
        => /\ d.store = disk[m].store
           /\ setup[m].at \in Unsaved \/ ~setup[m].fresh
  OBVIOUS
<1>7. MachinesInv'
  BY <1>3, <1>4, <1>5, <1>6, Advance
<1> QED
  BY <1>5, <1>7

LEMMA SetupEnrolledStep ==
    ASSUME ServerInv, MachinesInv, NEW m \in Wizards, SetupEnrolled(m)
    PROVE  ServerInv' /\ MachinesInv'
<1> DEFINE c == SetupOf(m)
<1>1. c \in Clients /\ UNCHANGED <<agent, token>> /\ UNCHANGED proc /\ Hangs(c)
  BY Found DEF SetupEnrolled
<1>2. ServerInv' /\ \A o \in Clients \ {c} : call'[o] = call[o]
  BY <1>1, HangingOne
<1>3. \A o \in Clients \ {AgentOf(m), SetupOf(m)} : call'[o] = call[o]
  BY <1>2
<1>4. setup[m].at = "enroll" /\ setup[m].at \in Running
  BY DEF SetupEnrolled, Running
<1>5. CASE Answered(c, "ok")
  <2>1. setup' = [setup EXCEPT ![m].at = "stop", ![m].new = Granting(c)] /\ UNCHANGED disk
    BY <1>5 DEF SetupEnrolled
  <2>2. Granting(c) \in Credentials /\ Good(Granting(c))
    <3>1. call \in [Clients -> CallRow] /\ CallOK(c)
      BY <1>1 DEF ServerInv, EnrolmentTypeOK, CallRow
    <3>2. call[c].op = "enroll"
      BY <1>4 DEF MachinesInv, WizardOK
    <3>3. call[c].agent \in Agents /\ Good(Granting(c))
      BY <1>5, <3>1, <3>2 DEF CallOK
    <3>4. call[c].n \in Nat
      BY <1>1, <3>1 DEF CallRow
    <3> QED
      BY <3>3, <3>4 DEF Granting, Credentials
  <2>3. PICK x \in Credentials : x = Granting(c)
    BY <2>2
  <2>4. Good(x)'
    BY <1>1, <2>2, <2>3 DEF Good
  <2> DEFINE s == [setup[m] EXCEPT !.at = "stop", !.new = x]
             d == disk[m]
             p == proc[m]
  <2>5. /\ s \in SetupRow /\ s.at = "stop" /\ s.old = setup[m].old
        /\ s.undo = setup[m].undo /\ s.fresh = setup[m].fresh
        /\ s.new = x /\ s.to = setup[m].to
    BY Found DEF SetupRow, MayBe
  <2>6. setup' = [setup EXCEPT ![m] = s]
    BY <2>1, <2>3, Found DEF SetupRow
  <2>7. d \in DiskType /\ p \in ProcRow /\ disk' = [disk EXCEPT ![m] = d]
        /\ proc' = [proc EXCEPT ![m] = p] /\ d.state = disk[m].state
        /\ d.store = disk[m].store /\ p = proc[m]
    BY <1>1, <2>1, Found
  <2>8. RunOK(setup[m], d)
    BY Found
  <2> HIDE DEF s, d, p
  <2>9. RunOK(s, d)
    BY <1>4, <2>5, <2>8 DEF RunOK, Running, Unsaved
  <2>10. \A y \in {d.store, s.new, s.old.store} :
            y # None => \/ y \in {disk[m].store, setup[m].new, setup[m].old.store}
                        \/ Good(y)'
    BY <2>4, <2>5, <2>7
  <2>11. s.at # "enroll"
    BY <2>5
  <2>12. MachinesInv'
    BY <1>1, <1>2, <1>3, <2>5, <2>6, <2>7, <2>9, <2>10, <2>11, SetupStep
  <2> QED
    BY <1>2, <2>12
<1>6. CASE ~Answered(c, "ok")
  <2>1. CASE Fail(m, disk[m], {})
    BY <1>1, <1>2, <1>3, <1>4, <2>1, FailStep
  <2>2. CASE FailLeaving(m, PutBack(m, disk[m]), {})
    <3> DEFINE d == PutBack(m, disk[m])
               p == proc[m]
               harmed == {}
    <3>1. /\ RunOK(setup[m], disk[m]) /\ disk[m] \in DiskType
          /\ disk[m].store = setup[m].old.store
      BY <1>4, Found DEF RunOK, Unsaved
    <3>2. d = disk[m]
      BY <3>1 DEF PutBack, DiskType
    <3>3. KeptFrom(setup[m].old, disk[m], setup[m].to, harmed)
      BY <1>4, <3>1 DEF RunOK, Kept, KeptFrom
    <3>4. /\ p \in ProcRow /\ proc' = [proc EXCEPT ![m] = p] /\ p = proc[m]
          /\ FailLeaving(m, d, harmed)
          /\ harmed \in SUBSET {"exe", "config", "credential"}
      BY <1>1, <2>2, Found
    <3> HIDE DEF d, p, harmed
    <3>5. MachinesInv'
      BY <1>1, <1>2, <1>3, <3>1, <3>2, <3>3, <3>4, FailedStep
    <3> QED
      BY <1>2, <3>5
  <2> QED
    BY <1>6, <2>1, <2>2 DEF SetupEnrolled
<1> QED
  BY <1>5, <1>6

LEMMA EnsureDirsStep ==
    ASSUME ServerInv, MachinesInv, NEW m \in Wizards, EnsureDirsFails(m)
    PROVE  ServerInv' /\ MachinesInv'
<1>1. UNCHANGED <<serverVars, proc>> /\ setup[m].at \in Running /\ Fail(m, disk[m], {})
  BY DEF EnsureDirsFails, Running
<1> QED
  BY <1>1, DiskStays

LEMMA StopStep ==
    ASSUME ServerInv, MachinesInv, NEW m \in Wizards, Stop(m)
    PROVE  ServerInv' /\ MachinesInv'
<1> DEFINE c == AgentOf(m)
<1>1. c \in Clients /\ UNCHANGED <<agent, token>> /\ Hangs(c) /\ Exits(m)
      /\ setup[m].at = "stop"
  BY Found DEF Stop, Hangs
<1>2. ServerInv' /\ \A o \in Clients \ {c} : call'[o] = call[o]
  BY <1>1, HangingOne
<1>3. \A o \in Clients \ {AgentOf(m), SetupOf(m)} : call'[o] = call[o]
  BY <1>2
<1> DEFINE p == [proc[m] EXCEPT !.at = "off"]
           d == Halted(disk[m])
<1>4. p \in ProcRow /\ p.at = "off" /\ proc' = [proc EXCEPT ![m] = p]
  BY <1>1, Found DEF Exits, ProcRow
<1>5. /\ d \in DiskType /\ d.store = disk[m].store /\ d.state = disk[m].state
      /\ d.exe = disk[m].exe /\ d.config = disk[m].config
  BY Found DEF Halted, DiskType
<1>6. RunOK(setup[m], disk[m])
  BY Found
<1>7. setup[m].at \in Running /\ setup[m].at \in Unsaved
  BY <1>1 DEF Running, Unsaved
<1>8. \/ disk' = [disk EXCEPT ![m] = d] /\ Goes(m, "copy")
      \/ Fail(m, d, {})
  BY Found DEF Stop
<1> HIDE DEF p, d
<1>10. Kept(setup[m].old, d, setup[m].to, {}) /\ d.store = setup[m].old.store
  BY <1>5, <1>6, <1>7 DEF RunOK, Kept
<1>11. CASE Fail(m, d, {})
  <2> DEFINE harmed == {}
  <2>1. Rollback(m, d, harmed) /\ harmed \in SUBSET {"exe", "config"}
        /\ Kept(setup[m].old, d, setup[m].to, harmed)
        /\ d.store \in {disk[m].store, None}
    BY <1>5, <1>10, <1>11 DEF Fail
  <2> HIDE DEF harmed
  <2>2. MachinesInv'
    BY <1>1, <1>2, <1>3, <1>4, <1>5, <1>7, <1>10, <2>1, RollbackStep
  <2> QED
    BY <1>2, <2>2
<1>12. CASE disk' = [disk EXCEPT ![m] = d] /\ Goes(m, "copy")
  <2>1. setup' = [setup EXCEPT ![m] = Moved(m, "copy", {})]
    BY <1>12, MovedBy
  <2> DEFINE at == "copy"
             u == {}
  <2>2. /\ at \in {"copy", "config", "save", "restart", "install", "start", "done"}
        /\ u \in SUBSET {"exe", "config", "service"} /\ Added(setup[m].old, u)
        /\ setup' = [setup EXCEPT ![m] = Moved(m, at, u)]
        /\ at # "save" /\ at # "restart"
    BY <2>1 DEF Added
  <2> HIDE DEF at, u
  <2>3. MachinesInv'
    BY <1>1, <1>2, <1>3, <1>4, <1>5, <1>7, <1>10, <1>12, <2>2, Advance
  <2> QED
    BY <1>2, <2>3
<1> QED
  BY <1>8, <1>11, <1>12

LEMMA CopyStep ==
    ASSUME ServerInv, MachinesInv, NEW m \in Wizards, CopyExecutable(m)
    PROVE  ServerInv' /\ MachinesInv'
<1>1. /\ UNCHANGED <<serverVars, proc>> /\ setup[m].at = "copy"
      /\ setup[m].at \in Running /\ setup[m].at \in Unsaved
  BY DEF CopyExecutable, Running, Unsaved
<1>2. /\ Kept(setup[m].old, disk[m], setup[m].to, {}) /\ disk[m] \in DiskType
      /\ disk[m].store = setup[m].old.store
  BY <1>1, Found DEF RunOK, SetupRow
<1>3. ASSUME NEW left \in {disk[m].exe, "broken"},
             Fail(m, [disk[m] EXCEPT !.exe = left], {"exe"})
      PROVE  ServerInv' /\ MachinesInv'
  <2> DEFINE d == [disk[m] EXCEPT !.exe = left]
             harmed == {"exe"}
  <2>1. /\ d \in DiskType /\ d.store = disk[m].store /\ d.state = disk[m].state
        /\ d.exe = left /\ d.config = disk[m].config
    BY <1>2 DEF DiskType
  <2>2. Fail(m, d, harmed) /\ harmed \in SUBSET {"exe", "config"}
    BY <1>3
  <2> HIDE DEF d
  <2>3. Kept(setup[m].old, d, setup[m].to, harmed)
    BY <1>2, <1>3, <2>1 DEF Kept
  <2>4. d.store \in {disk[m].store, None} /\ d.store = setup[m].old.store
    BY <1>2, <2>1
  <2> HIDE DEF harmed
  <2> QED
    BY <1>1, <2>1, <2>2, <2>3, <2>4, DiskFails
<1>4. CASE /\ disk' = [disk EXCEPT ![m].exe = "whole"]
           /\ IF disk[m].exe # "none" THEN Goes(m, "config")
                                       ELSE GoesUndoing(m, "config", "exe")
  <2> DEFINE d == [disk[m] EXCEPT !.exe = "whole"]
             at == "config"
             u == IF disk[m].exe # "none" THEN {} ELSE {"exe"}
  <2>1. /\ d \in DiskType /\ d.store = disk[m].store /\ d.state = disk[m].state
        /\ d.exe = "whole" /\ d.config = disk[m].config
    BY Found DEF DiskType
  <2>2. disk' = [disk EXCEPT ![m] = d]
    BY <1>4, Found DEF DiskType
  <2>3. setup' = [setup EXCEPT ![m] = Moved(m, at, u)]
    BY <1>4, MovedBy
  <2>4. /\ u \in SUBSET {"exe", "config", "service"} /\ Added(setup[m].old, u)
        /\ at \in {"copy", "config", "save", "restart", "install", "start", "done"}
        /\ at # "save" /\ at # "restart"
    BY <1>2 DEF Kept, Added
  <2> HIDE DEF d, at, u
  <2>5. Kept(setup[m].old, d, setup[m].to, {})
    BY <1>2, <2>1 DEF Kept
  <2> QED
    BY <1>1, <2>1, <2>2, <2>3, <2>4, <2>5, DiskAdvances
<1> QED
  BY <1>3, <1>4 DEF CopyExecutable

LEMMA WriteConfigStep ==
    ASSUME ServerInv, MachinesInv, NEW m \in Wizards, WriteAgentConfig(m)
    PROVE  ServerInv' /\ MachinesInv'
<1> DEFINE next == AfterConfig(m)
<1>1. /\ UNCHANGED <<serverVars, proc>> /\ setup[m].at = "config"
      /\ setup[m].at \in Running /\ setup[m].at \in Unsaved
  BY DEF WriteAgentConfig, Running, Unsaved
<1>2. /\ Kept(setup[m].old, disk[m], setup[m].to, {}) /\ disk[m] \in DiskType
      /\ disk[m].store = setup[m].old.store
  BY <1>1, Found DEF RunOK, SetupRow
<1>3. ASSUME NEW left \in {disk[m].config, "broken"},
             Fail(m, [disk[m] EXCEPT !.config = left], {"config"})
      PROVE  ServerInv' /\ MachinesInv'
  <2> DEFINE d == [disk[m] EXCEPT !.config = left]
             harmed == {"config"}
  <2>1. /\ d \in DiskType /\ d.store = disk[m].store /\ d.state = disk[m].state
        /\ d.exe = disk[m].exe /\ d.config = left
    BY <1>2 DEF DiskType
  <2>2. Fail(m, d, harmed) /\ harmed \in SUBSET {"exe", "config"}
    BY <1>3
  <2>3. left # None \/ left = disk[m].config
    BY <1>3, SetupAssumption
  <2> HIDE DEF d
  <2>4. Kept(setup[m].old, d, setup[m].to, harmed)
    BY <1>2, <1>3, <2>1, <2>3, SetupAssumption DEF Kept
  <2>5. d.store \in {disk[m].store, None} /\ d.store = setup[m].old.store
    BY <1>2, <2>1
  <2> HIDE DEF harmed
  <2> QED
    BY <1>1, <2>1, <2>2, <2>4, <2>5, DiskFails
<1>4. CASE /\ disk' = [disk EXCEPT ![m].config = setup[m].to]
           /\ IF disk[m].config # None THEN Goes(m, next)
              ELSE GoesUndoing(m, next, "config")
  <2> DEFINE d == [disk[m] EXCEPT !.config = setup[m].to]
             u == IF disk[m].config # None THEN {} ELSE {"config"}
  <2>1. /\ d \in DiskType /\ d.store = disk[m].store /\ d.state = disk[m].state
        /\ d.exe = disk[m].exe /\ d.config = setup[m].to
    BY <1>2, Found DEF DiskType, SetupRow, MayBe
  <2>2. disk' = [disk EXCEPT ![m] = d]
    BY <1>4, Found DEF DiskType
  <2>3. setup' = [setup EXCEPT ![m] = Moved(m, next, u)]
    BY <1>4, MovedBy
  <2>4. /\ u \in SUBSET {"exe", "config", "service"} /\ Added(setup[m].old, u)
        /\ next \in {"copy", "config", "save", "restart", "install", "start", "done"}
        /\ next = "save" => setup[m].fresh
        /\ next = "restart" => ~setup[m].fresh
    BY <1>2 DEF Kept, Added, AfterConfig
  <2>5. setup[m].to # None
    BY <1>1, Found DEF RunOK
  <2> HIDE DEF d, next, u
  <2>6. Kept(setup[m].old, d, setup[m].to, {})
    BY <1>2, <2>1, <2>5 DEF Kept
  <2> QED
    BY <1>1, <2>1, <2>2, <2>3, <2>4, <2>6, DiskAdvances
<1> QED
  BY <1>3, <1>4 DEF WriteAgentConfig, ConfigFails

LEMMA SaveStep ==
    ASSUME ServerInv, MachinesInv, NEW m \in Wizards, SaveCredential(m)
    PROVE  ServerInv' /\ MachinesInv'
<1>1. /\ UNCHANGED <<serverVars, proc>> /\ UNCHANGED serverVars /\ UNCHANGED proc
      /\ setup[m].at = "save" /\ setup[m].at \in Running
  BY DEF SaveCredential, Running
<1>2. Kept(setup[m].old, disk[m], setup[m].to, {}) /\ setup[m].fresh /\ setup[m] \in SetupRow
  BY <1>1, Found DEF RunOK
<1>3. ASSUME NEW left \in {disk[m].store, None},
             Fail(m, [disk[m] EXCEPT !.store = left], {})
      PROVE  ServerInv' /\ MachinesInv'
  <2> DEFINE d == [disk[m] EXCEPT !.store = left]
             harmed == {}
  <2>0. disk[m] \in DiskType /\ left \in MayBe(Credentials)
    BY <1>3, Found DEF DiskType, MayBe
  <2>1. /\ d \in DiskType /\ d.store = left /\ d.state = disk[m].state
        /\ d.exe = disk[m].exe /\ d.config = disk[m].config
    BY <2>0 DEF DiskType
  <2>2. Fail(m, d, harmed) /\ harmed \in SUBSET {"exe", "config"}
    BY <1>3
  <2> HIDE DEF d
  <2>3. Kept(setup[m].old, d, setup[m].to, harmed)
    BY <1>2, <2>1 DEF Kept
  <2> HIDE DEF harmed
  <2> QED
    BY <1>1, <1>2, <1>3, <2>1, <2>2, <2>3, DiskFails
<1>4. CASE disk' = [disk EXCEPT ![m].store = setup[m].new] /\ Goes(m, "install")
  <2> DEFINE d == [disk[m] EXCEPT !.store = setup[m].new]
             at == "install"
             u == {}
  <2>1. /\ d \in DiskType /\ d.store = setup[m].new /\ d.state = disk[m].state
        /\ d.exe = disk[m].exe /\ d.config = disk[m].config
    BY <1>2, Found DEF DiskType, SetupRow
  <2>2. disk' = [disk EXCEPT ![m] = d]
    BY <1>4, Found DEF DiskType
  <2>3. setup' = [setup EXCEPT ![m] = Moved(m, at, u)]
    BY <1>4, MovedBy
  <2>4. /\ u \in SUBSET {"exe", "config", "service"} /\ Added(setup[m].old, u)
        /\ at \in {"copy", "config", "save", "restart", "install", "start", "done"}
        /\ at # "save" /\ at # "restart" /\ at \notin Unsaved
    BY DEF Unsaved, Added
  <2> HIDE DEF d, at, u
  <2>5. Kept(setup[m].old, d, setup[m].to, {})
    BY <1>2, <2>1 DEF Kept
  <2> QED
    BY <1>1, <1>2, <2>1, <2>2, <2>3, <2>4, <2>5, DiskAdvances
<1> QED
  BY <1>3, <1>4 DEF SaveCredential

LEMMA InstallServiceStep ==
    ASSUME ServerInv, MachinesInv, NEW m \in Wizards, InstallService(m)
    PROVE  ServerInv' /\ MachinesInv'
<1>1. /\ UNCHANGED <<serverVars, proc>> /\ setup[m].at = "install"
      /\ setup[m].at \in Running
  BY DEF InstallService, Running
<1>2. Kept(setup[m].old, disk[m], setup[m].to, {})
  BY <1>1, Found DEF RunOK, SetupRow
<1>3. CASE Fail(m, disk[m], {})
  BY <1>1, <1>3, DiskStays
<1>4. CASE /\ disk' = [disk EXCEPT ![m] = Created(@)]
           /\ IF setup[m].fresh THEN GoesUndoing(m, "start", "service")
                                ELSE Goes(m, "start")
  <2> DEFINE d == Created(disk[m])
             at == "start"
             u == IF setup[m].fresh THEN {"service"} ELSE {}
  <2>1. /\ d \in DiskType /\ d.store = disk[m].store /\ d.state = disk[m].state
        /\ d.exe = disk[m].exe /\ d.config = disk[m].config
    BY Found DEF Created, DiskType
  <2>2. disk' = [disk EXCEPT ![m] = d]
    BY <1>4, Found
  <2>3. setup' = [setup EXCEPT ![m] = Moved(m, at, u)]
    BY <1>4, MovedBy
  <2>4. /\ u \in SUBSET {"exe", "config", "service"} /\ Added(setup[m].old, u)
        /\ at \in {"copy", "config", "save", "restart", "install", "start", "done"}
        /\ at # "save" /\ at # "restart" /\ at \notin Unsaved
    BY <1>2 DEF Unsaved, Added
  <2> HIDE DEF d, at, u
  <2>5. Kept(setup[m].old, d, setup[m].to, {})
    BY <1>2, <2>1 DEF Kept
  <2> QED
    BY <1>1, <2>1, <2>2, <2>3, <2>4, <2>5, DiskAdvances
<1> QED
  BY <1>3, <1>4 DEF InstallService

(* StartService and RestartService alike.                                  *)
LEMMA StartedStep ==
    ASSUME ServerInv, MachinesInv, NEW m \in Wizards, setup[m].at \in {"start", "restart"},
           UNCHANGED serverVars,
           \/ Started(m) /\ proc' = [proc EXCEPT ![m].at = "starting"]
           \/ Fail(m, disk[m], {}) /\ UNCHANGED proc
    PROVE  ServerInv' /\ MachinesInv'
<1>1. setup[m].at \in Running
  BY DEF Running
<1>3. CASE Fail(m, disk[m], {}) /\ UNCHANGED proc
  BY <1>1, <1>3, DiskStays
<1>4. CASE Started(m) /\ proc' = [proc EXCEPT ![m].at = "starting"]
  <2> DEFINE d == Up(disk[m])
             p == [proc[m] EXCEPT !.at = "starting"]
             s == [setup[m] EXCEPT !.at = "done"]
  <2>1. /\ d \in DiskType /\ d.store = disk[m].store /\ d.state = disk[m].state
    BY Found DEF Up, DiskType
  <2>2. disk' = [disk EXCEPT ![m] = d]
    BY <1>4, Found DEF Started
  <2>3. p \in ProcRow /\ p.at = "starting" /\ proc' = [proc EXCEPT ![m] = p]
    BY <1>4, Found DEF ProcRow
  <2>4. /\ s \in SetupRow /\ s.at = "done" /\ s.new = setup[m].new
        /\ s.old = setup[m].old
       
    BY Found DEF SetupRow
  <2>5. setup' = [setup EXCEPT ![m] = s]
    BY <1>4, Found DEF Started, Goes, SetupRow
  <2> HIDE DEF d, p, s
  <2>6. RunOK(s, d)
    BY <2>4 DEF RunOK, Running
  <2>7. \A x \in {d.store, s.new, s.old.store} :
           x # None => x \in {disk[m].store, setup[m].new, setup[m].old.store}
    BY <2>1, <2>4
  <2>8. /\ ServerInv' /\ UNCHANGED <<agent, token>> /\ s.at # "enroll"
        /\ \A c \in Clients \ {AgentOf(m), SetupOf(m)} : call'[c] = call[c]
    BY <2>4, OnDisk
  <2> QED
    BY <2>1, <2>2, <2>3, <2>4, <2>5, <2>6, <2>7, <2>8, SetupStep
<1> QED
  BY <1>3, <1>4

LEMMA StartStep ==
    ASSUME ServerInv, MachinesInv, NEW m \in Wizards, StartService(m)
    PROVE  ServerInv' /\ MachinesInv'
<1>1. /\ setup[m].at \in {"start", "restart"} /\ UNCHANGED serverVars
      /\ \/ Started(m) /\ proc' = [proc EXCEPT ![m].at = "starting"]
         \/ Fail(m, disk[m], {}) /\ UNCHANGED proc
  BY DEF StartService
<1> QED
  BY <1>1, StartedStep

LEMMA RestartStep ==
    ASSUME ServerInv, MachinesInv, NEW m \in Wizards, RestartService(m)
    PROVE  ServerInv' /\ MachinesInv'
<1>1. setup[m].at = "restart" /\ UNCHANGED serverVars
  BY DEF RestartService
<1>2. CASE disk[m].service = "none"
  <2>1. UNCHANGED <<serverVars, proc>> /\ UNCHANGED disk /\ Goes(m, "install")
    BY <1>1, <1>2 DEF RestartService
  <2>2. /\ Kept(setup[m].old, disk[m], setup[m].to, {}) /\ ~setup[m].fresh /\ setup[m].at \in Running
    BY <1>1, Found DEF RunOK, Running
  <2> DEFINE d == disk[m]
             at == "install"
             u == {}
  <2>3. /\ d \in DiskType /\ d.store = disk[m].store /\ d.state = disk[m].state
        /\ disk' = [disk EXCEPT ![m] = d] /\ Kept(setup[m].old, d, setup[m].to, {})
    BY <2>1, <2>2, Found
  <2>4. setup' = [setup EXCEPT ![m] = Moved(m, at, u)]
    BY <2>1, MovedBy
  <2>5. /\ u \in SUBSET {"exe", "config", "service"} /\ Added(setup[m].old, u)
        /\ at \in {"copy", "config", "save", "restart", "install", "start", "done"}
        /\ at # "save" /\ at # "restart"
    BY DEF Added
  <2> HIDE DEF d, at, u
  <2> QED
    BY <2>1, <2>2, <2>3, <2>4, <2>5, DiskAdvances
<1>3. CASE disk[m].service # "none"
  <2>1. \/ Started(m) /\ proc' = [proc EXCEPT ![m].at = "starting"]
        \/ Fail(m, disk[m], {}) /\ UNCHANGED proc
    BY <1>3 DEF RestartService
  <2> QED
    BY <1>1, <2>1, StartedStep
<1> QED
  BY <1>2, <1>3

-----------------------------------------------------------------------------
LEMMA InitInv == Init => IInv
<1> SUFFICES ASSUME Init PROVE IInv
  OBVIOUS
<1>1. Pending \in AgentRow /\ NoToken \in TokenRow /\ NoCall \in CallRow
  BY DEF Pending, NoToken, NoCall, AgentRow, TokenRow, CallRow
<1>2. ServerInv
  <2>1. EnrolmentTypeOK
    BY <1>1 DEF Init, EnrolmentInit, EnrolmentTypeOK, AgentRow, TokenRow, CallRow
  <2>2. ASSUME NEW a \in Agents PROVE RowOK(a)
    BY DEF Init, EnrolmentInit, RowOK, Pending, NoToken
  <2>3. ASSUME NEW c \in Clients PROVE CallOK(c)
    BY DEF Init, EnrolmentInit, CallOK, NoCall, Answered
  <2> QED
    BY <2>1, <2>2, <2>3 DEF ServerInv
<1>3. MachinesTyped
  BY DEF Init, MachinesTyped, DiskType, ProcRow, SetupRow, NoSetup, BlankDisk, MayBe
<1>4. ASSUME NEW m \in Machines PROVE MachineOK(m)
  BY DEF Init, MachineOK, BlankDisk
<1>5. ASSUME NEW m \in Wizards PROVE WizardOK(m)
  BY SetupAssumption DEF Init, WizardOK, RunOK, Running, NoSetup, BlankDisk
<1>6. spent \in [setups : 0 .. MaxSetups, upsets : 0 .. MaxUpsets]
  BY SetupAssumption DEF Init
<1> QED
  BY <1>2, <1>3, <1>4, <1>5, <1>6 DEF IInv, MachinesInv

LEMMA InstallStep ==
    ASSUME ServerInv, MachinesInv, NEW m \in Wizards, Install(m)
    PROVE  ServerInv' /\ MachinesInv'
BY SetupEnrolledStep, EnsureDirsStep, StopStep, CopyStep, WriteConfigStep, SaveStep,
   InstallServiceStep, StartStep, RestartStep DEF Install

LEMMA ProcessStep ==
    ASSUME ServerInv, MachinesInv, NEW m \in Machines, Process(m)
    PROVE  ServerInv' /\ MachinesInv'
BY ResolveStep, EnrolledStep, BeatStep, BeatenStep DEF Process

(* An operator, the clock, the health monitor or a handler acts.           *)
LEMMA AtServerStep ==
    ASSUME ServerInv, MachinesInv, UNCHANGED <<disk, proc, setup>>,
           (\E a \in Agents : Operator(a)) \/ (\E c \in Clients : Handler(c))
    PROVE  ServerInv' /\ MachinesInv'
<1>1. CASE \E a \in Agents : Operator(a)
  <2>1. ServerInv' /\ (\A o \in Agents : Ages(o)) /\ UNCHANGED call
    BY <1>1, OperatorStep
  <2> QED
    BY <2>1, MachinesWait
<1>2. ASSUME NEW c \in Clients, Handler(c) PROVE ServerInv' /\ MachinesInv'
  <2>1. ServerInv' /\ (\A o \in Agents : Ages(o)) /\ GoesOn(c)
    BY <1>2, HandlerStep
  <2>2. \A o \in Clients : call'[o].op = call[o].op
    BY <2>1 DEF GoesOn
  <2> QED
    BY <2>1, <2>2, MachinesWait
<1> QED
  BY <1>1, <1>2

Bounds == spent \in [setups : 0 .. MaxSetups, upsets : 0 .. MaxUpsets]

LEMMA UpsetStep ==
    ASSUME Bounds
    PROVE  (Upset \/ Smooth => Bounds')
           /\ (spent.setups < MaxSetups /\ spent' = [spent EXCEPT !.setups = @ + 1]
                 => Bounds')
<1>1. CASE Upset
  BY <1>1, SetupAssumption DEF Bounds, Upset
<1>2. CASE Smooth
  BY <1>2 DEF Bounds, Smooth
<1>3. CASE spent.setups < MaxSetups /\ spent' = [spent EXCEPT !.setups = @ + 1]
  BY <1>3, SetupAssumption DEF Bounds
<1> QED
  BY <1>1, <1>2, <1>3

LEMMA StepInv == IInv /\ [Next]_vars => IInv'
<1> SUFFICES ASSUME ServerInv, MachinesInv, Bounds, [Next]_vars
             PROVE  ServerInv' /\ MachinesInv' /\ Bounds'
  BY DEF IInv, Bounds
<1>1. ASSUME NEW a \in Agents,
             \/ AtServer(GenerateEnrollmentToken(a) \/ MarkOffline(a)) /\ Smooth
             \/ AtServer(GenerateRegistrationToken(a)) /\ a \in InEnv /\ Smooth
             \/ AtServer(Intervene(a) \/ Expire(a)) /\ Upset
      PROVE  ServerInv' /\ MachinesInv' /\ Bounds'
  <2>1. Operator(a) /\ UNCHANGED <<disk, proc, setup>> /\ (Upset \/ Smooth)
    BY <1>1 DEF AtServer, Operator
  <2> QED
    BY <2>1, AtServerStep, UpsetStep
<1>2. ASSUME NEW c \in Clients,
             \/ AtServer(Serve(c)) /\ Smooth
             \/ AtServer(LoseAnswer(c) \/ EnrollAbort(c) \/ RegisterUnwritten(c)) /\ Upset
      PROVE  ServerInv' /\ MachinesInv' /\ Bounds'
  <2>1. Handler(c) /\ UNCHANGED <<disk, proc, setup>> /\ (Upset \/ Smooth)
    BY <1>2 DEF AtServer, Handler
  <2> QED
    BY <2>1, AtServerStep, UpsetStep
<1>3. ASSUME NEW m \in Machines, Process(m) \/ Reboot(m)
      PROVE  ServerInv' /\ MachinesInv' /\ Bounds'
  <2>1. Upset \/ Smooth
    BY <1>3 DEF Process, Resolve, Enrolled, Beat, Beaten, Reboot, Smooth
  <2> QED
    BY <1>3, <2>1, ProcessStep, RebootStep, UpsetStep
<1>4. ASSUME NEW m \in Wizards, Install(m)
      PROVE  ServerInv' /\ MachinesInv' /\ Bounds'
  <2>1. Upset \/ Smooth
    BY <1>4 DEF Install, SetupEnrolled, EnsureDirsFails, Stop, CopyExecutable,
       WriteAgentConfig, ConfigFails, SaveCredential, InstallService, StartService,
       RestartService, Fail
  <2> QED
    BY <1>4, <2>1, InstallStep, UpsetStep
<1>5. ASSUME NEW m \in Wizards, NEW s \in Servers, NEW secret \in MayBe(Secrets(s)),
             Run(m, s, secret)
      PROVE  ServerInv' /\ MachinesInv' /\ Bounds'
  <2>1. spent.setups < MaxSetups /\ spent' = [spent EXCEPT !.setups = @ + 1]
    BY <1>5 DEF Run
  <2> QED
    BY <1>5, <2>1, RunStep, UpsetStep
<1>6. CASE UNCHANGED vars
  <2>1. UNCHANGED serverVars /\ UNCHANGED <<disk, proc, setup>> /\ Smooth
    BY <1>6 DEF vars, Smooth
  <2>2. /\ ServerInv' /\ UNCHANGED <<agent, token>>
        /\ \A c \in Clients : call'[c] = call[c]
    BY <2>1, OnDisk
  <2>3. \A a \in Agents : Ages(a)
    BY <2>2, SameAges
  <2>4. MachinesInv'
    BY <2>1, <2>2, <2>3, MachinesWait
  <2> QED
    BY <2>1, <2>2, <2>4, UpsetStep
<1> QED
  BY <1>1, <1>2, <1>3, <1>4, <1>5, <1>6 DEF Next

LEMMA Invariant == Spec => []IInv
BY InitInv, StepInv, PTL DEF Spec

-----------------------------------------------------------------------------
LEMMA InvSound == IInv => CredentialsSound /\ FailedSetupKeepsInstall
<1> SUFFICES ASSUME IInv PROVE CredentialsSound /\ FailedSetupKeepsInstall
  OBVIOUS
<1> USE DEF IInv
<1>1. TypeOK
  BY DEF TypeOK, ServerInv, MachinesInv, MachinesTyped, DiskType, DiskType, ProcRow, SetupRow
<1>2. UsedTokenEnrolled
  BY DEF UsedTokenEnrolled, ServerInv, RowOK
<1>3. StoredCredentialValid
  <2> SUFFICES ASSUME NEW m \in Machines, NEW a \in Agents,
                      Holds(disk[m].store, a), token[a].state # "none"
               PROVE  \/ disk[m].store.n = agent[a].cred
                      \/ agent[a].rotated \/ agent[a].row = "deleted"
    BY DEF StoredCredentialValid
  <2>1. disk[m].store # None /\ disk[m].store.agent = a
    BY DEF Holds
  <2>2. Good(disk[m].store)
    BY <2>1 DEF MachinesInv, MachineOK
  <2> QED
    BY <2>1, <2>2 DEF Good
<1>4. FailedSetupKeepsInstall
  BY Found DEF FailedSetupKeepsInstall, RunOK
<1> QED
  BY <1>1, <1>2, <1>3, <1>4 DEF CredentialsSound

(* A token is worth one credential, on the server and on every disk,       *)
(* however the handlers of Enroll, Register and the operators' requests    *)
(* interleave: the second of two claims waits for the row and then finds   *)
(* used_at set (Enroll's transaction).                                     *)
THEOREM OneTokenOneCredential == Spec => []CredentialsSound
BY Invariant, InvSound, PTL

(* Wherever a run of the set-up program fails, and whatever of its rollback *)
(* fails too, an earlier installation still has its credential, a whole    *)
(* binary and a configuration that names its server or that of the failed  *)
(* run; no file of it is deleted, and only one whose own writing failed is *)
(* spoilt (Run, rollback, withCredentialBackup).                           *)
THEOREM OldInstall == Spec => []FailedSetupKeepsInstall
BY Invariant, InvSound, PTL
=============================================================================
