----------------------------- MODULE AlertMachine -----------------------------
(***************************************************************************)
(* What the alert table promises, seen from outside: a row is inserted     *)
(* firing, no second row of its key fires meanwhile, it is acknowledged    *)
(* and resolved in that direction only, and it leaves the table only when  *)
(* it is not firing any more.                                              *)
(***************************************************************************)
CONSTANTS Ids, NoKey
VARIABLES status, key

Init == status = [i \in Ids |-> "none"] /\ key = [i \in Ids |-> NoKey]

Insert(i, k) ==
  /\ status[i] = "none"
  /\ \A j \in Ids : key[j] = k => status[j] # "firing"
  /\ status' = [status EXCEPT ![i] = "firing"]
  /\ key' = [key EXCEPT ![i] = k]

\* One statement may close several rows.
Close(S, from, to) ==
  /\ \A i \in S : status[i] \in from
  /\ status' = [i \in Ids |-> IF i \in S THEN to ELSE status[i]]
  /\ key' = [i \in Ids |-> IF i \in S /\ to = "none" THEN NoKey ELSE key[i]]

Next ==
  \/ \E i \in Ids : Insert(i, key'[i])
  \/ \E S \in SUBSET Ids :
       \/ Close(S, {"firing"}, "acknowledged")
       \/ Close(S, {"firing", "acknowledged", "resolved"}, "resolved")
       \/ Close(S, {"acknowledged", "resolved"}, "none")

Spec == Init /\ [][Next]_<<status, key>>
=============================================================================
