------------------------------ MODULE MCAlerts ------------------------------
(***************************************************************************)
(* Instances of Alerts for TLC.  Rows of different keys meet nowhere but   *)
(* in the bound on their number, so each behaviour has one subject.        *)
(***************************************************************************)
EXTENDS Alerts

MCInit == Init /\ Cardinality(subjects) = 1

MCSpec == MCInit /\ [][Next]_vars /\ Fairness
=============================================================================
