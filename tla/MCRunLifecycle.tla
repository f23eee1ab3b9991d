--------------------------- MODULE MCRunLifecycle ---------------------------
(***************************************************************************)
(* Instances of RunLifecycle for TLC: every run belongs to agent a1.       *)
(***************************************************************************)
EXTENDS RunLifecycle

CONSTANTS a1

MCAgentOf == [r \in Runs |-> a1]

=============================================================================
