------------------------------- MODULE MCSetup -------------------------------
(* One machine with the set-up program, one with its secret in the         *)
(* environment, which is the token of the agent on the home server.        *)
EXTENDS Setup, TLC
CONSTANTS home, away, a1, a2, m1, m2
MCServerOf == a1 :> home @@ a2 :> away
MCEnvSecret == m2 :> a1
=============================================================================
