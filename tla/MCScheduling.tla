---------------------------- MODULE MCScheduling ----------------------------
(***************************************************************************)
(* Instances of Scheduling for TLC.                                        *)
(***************************************************************************)
EXTENDS Scheduling, TLC

Settings(enabled, cron, maxRetries, delay) ==
  [enabled |-> enabled, cron |-> cron, maxRetries |-> maxRetries, delay |-> delay]

\* Every cron expression, an hourly and a two-hourly one, say, or none.
MCCrons == {{}, {1, 2}, {2}}
MCPolicySettings == {Settings(TRUE, {}, 1, 0), Settings(FALSE, {2}, 1, 0)}

\* One expression for the runs about retries and the guard.
OneCron == {{}, {1, 2}}
RetrySettings == {Settings(TRUE, {}, 1, 0)}
=============================================================================
