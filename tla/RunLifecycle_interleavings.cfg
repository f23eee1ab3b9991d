CONSTANTS
  Runs = {r1}
  Agents = {a1}
  a1 = a1
  AgentOf <- MCAgentOf
  Reqs = {q1, q2}
  Counters = {0}
  StaleAfter = 2
  GoneAfter = 1
  OfflineAfter = 1
  RetainFor = 2
  MaxRestarts = 1
SPECIFICATION FairSpec
INVARIANTS TypeOK EndTimesMatch NeverClaimed
PROPERTIES SettledOnlyCancelled StartedOnce ImplementsRunMachine DeadAgentRunsSettle
