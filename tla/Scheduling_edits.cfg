CONSTANTS
  Jobs = {j1}
  Policies = {p1}
  Schedulers = {s1}
  Operators = {u1}
  None = None
  StatementsFail = TRUE
  Crons <- MCCrons
  PolicySettings <- MCPolicySettings
  DelayCap = 1
  Horizon = 2
  MaxRuns = 2
  MaxRestarts = 0
  MaxEdits = 2
SPECIFICATION Spec
INVARIANTS TypeOK RetryChain
