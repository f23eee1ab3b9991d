CONSTANTS
  Jobs = {j1}
  Policies = {p1}
  Schedulers = {s1, s2}
  Operators = {}
  None = None
  StatementsFail = TRUE
  Crons <- OneCron
  PolicySettings <- RetrySettings
  DelayCap = 1
  Horizon = 2
  MaxRuns = 3
  MaxRestarts = 0
  MaxEdits = 0
SPECIFICATION Spec
INVARIANTS OneRunPerBoundary RetryBudget
