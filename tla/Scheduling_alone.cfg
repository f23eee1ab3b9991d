CONSTANTS
  Jobs = {j1}
  Policies = {p1}
  Schedulers = {s1}
  Operators = {}
  None = None
  StatementsFail = FALSE
  Crons <- OneCron
  PolicySettings <- RetrySettings
  DelayCap = 1
  Horizon = 2
  MaxRuns = 4
  MaxRestarts = 1
  MaxEdits = 0
SPECIFICATION FairSpec
INVARIANTS OneInFlight
PROPERTIES RetryNotForgotten
