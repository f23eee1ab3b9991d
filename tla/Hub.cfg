CONSTANTS
  Socks = {c1, c2}
  Dashboards = {d1}
  Runs = {r1, r2}
  None = None
  SendBuffer = 1
  MaxEvents = 2
  MaxBreaks = 2
SPECIFICATION Spec
INVARIANTS PeersSound KeptBoardMissesNothing
PROPERTIES CancelArrives AgentReconnects
CHECK_DEADLOCK FALSE
