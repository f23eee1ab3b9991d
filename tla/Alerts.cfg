CONSTANTS
  Agents = {a1}
  Jobs = {j1}
  Runs = {r1}
  Ids = {1, 2}
  Monitor = monitor
  Handlers = {h1}
  OfflineAfter = 1
  RecoverAfter = 2
  SilentCap = 2
  MaxOcc = 3
SPECIFICATION MCSpec
INVARIANTS TableSound OneOfflineAlertAnHour
PROPERTIES ImplementsAlertMachine TroubleShown RecoveryClosesAlerts
