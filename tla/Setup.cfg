CONSTANTS
  Agents = {a1, a2}
  Machines = {m1, m2}
  Wizards = {m1}
  Servers = {home, away}
  None = None
  home = home
  away = away
  a1 = a1
  a2 = a2
  m1 = m1
  m2 = m2
  ServerOf <- MCServerOf
  EnvSecret <- MCEnvSecret
  MaxSetups = 2
  MaxUpsets = 1
SPECIFICATION FairSpec
INVARIANTS CredentialsSound FailedSetupKeepsInstall
PROPERTIES RevokedAgentStops InstalledAgentReturns
CHECK_DEADLOCK FALSE
