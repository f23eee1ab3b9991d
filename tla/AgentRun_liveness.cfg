CONSTANTS
  Runs = {r1, r2}
  NoRun = NoRun
  Faults = {"storage", "work"}
SPECIFICATION FairSpec
PROPERTIES ClaimedRunSettles
