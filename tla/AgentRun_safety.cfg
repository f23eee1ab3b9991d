CONSTANTS
  Runs = {r1, r2}
  NoRun = NoRun
  Faults = {"loss", "crash", "storage", "work"}
SPECIFICATION Spec
SYMMETRY Symmetry
INVARIANTS TypeOK StageInStep
PROPERTIES CompletedWhenStored ImplementsRunMachine
