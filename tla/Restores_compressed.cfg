CONSTANTS
  Collections <- MCCollections
  Entries <- MCEntries
  BatchSize = 2
  Jobs <- MCJobs
  MaxRestores = 1
  Destinations = {d1}
  Contents <- MCContents
  Reqs = {q1}
  MaxClaims = 1
  None = None
SPECIFICATION Spec
INVARIANTS BackupsRestore
CHECK_DEADLOCK FALSE
