CONSTANTS
  Collections <- MCCollections
  Entries <- MCEntries
  BatchSize = 2
  Jobs <- MCJobs
  MaxRestores = 2
  Destinations = {d1}
  Contents <- MCContents
  Reqs = {q1, q2}
  MaxClaims = 2
  None = None
SPECIFICATION Spec
INVARIANTS StoredIsWhole CompletedRestoreIsWhole TempFilesRemoved PlainBackupsRestore
PROPERTIES ImplementsRestoreMachine RunningSettles
CHECK_DEADLOCK FALSE
