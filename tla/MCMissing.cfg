SPECIFICATION Spec
CONSTANTS
  a = a
  None = None
  NoJob = NoJob
  Calls = {c1}
  Keys <- MCKeys
  Jobs <- MCJobs
  Size = 2
  Providers <- MCS3
  MaxFaults = 0
INVARIANT MissingIsNotFound
CHECK_DEADLOCK FALSE
