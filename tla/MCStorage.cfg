SPECIFICATION Spec
CONSTANTS
  a = a
  None = None
  NoJob = NoJob
  Calls = {c1, c2, c3}
  Keys <- MCKeys
  Jobs <- MCJobs
  Size = 2
  Providers <- MCBoth
  MaxFaults = 1
INVARIANT TypeOK
INVARIANT LastPutCounts
INVARIANT ReadsWhole
PROPERTY RefinesStore
PROPERTY CallsEnd
CHECK_DEADLOCK FALSE
