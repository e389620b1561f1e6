SPECIFICATION Spec
CONSTANTS
  photo = photo
  papers = papers
  ledger = ledger
  a = a
  b = b
  Absent = Absent
  NoJob = NoJob
  Sections <- MCSections
  Multiple <- MCMultiple
  Versioned <- MCVersioned
  Contents <- MCContents
  Jobs <- MCJobs
  StartDocs <- MCStartDocs
  Requests = {q1, q2}
  Local = TRUE
  IdField = TRUE
  MaxFaults = 0
INVARIANT CollisionsAvoided
CHECK_DEADLOCK FALSE
