SPECIFICATION Spec
CONSTANTS
  photo = photo
  papers = papers
  ledger = ledger
  a = a
  b = b
  Absent = Absent
  NoJob = NoJob
  Sections <- MCSections
  Multiple <- MCMultiple
  Versioned <- MCVersioned
  Contents <- MCContents
  Jobs <- MCJobs
  StartDocs <- MCStartDocs
  Requests = {q1, q2, q3}
  Local = TRUE
  IdField = TRUE
  MaxFaults = 1
SYMMETRY Symmetry
INVARIANT TypeOK
INVARIANT FilesAccounted
INVARIANT ErasuresJustified
CHECK_DEADLOCK FALSE
