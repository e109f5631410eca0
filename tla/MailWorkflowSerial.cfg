SPECIFICATION FairSpec
CONSTANTS
  Docs = {d1}
  NoDoc = NoDoc
  Users = {u1}
  NoUser = NoUser
  Sessions = {s1}
  MaxRetries = 3
  KeywordHits = {FALSE}
  Definitions <- StoredEdges
INVARIANTS
  ArchivedIffDated
  LinkedHistory
PROPERTIES
  StatusMovesAlongEdges
  ImplementsLifecycle
  OcrSettles
\* A purged document is final and its OCR done: the system stops.
CHECK_DEADLOCK FALSE
