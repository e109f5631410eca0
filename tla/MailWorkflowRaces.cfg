SPECIFICATION Spec
CONSTANTS
  Docs = {d1}
  NoDoc = NoDoc
  Users = {u1}
  NoUser = NoUser
  Sessions = {s1, s2}
  MaxRetries = 1
  KeywordHits = {TRUE}
  Definitions <- NoDefinitions
SYMMETRY Symmetry
INVARIANTS
  TypeOK
  ArchivedHasDate
  HistoryExplainsStatus
\* An uploaded, purged or processed document is final: with finitely many
\* documents the system stops.
CHECK_DEADLOCK FALSE
