SPECIFICATION BoundedSpec
CONSTANTS
  Docs = {d1, d2}
  Sigs = {g1}
  Requests = {r1, r2}
  Sessions = {s1, s2}
  None = None
  MayFail = TRUE
INVARIANTS
  TypeOK
  ApprovedMeansGone
  PurgedLeavesRefused
  CalmStorage
PROPERTIES
  PurgesEnd
