SPECIFICATION FairSpec
CONSTANTS
  Secrets = {p1, p2}
  Challenges = {c1, c2}
  Requests = {r1}
  Sessions = {s1}
  None = None
INVARIANTS TypeOK LatestCodeOnly
PROPERTIES PendingIsTold CodesCountOnce
