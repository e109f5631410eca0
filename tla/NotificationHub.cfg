SPECIFICATION FairHub
CONSTANTS
  Notes = {n1, n2}
  Tabs = {t1}
  Limit = 1
  Workers = {w1, w2}
  Celery = Celery
  Nowhere = Nowhere
  Capacity = 1
INVARIANTS
  TypeOK
  NoLostWakeup
PROPERTIES
  ImplementsFeed
  CatchesUp
