SPECIFICATION Spec
CONSTANTS
  Appointments = {a1}
  Documents = {d1}
  Workers = {w1}
  Instants = {0, 18, 66, 90}
  Starts = {66, 90}
  NoTime = NoTime
  NoOne = NoOne
  MaxMails = 2
INVARIANT NextDayReminded
\* The last instant is the end.
CHECK_DEADLOCK FALSE
