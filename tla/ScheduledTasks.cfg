SPECIFICATION Spec
CONSTANTS
  Appointments = {a1, a2}
  Documents = {d1}
  Workers = {w1, w2}
  Instants = {0, 18, 20, 66, 68, 114}
  Starts = {65, 67, 114}
  NoTime = NoTime
  NoOne = NoOne
  MaxMails = 2
SYMMETRY Symmetry
INVARIANTS TypeOK RemindedInTime RemindedOnce FlagMeansMailed AlertedOnce OverdueIsAlerted
\* The last instant is the end.
CHECK_DEADLOCK FALSE
