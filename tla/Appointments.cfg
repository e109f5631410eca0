SPECIFICATION CalmSpec
CONSTANTS
  Appointments = {a1, a2}
  Slots <- TwoSlots
  Sessions = {s1, s2}
  Outage = TRUE
  MayFail = TRUE
  Edits = {"confirmed"}
  MaxEvents = 2
SYMMETRY Symmetry
INVARIANTS
  TypeOK
  StoredEventLives
  CalmBookings
  CalmCalendar
PROPERTY CalmOutcomes
\* Removed and archived appointments are final, and events are bounded.
CHECK_DEADLOCK FALSE
