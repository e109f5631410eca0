SPECIFICATION CalmSpec
CONSTANTS
  Appointments = {a1, a2}
  Slots <- ThreeSlots
  Sessions = {s1}
  Outage = FALSE
  MayFail = FALSE
  Edits = {"pending"}
  MaxEvents = 1
PROPERTY NoConfirmIntoOverlap
\* Removed and archived appointments are final, and events are bounded.
CHECK_DEADLOCK FALSE
