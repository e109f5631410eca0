SPECIFICATION Spec
CONSTANTS
  Times = {1, 2, 3, 4, 5, 6}
  DayStart = 2
  DayEnd = 5
  Durations = {1, 2}
  MaxAgenda = 3
INVARIANTS
  OfferedSlotsAreBookable
  OneOfferPerGap
  ConflictMeansOverlap
