-------------------------- MODULE MCScheduledTasks --------------------------
EXTENDS ScheduledTasks, TLC

Symmetry ==
  Permutations(Appointments) \cup Permutations(Documents) \cup Permutations(Workers)
=============================================================================
