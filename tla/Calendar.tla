------------------------------ MODULE Calendar ------------------------------
(***************************************************************************)
(* When two appointments of one host are in each other's way:              *)
(* CalendarService.check_conflicts.  A slot is from .. to; times are       *)
(* integers, and nothing makes a slot's end come after its start, for the  *)
(* schemas accept any two datetimes.                                       *)
(***************************************************************************)
EXTENDS Integers

AppointmentStatus ==
  {"pending", "slot_proposed", "pending_authorization", "preparation",
   "confirmed", "cancelled", "completed", "no_show"}

\* Those whose time is free again.
Final == {"cancelled", "completed", "no_show"}

\* Mutant: the third condition is left out.
ConflictAtEnds(new, old) ==
  \/ old.from <= new.from /\ new.from < old.to
  \/ old.from < new.to /\ new.to <= old.to

(***************************************************************************)
(* The three conditions of the query: the new slot starts in the old one,  *)
(* ends in it, or starts before it and ends after it has begun.            *)
(***************************************************************************)
Conflict(new, old) ==
  \/ old.from <= new.from /\ new.from < old.to
  \/ old.from < new.to /\ new.to <= old.to
  \/ new.from <= old.from /\ old.from < new.to

(***************************************************************************)
(* The reference: two slots overlap if they have a moment in common.       *)
(***************************************************************************)
Overlap(a, b) ==
  /\ a.from < a.to /\ b.from < b.to
  /\ a.from < b.to /\ b.from < a.to
=============================================================================
