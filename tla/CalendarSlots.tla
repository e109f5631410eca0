---------------------------- MODULE CalendarSlots ---------------------------
(***************************************************************************)
(* The free slots that CalendarService.get_available_slots finds in one    *)
(* working day of a host, against what check_conflicts says of them.  The  *)
(* agenda grows by one appointment a step, so that TLC visits all small    *)
(* agendas; a call passes over the day's appointments one by one, in the   *)
(* order of their start and, where the query leaves it open, in any order. *)
(***************************************************************************)
EXTENDS Calendar, FiniteSets

CONSTANTS
  Times,      \* the hours appointments start and end at
  DayStart,   \* work_start
  DayEnd,     \* work_end
  Durations,  \* the durations that are asked for
  MaxAgenda   \* bound: appointments in an agenda

ASSUME TimesAssumption ==
  /\ Times \subseteq Int /\ Durations \subseteq Int
  /\ DayStart \in Int /\ DayEnd \in Int /\ DayStart < DayEnd
  /\ MaxAgenda \in Nat

VARIABLES
  agenda,  \* the host's appointments that are not archived
  call     \* where a call of get_available_slots is

vars == <<agenda, call>>

\* The statuses stand for those check_conflicts and the slots tell apart.
Appointment == [from : Times, to : Times,
                status : {"confirmed", "cancelled", "completed"}]

Proper(apt) == apt.from < apt.to

Slot == [from : Int, to : Int]

\* The query's rows still to pass, current_time and available_slots.
Calls == [at : {"idle", "pass", "done"}, duration : Int,
          left : SUBSET Appointment, now : Int, found : SUBSET Slot]

Idle == [at |-> "idle", duration |-> 0, left |-> {}, now |-> 0, found |-> {}]

TypeOK == agenda \subseteq Appointment /\ call \in Calls

Init == agenda = {} /\ call = Idle

(***************************************************************************)
(* Any two times are accepted, and PUT may set any status.  (The query     *)
(* reads the rows once, so a booking during a call does not concern it.)   *)
(***************************************************************************)
Book(apt) ==
  /\ call = Idle
  /\ Cardinality(agenda) < MaxAgenda
  /\ agenda' = agenda \cup {apt}
  /\ UNCHANGED call

-----------------------------------------------------------------------------
(* get_available_slots *)

Least(a, b) == IF a <= b THEN a ELSE b
Greatest(a, b) == IF a <= b THEN b ELSE a

\* Mutant: an appointment at the start of work is missed.
OfTheDayLate == {apt \in agenda : /\ DayStart < apt.from /\ apt.from < DayEnd
                                  /\ apt.status # "cancelled"}

\* Only those that start within the working day, whatever they end at.
OfTheDay == {apt \in agenda : /\ DayStart <= apt.from /\ apt.from < DayEnd
                              /\ apt.status # "cancelled"}

\* The slot, if any, between now and limit.
Offer(now, limit, duration) ==
  LET end == Least(limit, now + duration)
  IN  IF now < limit /\ end - now >= duration
        THEN {[from |-> now, to |-> end]} ELSE {}

\* The query.  (The duration is any integer: the routes do not check it.)
Query(duration) ==
  /\ call = Idle
  /\ call' = [at |-> "pass", duration |-> duration, left |-> OfTheDay,
              now |-> DayStart, found |-> {}]
  /\ UNCHANGED agenda

\* ORDER BY start_time leaves the order of those that start together open.
IsNext(apt) == apt \in call.left /\ \A other \in call.left : apt.from <= other.from

\* Mutant: the end of the last appointment, not the latest end.
PassJumping(apt) ==
  /\ call.at = "pass" /\ IsNext(apt)
  /\ call' = [call EXCEPT !.left = @ \ {apt},
                          !.found = @ \cup Offer(call.now, apt.from, call.duration),
                          !.now = apt.to]
  /\ UNCHANGED agenda

\* One round of the loop.
Pass(apt) ==
  /\ call.at = "pass" /\ IsNext(apt)
  /\ call' = [call EXCEPT !.left = @ \ {apt},
                          !.found = @ \cup Offer(call.now, apt.from, call.duration),
                          !.now = Greatest(@, apt.to)]
  /\ UNCHANGED agenda

\* What remains of the day after the last appointment.
Finish ==
  /\ call.at = "pass" /\ call.left = {}
  /\ call' = [call EXCEPT !.at = "done",
                          !.found = @ \cup Offer(call.now, DayEnd, call.duration)]
  /\ UNCHANGED agenda

Answer ==
  /\ call.at = "done"
  /\ call' = Idle
  /\ UNCHANGED agenda

Next ==
  \/ \E apt \in Appointment : Book(apt)
  \/ \E duration \in Durations : Query(duration)
  \/ \E apt \in call.left : Pass(apt)
  \/ Finish
  \/ Answer

Spec == Init /\ [][Next]_vars

\* check_conflicts for a slot.
Conflicts(slot) == {apt \in agenda : apt.status \notin Final /\ Conflict(slot, apt)}

-----------------------------------------------------------------------------
(* Properties *)

(***************************************************************************)
(* A slot that is offered can be booked: check_conflicts finds nothing     *)
(* against it.  So it is unless an appointment runs into the working day   *)
(* from before its start, which the query for the day does not see, or     *)
(* ends before it starts, which check_conflicts counts and the pass over   *)
(* the day does not.  (A duration that is not positive is answered with    *)
(* slots that end where or before they start.)                             *)
(***************************************************************************)
AllProper == \A apt \in agenda : Proper(apt)
NoEarlyStart == \A apt \in agenda : apt.from >= DayStart \/ apt.to <= DayStart

OfferedSlotsAreBookable ==
  call.at = "done" /\ call.duration > 0 /\ AllProper /\ NoEarlyStart =>
    \A slot \in call.found : Conflicts(slot) = {}

(***************************************************************************)
(* With proper appointments the offer is one slot at the start of each gap *)
(* that is long enough, and no gap is missed.  (A gap starts with the day  *)
(* or where an appointment ends; completed visits still take their time.)  *)
(***************************************************************************)
GapStarts == {DayStart} \cup {apt.to : apt \in OfTheDay}

Gaps(duration) ==
  {slot \in {[from |-> t, to |-> t + duration] : t \in GapStarts} :
     /\ slot.to <= DayEnd
     /\ \A apt \in OfTheDay : ~Overlap(slot, apt)}

OneOfferPerGap ==
  call.at = "done" /\ call.duration > 0 /\ AllProper =>
    call.found = Gaps(call.duration)

(***************************************************************************)
(* check_conflicts misses no overlap, and for proper slots it reports      *)
(* nothing else.                                                           *)
(***************************************************************************)
ConflictMeansOverlap ==
  \A a, b \in agenda :
    /\ Overlap(a, b) => Conflict(a, b)
    /\ Proper(a) /\ Proper(b) /\ Conflict(a, b) => Overlap(a, b)
=============================================================================
