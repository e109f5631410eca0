--------------------------- MODULE MCAppointments ---------------------------
(***************************************************************************)
(* Appointments with a history variable that tells the runs in which one   *)
(* request follows the other, none dies and Google answers from the rest.  *)
(***************************************************************************)
EXTENDS Appointments, TLC

VARIABLE calm

calmVars == <<vars, calm>>

\* A slot within another, and one that only touches it.
ThreeSlots == {[from |-> 1, to |-> 4], [from |-> 2, to |-> 3], [from |-> 4, to |-> 5]}
TwoSlots == {[from |-> 1, to |-> 4], [from |-> 4, to |-> 5]}
ShortSlot == [from |-> 4, to |-> 5]

\* Google does not do what session s asked it to.
Unserved(s) == session[s].at \in {"strip", "sync"} /\ live' = live

CalmInit == Init /\ calm = TRUE

(***************************************************************************)
(* Bounds: while it is calm there are two appointments, both slots and one *)
(* event; otherwise there is one appointment, one slot and two events.     *)
(***************************************************************************)
Calm == \A a \in Appointments : live[a] \subseteq {1}

Crossed ==
  /\ Cardinality({a \in Appointments : row[a].table # "absent"}
                   \cup {session[s].apt : s \in {t \in Sessions : Busy(t)}}) <= 1
  /\ \A a \in Appointments : row[a].slot # ShortSlot /\ row[a].proposed # ShortSlot
  /\ \A s \in Sessions : Busy(s) =>
       session[s].new.slot # ShortSlot /\ session[s].new.proposed # ShortSlot

CalmNext ==
  /\ \/ \E s \in Sessions :
          /\ Proceed(s) \/ \E a \in Appointments : Request(s, a)
          /\ calm' = (calm /\ ~Unserved(s) /\ \A t \in Sessions \ {s} : ~Busy(t))
     \/ \E s \in Sessions : Die(s) /\ calm' = FALSE
  /\ IF calm' THEN Calm' ELSE Crossed'

CalmSpec == CalmInit /\ [][CalmNext]_calmVars

\* While it is calm no time of the host is booked twice, but through PUT.
CalmBookings == calm => BookedOnce

\* While it is calm the Google calendar holds, between requests, what the rows say.
CalmCalendar == calm => CalendarMirrors

\* While it is calm only PUT changes an outcome.
CalmOutcomes == [][calm' => StandingOutcomes]_calmVars

Symmetry == Permutations(Appointments) \cup Permutations(Sessions)
=============================================================================
