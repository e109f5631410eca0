------------------------- MODULE AppointmentsProofs -------------------------
(***************************************************************************)
(* For any number of appointments, requests and events: the model is       *)
(* type-correct, a stored event id names an event in the calendar, and as  *)
(* long as one request follows the other and Google answers, no time is    *)
(* booked twice, the calendar holds what the rows say and outcomes stand.  *)
(***************************************************************************)
EXTENDS MCAppointments, TLAPS

-----------------------------------------------------------------------------
(* Types *)

LEMMA NoRowType == NoRow \in Row /\ Gone \in Row
BY DEF NoRow, Gone, Row, AppointmentStatus, NoSlot, NoEvent

\* What a handler writes is a row, and has the event of the one it read.
Change(r, new) ==
  new \in Row /\ new.event = r.event /\ (r.table = "present" => new.table # "absent")

LEMMA ChangeType ==
  ASSUME NEW r \in Row, NEW status \in AppointmentStatus, NEW slot \in Slots \cup {NoSlot}
  PROVE  /\ Change(r, [r EXCEPT !.status = status])
         /\ Change(r, [r EXCEPT !.status = status, !.slot = slot])
         /\ Change(r, [r EXCEPT !.slot = slot, !.status = status])
         /\ Change(r, [r EXCEPT !.status = status, !.slot = slot, !.proposed = slot])
         /\ Change(r, [r EXCEPT !.archived = TRUE])
         /\ Change(r, [r EXCEPT !.table = "removed"])
BY DEF Row, Change

LEMMA FlushType ==
  ASSUME NEW now \in Row, NEW seen \in Row, NEW new \in Row
  PROVE  /\ Flush(now, seen, new) \in Row
         /\ Flush(now, seen, new).event = Pick(now.event, seen.event, new.event)
         /\ Flush(now, seen, new).table = Pick(now.table, seen.table, new.table)
BY DEF Flush, Pick, Row

LEMMA BusyType ==
  ASSUME TypeOK, NEW s \in Sessions
  PROVE  /\ Busy(s) => session[s] \in Working
         /\ ~Busy(s) <=> session[s] = Idle
         /\ Busy(s) => /\ session[s].apt \in Appointments
                       /\ session[s].seen \in Row /\ session[s].new \in Row
                       /\ session[s].event \in Event \cup {NoEvent}
BY DEF TypeOK, Working, Busy, Idle

-----------------------------------------------------------------------------
(***************************************************************************)
(* What is right about the rows as long as one request follows the other:  *)
(* bookings do not overlap, a proposal that PUT has not touched is for the *)
(* slot it has, and an appointment that is not made yet has no outcome.    *)
(***************************************************************************)
ProposalsStand ==
  \A a \in Appointments \ edited : row[a].status = "slot_proposed" => row[a].proposed = row[a].slot

NoneDecided == \A a \in Appointments : row[a].table = "absent" => row[a].status \notin Final

RowsInOrder == BookedOnce /\ ProposalsStand /\ NoneDecided

\* A row that is to take the host's time; one that PUT has no hand in.
TakesTime(new) == new.table = "present" /\ ~new.archived /\ new.status \notin Final

EditsRow(op, old, new) ==
  /\ op = "update"
  /\ \/ new.status # old.status
     \/ new.status = "slot_proposed" /\ new.slot # old.slot

Unedited(a, op, new) == a \notin edited /\ ~EditsRow(op, row[a], new)

(***************************************************************************)
(* What is right about a decision to make row a new, as long as the rows   *)
(* are those it was taken on.                                              *)
(***************************************************************************)
Fits(a, op, new) ==
  TakesTime(new) /\ Unedited(a, op, new) =>
    \A b \in Appointments \ ({a} \cup edited) : Blocking(b) => ~Overlap(new.slot, row[b].slot)

Sound(a, op, new) ==
  /\ row[a].table # "removed"
  /\ Fits(a, op, new)
  /\ new.status = "slot_proposed" /\ Unedited(a, op, new) => new.proposed = new.slot
  /\ op \in Syncs => new.table = "present" /\ ~new.archived
  /\ new.table = "present" /\ ~new.archived /\ new.status = "confirmed" => op \in Syncs
  /\ new.table = "removed" => op \in Strips
  /\ new.archived => op \in Strips \/ row[a].archived
  /\ row[a].status \in Final => new.status = row[a].status \/ op = "update"

LEMMA OverlapIsConflict ==
  ASSUME NEW x \in Slots \cup {NoSlot}, NEW y \in Slots \cup {NoSlot}
  PROVE  /\ Overlap(x, y) => Conflict(x, y)
         /\ Overlap(x, y) <=> Overlap(y, x)
<1>1. x \in [from : Int, to : Int] /\ y \in [from : Int, to : Int]
  BY AppointmentsAssumption DEF NoSlot
<1> QED  BY <1>1 DEF Overlap, Conflict

\* A slot that was checked fits, and so does one that is kept.
LEMMA FreeSlotFits ==
  ASSUME TypeOK, NEW a \in Appointments, NEW op, NEW new,
         new.slot \in Slots \cup {NoSlot}, ~Taken(a, new.slot)
  PROVE  Fits(a, op, new)
<1>1. \A b \in Appointments : row[b].slot \in Slots \cup {NoSlot}
  BY DEF TypeOK, Row
<1> QED  BY <1>1, OverlapIsConflict DEF Fits, Taken

LEMMA KeptSlotFits ==
  ASSUME BookedOnce, NEW a \in Appointments, NEW op, NEW new,
         Blocking(a), a \notin edited => new.slot = row[a].slot
  PROVE  Fits(a, op, new)
BY DEF Fits, Unedited, BookedOnce

\* Every request begins with a row its handler made of the one it read.
LEMMA RequestBegins ==
  ASSUME TypeOK, NEW s \in Sessions, NEW a \in Appointments, Request(s, a),
         ~Present(a) => row[a].event = NoEvent
  PROVE  \E op \in Operation, new \in Row :
           /\ Begin(s, a, op, new)
           /\ new.event = row[a].event /\ new.table # "absent"
           /\ RowsInOrder => Sound(a, op, new)
<1> DEFINE Begins == \E op \in Operation, new \in Row :
                       /\ Begin(s, a, op, new)
                       /\ new.event = row[a].event /\ new.table # "absent"
                       /\ RowsInOrder => Sound(a, op, new)
<1>0. /\ row[a] \in Row /\ row[a].status \in AppointmentStatus
      /\ row[a].slot \in Slots \cup {NoSlot} /\ row[a].proposed \in Slots \cup {NoSlot}
  BY DEF TypeOK, Row
<1>1. ASSUME NEW op \in Operation, NEW new \in Row, Begin(s, a, op, new),
             new.event = row[a].event, new.table # "absent",
             RowsInOrder => Sound(a, op, new)
      PROVE  Begins
  BY <1>1
<1> HIDE DEF Begins
<1>3. ASSUME NEW slot \in Slots, Create(s, a, slot) PROVE Begins
  <2> DEFINE new == [NoRow EXCEPT !.table = "present", !.slot = slot]
  <2>1. new \in Row /\ new.event = NoRow.event /\ new.table = "present"
    BY NoRowType DEF Row
  <2>2. row[a].event = NoEvent /\ NoRow.event = NoEvent
    BY <1>3 DEF Create, Present, NoRow
  <2>3. Begin(s, a, "create", new) /\ row[a].table = "absent" /\ ~Taken(a, slot)
    BY <1>3 DEF Create
  <2>4. new.slot = slot /\ new.status = "pending" /\ new.archived = FALSE
    BY DEF NoRow
  <2> HIDE DEF new
  <2>5. Fits(a, "create", new)
    BY <2>3, <2>4, FreeSlotFits
  <2>6. RowsInOrder => Sound(a, "create", new)
    BY <2>1, <2>3, <2>4, <2>5 DEF Sound, RowsInOrder, NoneDecided, Syncs
  <2> QED  BY <1>1, <2>1, <2>2, <2>3, <2>6 DEF Operation
<1>4. CASE Confirm(s, a)
  <2> DEFINE slot == IF row[a].status = "slot_proposed" /\ row[a].proposed # NoSlot
                       THEN row[a].proposed ELSE row[a].slot
             new == [row[a] EXCEPT !.status = "confirmed", !.slot = slot]
  <2>1. /\ Begin(s, a, "confirm", new) /\ Current(a) /\ Present(a)
        /\ row[a].status \in {"pending", "slot_proposed", "preparation"}
    BY <1>4 DEF Confirm, ConfirmFrom, Current, Present
  <2>3. slot \in Slots \cup {NoSlot} /\ "confirmed" \in AppointmentStatus
    BY <1>0 DEF AppointmentStatus
  <2>4. ProposalsStand /\ a \notin edited => slot = row[a].slot
    BY DEF ProposalsStand
  <2> HIDE DEF slot
  <2>2. Change(row[a], new)
    BY <1>0, <2>3 DEF Row, Change
  <2>5. /\ new.table = row[a].table /\ new.archived = row[a].archived
        /\ new.status = "confirmed" /\ new.slot = slot
    BY <1>0 DEF Row
  <2> HIDE DEF new
  <2>6. ASSUME RowsInOrder PROVE Sound(a, "confirm", new)
    <3>1. Blocking(a)
      BY <2>1 DEF Blocking, Final
    <3>2. Fits(a, "confirm", new)
      BY <2>4, <2>5, <2>6, <3>1, KeptSlotFits DEF RowsInOrder
    <3> QED  BY <2>1, <2>5, <3>2 DEF Sound, Current, Present, Syncs, Final
  <2> QED  BY <1>1, <2>1, <2>2, <2>6 DEF Operation, Change, Present
<1>5. ASSUME NEW status \in {"completed", "no_show"}, Outcome(s, a, status) PROVE Begins
  <2> DEFINE new == [row[a] EXCEPT !.status = status]
  <2>1. Begin(s, a, "outcome", new) /\ Present(a) /\ row[a].status = "confirmed"
    BY <1>5 DEF Outcome, Current, Present
  <2>2. Change(row[a], new)
    BY <1>0, ChangeType DEF AppointmentStatus
  <2>3. new.table = row[a].table /\ new.archived = row[a].archived /\ new.status = status
    BY <1>0 DEF Row
  <2> HIDE DEF new
  <2>4. Sound(a, "outcome", new)
    BY <1>5, <2>1, <2>3 DEF Sound, Fits, TakesTime, Present, Syncs, Final
  <2> QED  BY <1>1, <2>1, <2>2, <2>4 DEF Operation, Change, Present
<1>6. ASSUME NEW slot \in Slots, ProposeSlot(s, a, slot) PROVE Begins
  <2> DEFINE new == [row[a] EXCEPT !.status = "slot_proposed", !.slot = slot,
                                   !.proposed = slot]
  <2>1. /\ Begin(s, a, "propose", new) /\ Present(a)
        /\ row[a].status = "pending" /\ ~Taken(a, slot)
    BY <1>6 DEF ProposeSlot, Current, Present
  <2>2. Change(row[a], new)
    BY <1>0 DEF Row, AppointmentStatus, Change
  <2>3. /\ new.table = row[a].table /\ new.archived = row[a].archived
        /\ new.status = "slot_proposed" /\ new.slot = slot /\ new.proposed = slot
    BY <1>0 DEF Row
  <2> HIDE DEF new
  <2>4. Fits(a, "propose", new)
    BY <2>1, <2>3, FreeSlotFits
  <2>5. Sound(a, "propose", new)
    BY <2>1, <2>3, <2>4 DEF Sound, Present, Syncs, Final
  <2> QED  BY <1>1, <2>1, <2>2, <2>5 DEF Operation, Change, Present
<1>7. CASE HierarchyValidate(s, a)
  <2> DEFINE new == [row[a] EXCEPT !.status = "preparation"]
  <2>1. /\ Begin(s, a, "validate", new) /\ Current(a) /\ Present(a)
        /\ row[a].status = "slot_proposed"
    BY <1>7 DEF HierarchyValidate, Current, Present
  <2>2. Change(row[a], new)
    BY <1>0, ChangeType DEF AppointmentStatus
  <2>3. /\ new.table = row[a].table /\ new.archived = row[a].archived
        /\ new.status = "preparation" /\ new.slot = row[a].slot
    BY <1>0 DEF Row
  <2> HIDE DEF new
  <2>4. ASSUME RowsInOrder PROVE Sound(a, "validate", new)
    <3>1. Fits(a, "validate", new)
      BY <2>1, <2>3, <2>4, KeptSlotFits DEF RowsInOrder, Blocking, Final
    <3> QED  BY <2>1, <2>3, <3>1 DEF Sound, Present, Syncs, Final
  <2> QED  BY <1>1, <2>1, <2>2, <2>4 DEF Operation, Change, Present
<1>8. CASE Cancel(s, a) \/ HierarchyReject(s, a) \/ ApproveDeletion(s, a)
  <2> DEFINE new == [row[a] EXCEPT !.status = "cancelled"]
  <2>1. Begin(s, a, "cancel", new) /\ Present(a) /\ row[a].status \notin Final
    BY <1>8 DEF Cancel, HierarchyReject, ApproveDeletion, Current, Present, Final
  <2>2. Change(row[a], new)
    BY <1>0, ChangeType DEF AppointmentStatus
  <2>3. new.table = row[a].table /\ new.status = "cancelled"
    BY <1>0 DEF Row
  <2> HIDE DEF new
  <2>4. Sound(a, "cancel", new)
    BY <2>1, <2>3 DEF Sound, Fits, TakesTime, Present, Syncs, Strips, Final
  <2> QED  BY <1>1, <2>1, <2>2, <2>4 DEF Operation, Change, Present
<1>9. CASE Archive(s, a)
  <2> DEFINE new == [row[a] EXCEPT !.archived = TRUE]
  <2>1. Begin(s, a, "archive", new) /\ Present(a)
    BY <1>9 DEF Archive, Current, Present
  <2>2. Change(row[a], new)
    BY <1>0, ChangeType DEF AppointmentStatus
  <2>3. /\ new.table = row[a].table /\ new.archived = TRUE /\ new.status = row[a].status
        /\ new.slot = row[a].slot /\ new.proposed = row[a].proposed
    BY <1>0 DEF Row
  <2> HIDE DEF new
  <2>4. RowsInOrder => Sound(a, "archive", new)
    BY <2>1, <2>3 DEF Sound, Fits, TakesTime, Unedited, RowsInOrder, ProposalsStand, Present,
       Syncs, Strips
  <2> QED  BY <1>1, <2>1, <2>2, <2>4 DEF Operation, Change, Present
<1>10. CASE PermanentDelete(s, a)
  <2> DEFINE new == [row[a] EXCEPT !.table = "removed"]
  <2>1. Begin(s, a, "purge", new) /\ Present(a)
    BY <1>10 DEF PermanentDelete, Present
  <2>2. Change(row[a], new)
    BY <1>0, ChangeType DEF AppointmentStatus
  <2>3. /\ new.table = "removed" /\ new.status = row[a].status
        /\ new.slot = row[a].slot /\ new.proposed = row[a].proposed
    BY <1>0 DEF Row
  <2> HIDE DEF new
  <2>4. RowsInOrder => Sound(a, "purge", new)
    BY <2>1, <2>3 DEF Sound, Fits, TakesTime, Unedited, RowsInOrder, ProposalsStand, Present,
       Syncs, Strips
  <2> QED  BY <1>1, <2>1, <2>2, <2>4 DEF Operation, Change, Present
<1>11. ASSUME NEW slot \in Slots \cup {row[a].slot},
              NEW status \in Edits \cup {row[a].status}, Update(s, a, slot, status)
       PROVE  Begins
  <2> DEFINE new == [row[a] EXCEPT !.slot = slot, !.status = status]
  <2>1. /\ Begin(s, a, "update", new) /\ Current(a) /\ Present(a)
        /\ slot # row[a].slot => ~Taken(a, slot)
    BY <1>11 DEF Update, Current, Present
  <2>3. slot \in Slots \cup {NoSlot} /\ status \in AppointmentStatus
    BY <1>0, AppointmentsAssumption
  <2>2. Change(row[a], new)
    BY <1>0, <2>3, ChangeType
  <2>4. /\ new.table = row[a].table /\ new.archived = row[a].archived
        /\ new.status = status /\ new.slot = slot /\ new.proposed = row[a].proposed
    BY <1>0 DEF Row
  <2> HIDE DEF new
  <2>5. ASSUME RowsInOrder PROVE Sound(a, "update", new)
    <3>1. ASSUME slot # row[a].slot PROVE Fits(a, "update", new)
      BY <2>1, <2>3, <2>4, <3>1, FreeSlotFits
    <3>2. ASSUME slot = row[a].slot, Blocking(a) PROVE Fits(a, "update", new)
      BY <2>4, <2>5, <3>2, KeptSlotFits DEF RowsInOrder
    <3>3. ASSUME ~Blocking(a) PROVE Fits(a, "update", new)
      \* Back from a final status: a hand PUT has in it.
      BY <2>1, <2>4, <3>3 DEF Fits, TakesTime, Unedited, EditsRow, Blocking
    <3>4. Fits(a, "update", new)
      BY <3>1, <3>2, <3>3
    <3>5. new.status = "slot_proposed" /\ Unedited(a, "update", new) => new.proposed = new.slot
      BY <2>4, <2>5 DEF Unedited, EditsRow, RowsInOrder, ProposalsStand
    <3> QED  BY <2>1, <2>4, <3>4, <3>5 DEF Sound, Current, Present, Syncs, Strips
  <2> QED  BY <1>1, <2>1, <2>2, <2>5 DEF Operation, Change, Present
<1> QED
  BY <1>3, <1>4, <1>5, <1>6, <1>7, <1>8, <1>9, <1>10, <1>11 DEF Request, Begins

-----------------------------------------------------------------------------
(***************************************************************************)
(* What each step does to its session.  Others(s) says that the sessions   *)
(* but s are where they were, and that all of them have their type.        *)
(***************************************************************************)
Others(s) ==
  /\ session' \in [Sessions -> Working \cup {Idle}]
  /\ \A t \in Sessions \ {s} : session'[t] = session[t]

LEMMA OneMoves ==
  ASSUME TypeOK, NEW s \in Sessions, NEW w \in Working \cup {Idle},
         session' = [session EXCEPT ![s] = w]
  PROVE  Others(s) /\ session'[s] = w
BY DEF TypeOK, Others

LEMMA GotoEffect ==
  ASSUME TypeOK, NEW s \in Sessions, Busy(s), NEW at,
         at \in {"stripped", "sync", "store"}, Goto(s, at)
  PROVE  /\ Others(s)
         /\ session'[s].at = at /\ session'[s].apt = session[s].apt
         /\ session'[s].op = session[s].op
         /\ session'[s].seen = session[s].seen /\ session'[s].new = session[s].new
         /\ session'[s].event = session[s].event
<1> DEFINE w == [session[s] EXCEPT !.at = at]
<1>1. session[s] \in Working
  BY BusyType
<1>2. /\ w \in Working
      /\ w.at = at /\ w.apt = session[s].apt /\ w.op = session[s].op
      /\ w.seen = session[s].seen
      /\ w.new = session[s].new /\ w.event = session[s].event
  BY <1>1 DEF Working
<1>3. session' = [session EXCEPT ![s] = w]
  BY DEF Goto
<1> HIDE DEF w
<1> QED  BY <1>2, <1>3, OneMoves

LEMMA EndEffect ==
  ASSUME TypeOK, NEW s \in Sessions, End(s)
  PROVE  Others(s) /\ session'[s] = Idle
BY OneMoves DEF End

LEMMA BeginEffect ==
  ASSUME TypeOK, NEW s \in Sessions, NEW a \in Appointments, NEW op \in Operation,
         NEW new \in Row, Begin(s, a, op, new)
  PROVE  /\ Others(s) /\ session'[s] \in Working
         /\ session'[s].at \in {"strip", "commit"} /\ session'[s].apt = a
         /\ session'[s].seen = row[a] /\ session'[s].new = new
         /\ session'[s].event = NoEvent /\ session'[s].op = op
         /\ session'[s].at = "strip" <=> op \in Strips /\ row[a].event # NoEvent
         /\ UNCHANGED <<row, live, edited, hurt>>
<1> DEFINE at == IF op \in Strips /\ row[a].event # NoEvent THEN "strip" ELSE "commit"
           w == [at |-> at, apt |-> a, op |-> op, seen |-> row[a], new |-> new,
                 event |-> NoEvent]
<1>1. /\ w \in Working
      /\ w.at \in {"strip", "commit"} /\ w.apt = a /\ w.seen = row[a]
      /\ w.new = new /\ w.event = NoEvent /\ w.op = op
      /\ w.at = "strip" <=> op \in Strips /\ row[a].event # NoEvent
  BY DEF TypeOK, Working
<1>2. session' = [session EXCEPT ![s] = w] /\ UNCHANGED <<row, live, edited, hurt>>
  BY DEF Begin
<1> HIDE DEF w
<1> QED  BY <1>1, <1>2, OneMoves

LEMMA StripEffect ==
  ASSUME TypeOK, NEW s \in Sessions, Strip(s)
  PROVE  /\ Others(s) /\ Busy(s)
         /\ session[s].at = "strip" /\ session'[s].at = "stripped"
         /\ session'[s].apt = session[s].apt
         /\ session'[s].seen = session[s].seen /\ session'[s].event = session[s].event
         /\ session'[s].op = session[s].op
         /\ session'[s].new.table = session[s].new.table
         /\ \/ /\ session'[s].new.event = NoEvent
               /\ session'[s].new = [session[s].new EXCEPT !.event = NoEvent]
               /\ live' = [live EXCEPT ![session[s].apt] = @ \ {session[s].seen.event}]
               /\ session[s].seen.event \in live[session[s].apt]
            \/ session'[s].new = session[s].new /\ live' = live
         /\ UNCHANGED <<row, edited, hurt>>
<1>1. Busy(s) /\ session[s].at = "strip" /\ UNCHANGED <<row, edited, hurt>>
  BY DEF Strip, Busy, At
<1>2. session[s] \in Working /\ session[s].new \in Row
  BY <1>1, BusyType
<1>3. CASE Goto(s, "stripped") /\ UNCHANGED live
  BY <1>1, <1>3, GotoEffect
<1>4. CASE /\ session[s].seen.event \in live[session[s].apt]
           /\ live' = [live EXCEPT ![session[s].apt] = @ \ {session[s].seen.event}]
           /\ session' = [session EXCEPT ![s].at = "stripped",
                                         ![s].new = [@ EXCEPT !.event = NoEvent]]
  <2> DEFINE new == [session[s].new EXCEPT !.event = NoEvent]
             w == [session[s] EXCEPT !.at = "stripped", !.new = new]
  <2>1. new \in Row /\ new.event = NoEvent /\ new.table = session[s].new.table
    BY <1>2 DEF Row, NoEvent
  <2>2. session' = [session EXCEPT ![s] = w]
    BY <1>4
  <2> HIDE DEF new
  <2>3. /\ w \in Working
        /\ w.at = "stripped" /\ w.apt = session[s].apt /\ w.seen = session[s].seen
        /\ w.new = new /\ w.event = session[s].event /\ w.op = session[s].op
    BY <1>2, <2>1 DEF Working
  <2> HIDE DEF w
  <2>4. Others(s) /\ session'[s] = w
    BY <2>2, <2>3, OneMoves
  <2>5. session'[s].new = [session[s].new EXCEPT !.event = NoEvent]
    BY <2>3, <2>4 DEF new
  <2> QED  BY <1>1, <1>4, <2>1, <2>3, <2>4, <2>5
<1> QED  BY <1>3, <1>4 DEF Strip

LEMMA CreateEffect ==
  ASSUME TypeOK, NEW s \in Sessions, At(s, "sync"), NEW e \in Event,
         session' = [session EXCEPT ![s].at = "store", ![s].event = e]
  PROVE  /\ Others(s)
         /\ session'[s].at = "store" /\ session'[s].apt = session[s].apt
         /\ session'[s].seen = session[s].seen /\ session'[s].new = session[s].new
         /\ session'[s].event = e
<1> DEFINE w == [session[s] EXCEPT !.at = "store", !.event = e]
<1>1. session[s] \in Working
  BY BusyType DEF Busy, At
<1>2. /\ w \in Working
      /\ w.at = "store" /\ w.apt = session[s].apt /\ w.seen = session[s].seen
      /\ w.new = session[s].new /\ w.event = e
  BY <1>1 DEF Working
<1>3. session' = [session EXCEPT ![s] = w]
  OBVIOUS
<1> HIDE DEF w
<1> QED  BY <1>2, <1>3, OneMoves

LEMMA CommitEffect ==
  ASSUME TypeOK, NEW s \in Sessions, Commit(s)
  PROVE  /\ Others(s) /\ Busy(s)
         /\ session[s].at \in {"commit", "stripped"}
         /\ \/ session'[s] = Idle
            \/ /\ session'[s].at = "reload"
               /\ session'[s].seen.event = NoEvent /\ session'[s].new.event = NoEvent
               /\ session'[s].apt = session[s].apt /\ session'[s].event = session[s].event
         /\ UNCHANGED <<live, hurt>>
<1>1. /\ Busy(s) /\ session[s].at \in {"commit", "stripped"}
      /\ UNCHANGED <<live, hurt>>
  BY DEF Commit, Busy
<1>2. session[s] \in Working /\ NoRow \in Row /\ NoRow.event = NoEvent
  BY <1>1, BusyType, NoRowType DEF NoRow
<1>3. CASE End(s)
  BY <1>1, <1>3, EndEffect
<1>4. CASE session' = [session EXCEPT ![s].at = "reload", ![s].seen = NoRow, ![s].new = NoRow]
  <2> DEFINE w == [session[s] EXCEPT !.at = "reload", !.seen = NoRow, !.new = NoRow]
  <2>1. /\ w \in Working
        /\ w.at = "reload" /\ w.seen = NoRow /\ w.new = NoRow
        /\ w.apt = session[s].apt /\ w.event = session[s].event
    BY <1>2 DEF Working
  <2>2. session' = [session EXCEPT ![s] = w]
    BY <1>4
  <2> HIDE DEF w
  <2> QED  BY <1>1, <1>2, <2>1, <2>2, OneMoves
<1> QED  BY <1>3, <1>4 DEF Commit

\* Whose row it writes, and what event id it leaves there.
LEMMA CommitWrites ==
  ASSUME TypeOK, NEW s \in Sessions, Commit(s),
         \A a \in Appointments : ~Present(a) => row[a].event = NoEvent,
         session[s].new.event # session[s].seen.event => session[s].new.event = NoEvent,
         session[s].new.table # "absent"
  PROVE  LET a == session[s].apt IN
         /\ a \in Appointments
         /\ row' \in [Appointments -> Row] /\ edited' \subseteq Appointments
         /\ \A b \in Appointments \ {a} : row'[b] = row[b]
         /\ row'[a].event \in {row[a].event, NoEvent}
         /\ session[s].new.event # session[s].seen.event => row'[a].event = NoEvent
         /\ row'[a].table # "present" => row'[a].event = NoEvent
<1> DEFINE a == session[s].apt
           after == Flush(row[a], session[s].seen, session[s].new)
           written == IF after.table = "removed" THEN Gone ELSE after
<1>1. Busy(s)
  BY DEF Commit, Busy
<1>2. /\ a \in Appointments /\ row[a] \in Row
      /\ session[s].seen \in Row /\ session[s].new \in Row
  BY <1>1, BusyType DEF TypeOK
<1>3. edited' \subseteq Appointments
  BY <1>2 DEF Commit, TypeOK
<1>4. CASE row[a].table = "removed" /\ row' = row
  BY <1>2, <1>3, <1>4 DEF Present, TypeOK
<1>5. CASE row[a].table # "removed" /\ row' = [row EXCEPT ![a] = written]
  <2>1. /\ after \in Row
        /\ after.event = Pick(row[a].event, session[s].seen.event, session[s].new.event)
        /\ after.table = Pick(row[a].table, session[s].seen.table, session[s].new.table)
    BY <1>2, FlushType
  <2>2. Gone.event = NoEvent /\ Gone \in Row
    BY NoRowType DEF Gone, NoRow
  <2> HIDE DEF after
  <2>3. written \in Row
    BY <2>1, <2>2
  <2>4. /\ written.event \in {row[a].event, NoEvent}
        /\ session[s].new.event # session[s].seen.event => written.event = NoEvent
    BY <2>1, <2>2 DEF Pick
  <2>5. written.table # "present" => written.event = NoEvent
    <3>1. CASE after.table = "removed"
      BY <2>2, <3>1
    <3>2. CASE after.table = "absent"
      BY <1>2, <2>1, <3>2 DEF Pick, Present
    <3> QED  BY <2>1, <3>1, <3>2 DEF Row
  <2> HIDE DEF written
  <2>6. /\ row'[a] = written /\ row' \in [Appointments -> Row]
        /\ \A b \in Appointments \ {a} : row'[b] = row[b]
    BY <1>2, <1>5, <2>3 DEF TypeOK
  <2> HIDE DEF a
  <2> QED  BY <1>2, <1>3, <2>4, <2>5, <2>6 DEF a
<1> QED  BY <1>4, <1>5 DEF Commit, End

-----------------------------------------------------------------------------
(***************************************************************************)
(* The inductive invariant.  A request that awaits Google remembers ids,   *)
(* so it says what each of them knows: who may be about to lose an event,  *)
(* and that the id of a new event, live and not yet stored, is known to    *)
(* nobody else (who could have it deleted).                                *)
(***************************************************************************)
OnlyPresentHave == \A a \in Appointments : ~Present(a) => row[a].event = NoEvent

Decided(s) == session[s].at \in {"commit", "strip", "stripped"}
Losing(s) == session[s].new.event # session[s].seen.event
Storing(s) == session[s].at = "store"

RequestsKnow ==
  \A s \in Sessions : Busy(s) =>
    /\ Decided(s) => session[s].event = NoEvent /\ session[s].new.table # "absent"
    /\ Losing(s) => session[s].new.event = NoEvent /\ session[s].at = "stripped"
    /\ Storing(s) => /\ session[s].event \in live[session[s].apt]
                     /\ session[s].event # NoEvent
                     /\ session[s].event # row[session[s].apt].event

NewEventsUnknown ==
  \A s, t \in Sessions :
    /\ s # t /\ Busy(s) /\ Busy(t) /\ session[s].apt = session[t].apt /\ Storing(s)
    => session[s].event \notin {session[t].seen.event, session[t].event}

IInv == /\ TypeOK
        /\ StoredEventLives
        /\ OnlyPresentHave
        /\ RequestsKnow
        /\ NewEventsUnknown

LEMMA StrippingIs ==
  ASSUME NEW a
  PROVE  Stripping(a) <=> \E s \in Sessions : /\ Busy(s) /\ session[s].apt = a
                                             /\ session[s].at = "stripped" /\ Losing(s)
BY DEF Stripping, WorkingOn, At, Losing

\* The id Google gives a new event is nobody's.
LEMMA FreshIs ==
  ASSUME NEW a, NEW e \in FreshEvents(a)
  PROVE  /\ e \in Event /\ e \notin live[a] /\ e # row[a].event /\ e # NoEvent
         /\ \A s \in Sessions : Busy(s) /\ session[s].apt = a =>
              e \notin {session[s].seen.event, session[s].event}
BY AppointmentsAssumption DEF FreshEvents, WorkingOn, Event, NoEvent

-----------------------------------------------------------------------------
(* Each step preserves it *)

LEMMA InitIInv == Init => IInv
BY NoRowType DEF Init, IInv, TypeOK, StoredEventLives, OnlyPresentHave, RequestsKnow,
   NewEventsUnknown, Present, Busy, Idle, NoRow, NoEvent

LEMMA RequestKeeps ==
  ASSUME IInv, NEW s \in Sessions, NEW a \in Appointments, Request(s, a)
  PROVE  IInv'
<1>1. PICK op \in Operation, new \in Row :
        Begin(s, a, op, new) /\ new.event = row[a].event /\ new.table # "absent"
  BY RequestBegins DEF IInv, OnlyPresentHave
<1>2. /\ Others(s)
      /\ session'[s].at \in {"strip", "commit"} /\ session'[s].apt = a
      /\ session'[s].seen = row[a] /\ session'[s].new = new
      /\ session'[s].event = NoEvent
      /\ row' = row /\ live' = live /\ edited' = edited /\ hurt' = hurt
  BY <1>1, BeginEffect DEF IInv
<1>3. ~Busy(s)
  BY <1>1 DEF Begin
<1>4. TypeOK'
  BY <1>2 DEF IInv, TypeOK, Others
<1>5. OnlyPresentHave'
  BY <1>2 DEF IInv, OnlyPresentHave, Present
<1>6. RequestsKnow'
  BY <1>1, <1>2 DEF IInv, RequestsKnow, Decided, Losing, Storing, Busy, Others
<1>7. NewEventsUnknown'
  BY <1>2 DEF IInv, NewEventsUnknown, RequestsKnow, Storing, Busy, Others
<1>8. StoredEventLives'
  <2>1. ASSUME NEW b \in Appointments, Stripping(b) PROVE Stripping(b)'
    BY <1>2, <1>3, <2>1, StrippingIs DEF Stripping, WorkingOn, At, Busy, Others
  <2> QED  BY <1>2, <2>1 DEF IInv, StoredEventLives, Present
<1> QED  BY <1>4, <1>5, <1>6, <1>7, <1>8 DEF IInv

LEMMA StripKeeps ==
  ASSUME IInv, NEW s \in Sessions, Strip(s)
  PROVE  IInv'
<1> DEFINE a == session[s].apt
           id == session[s].seen.event
<1>1. /\ Others(s) /\ Busy(s)
      /\ session[s].at = "strip" /\ session'[s].at = "stripped"
      /\ session'[s].apt = a
      /\ session'[s].seen = session[s].seen /\ session'[s].event = session[s].event
      /\ session'[s].new.table = session[s].new.table
      /\ \/ /\ session'[s].new.event = NoEvent
            /\ live' = [live EXCEPT ![a] = @ \ {id}] /\ id \in live[a]
         \/ session'[s].new = session[s].new /\ live' = live
      /\ row' = row /\ edited' = edited /\ hurt' = hurt
  BY StripEffect DEF IInv
<1>2. /\ a \in Appointments /\ row \in [Appointments -> Row]
      /\ live \in [Appointments -> SUBSET Event]
  BY <1>1, BusyType DEF IInv, TypeOK
<1> HIDE DEF a, id
<1>3. TypeOK'
  BY <1>1, <1>2 DEF IInv, TypeOK, Others
<1>4. OnlyPresentHave'
  BY <1>1 DEF IInv, OnlyPresentHave, Present
<1>5. RequestsKnow'
  <2>1. ASSUME NEW t \in Sessions \ {s}, Busy(t), Storing(t)
        PROVE  session[t].event \in live'[session[t].apt]
    BY <1>1, <1>2, <2>1, BusyType
       DEF a, id, IInv, RequestsKnow, NewEventsUnknown, Storing
  <2>2. /\ Decided(s) /\ ~Losing(s)
    BY <1>1 DEF IInv, RequestsKnow, Decided
  <2>3. /\ session'[s].event = NoEvent /\ session'[s].new.table # "absent"
        /\ ~Storing(s)' /\ (Losing(s)' => session'[s].new.event = NoEvent)
    BY <1>1, <2>2 DEF IInv, RequestsKnow, Losing, Storing
  <2>4. ASSUME NEW t \in Sessions \ {s}, Busy(t)
        PROVE  /\ Decided(t) => session[t].event = NoEvent /\ session[t].new.table # "absent"
               /\ Losing(t) => session[t].new.event = NoEvent /\ session[t].at = "stripped"
               /\ Storing(t) => /\ session[t].event # NoEvent
                                /\ session[t].event # row[session[t].apt].event
    BY <2>4 DEF IInv, RequestsKnow
  <2> QED
    BY <1>1, <2>1, <2>3, <2>4 DEF RequestsKnow, Decided, Losing, Storing, Busy, Others
<1>6. NewEventsUnknown'
  BY <1>1 DEF a, IInv, NewEventsUnknown, Storing, Busy, Others
<1>7. StoredEventLives'
  <2>1. ASSUME NEW b \in Appointments, Stripping(b) PROVE Stripping(b)'
    BY <1>1, <2>1, StrippingIs DEF Stripping, WorkingOn, At, Busy, Others
  <2>2. ASSUME NEW b, b = a, id # session'[s].new.event PROVE Stripping(b)'
    BY <1>1, <2>2 DEF a, id, Stripping, WorkingOn, At, Busy
  <2>3. ASSUME NEW b \in Appointments, row[b].event # NoEvent, row[b].event \in live[b],
               row[b].event \notin live'[b]
        PROVE  Stripping(b)'
    BY <1>1, <1>2, <2>2, <2>3
  <2> QED  BY <1>1, <2>1, <2>3 DEF IInv, StoredEventLives, Present
<1> QED  BY <1>3, <1>4, <1>5, <1>6, <1>7 DEF IInv

LEMMA CommitKeeps ==
  ASSUME IInv, NEW s \in Sessions, Commit(s)
  PROVE  IInv'
<1> DEFINE a == session[s].apt
<1>1. /\ Others(s) /\ Busy(s) /\ Decided(s) /\ ~Storing(s)
      /\ \/ session'[s] = Idle
         \/ /\ session'[s].at = "reload"
            /\ session'[s].seen.event = NoEvent /\ session'[s].new.event = NoEvent
            /\ session'[s].apt = a /\ session'[s].event = session[s].event
      /\ live' = live /\ hurt' = hurt
  BY CommitEffect DEF IInv, Decided, Storing
<1>2. /\ session[s].event = NoEvent /\ session[s].new.table # "absent"
      /\ Losing(s) => session[s].new.event = NoEvent
  BY <1>1 DEF IInv, RequestsKnow
<1>3. /\ a \in Appointments
      /\ row' \in [Appointments -> Row] /\ edited' \subseteq Appointments
      /\ \A b \in Appointments \ {a} : row'[b] = row[b]
      /\ row'[a].event \in {row[a].event, NoEvent}
      /\ Losing(s) => row'[a].event = NoEvent
      /\ row'[a].table # "present" => row'[a].event = NoEvent
  BY <1>2, CommitWrites DEF IInv, OnlyPresentHave, Losing
<1> HIDE DEF a
<1>4. TypeOK'
  BY <1>1, <1>3 DEF IInv, TypeOK, Others
<1>5. OnlyPresentHave'
  BY <1>3 DEF IInv, OnlyPresentHave, Present
<1>6. \A b \in Appointments : row'[b].event \in {row[b].event, NoEvent}
  BY <1>3
<1>7. RequestsKnow'
  <2>1. ASSUME NEW t \in Sessions \ {s}, Busy(t)
        PROVE  /\ Decided(t) => session[t].event = NoEvent /\ session[t].new.table # "absent"
               /\ Losing(t) => session[t].new.event = NoEvent /\ session[t].at = "stripped"
               /\ Storing(t) => /\ session[t].event \in live[session[t].apt]
                                /\ session[t].event # NoEvent
                                /\ session[t].event # row'[session[t].apt].event
    BY <1>6, <2>1, BusyType DEF IInv, RequestsKnow
  <2> QED
    BY <1>1, <2>1 DEF RequestsKnow, Decided, Losing, Storing, Busy, Others, Idle
<1>8. NewEventsUnknown'
  <2>1. ASSUME NEW t \in Sessions \ {s}, Busy(t), Storing(t)
        PROVE  session[t].event # NoEvent
    BY <2>1 DEF IInv, RequestsKnow
  <2> QED
    BY <1>1, <1>2, <2>1 DEF IInv, NewEventsUnknown, Storing, Busy, Others, Idle
<1>9. StoredEventLives'
  <2>1. ASSUME NEW b \in Appointments, Stripping(b), b # a \/ ~Losing(s)
        PROVE  Stripping(b)'
    BY <1>1, <2>1, StrippingIs DEF a, Stripping, WorkingOn, At, Busy, Losing, Others
  <2>2. ASSUME NEW b \in Appointments, row'[b].event # NoEvent
        PROVE  /\ row[b].event = row'[b].event /\ Present(b)
               /\ b # a \/ ~Losing(s)
    BY <1>3, <1>6, <2>2 DEF IInv, OnlyPresentHave
  <2> QED  BY <1>1, <2>1, <2>2 DEF IInv, StoredEventLives
<1> QED  BY <1>4, <1>5, <1>7, <1>8, <1>9 DEF IInv

\* A request that ends, with the event it lost, if any, on record.
LEMMA EndKeeps ==
  ASSUME IInv, NEW s \in Sessions, Busy(s), End(s), UNCHANGED <<row, live, edited>>,
         hurt' \subseteq Appointments, hurt \subseteq hurt',
         Losing(s) => session[s].apt \in hurt'
  PROVE  IInv'
<1>1. /\ Others(s) /\ session'[s] = Idle
      /\ row' = row /\ live' = live /\ edited' = edited
  BY EndEffect DEF IInv
<1>2. TypeOK'
  BY <1>1 DEF IInv, TypeOK, Others
<1>3. OnlyPresentHave'
  BY <1>1 DEF IInv, OnlyPresentHave, Present
<1>4. RequestsKnow'
  BY <1>1 DEF IInv, RequestsKnow, Decided, Losing, Storing, Busy, Others, Idle
<1>5. NewEventsUnknown'
  BY <1>1 DEF IInv, NewEventsUnknown, Storing, Busy, Others, Idle
<1>6. StoredEventLives'
  <2>1. ASSUME NEW b \in Appointments, Stripping(b), b \notin hurt' PROVE Stripping(b)'
    BY <1>1, <2>1, StrippingIs DEF Stripping, WorkingOn, At, Busy, Losing, Others
  <2> QED  BY <1>1, <2>1 DEF IInv, StoredEventLives, Present
<1> QED  BY <1>2, <1>3, <1>4, <1>5, <1>6 DEF IInv

LEMMA ReloadKeeps ==
  ASSUME IInv, NEW s \in Sessions, Reload(s)
  PROVE  IInv'
<1>1. Busy(s) /\ session[s].at = "reload" /\ UNCHANGED <<row, live, edited, hurt>>
  BY DEF Reload, At, Busy
<1>2. ~Losing(s)
  BY <1>1 DEF IInv, RequestsKnow
<1>3. CASE End(s)
  BY <1>1, <1>2, <1>3, EndKeeps DEF IInv, TypeOK
<1>4. CASE Goto(s, "sync")
  <2>1. /\ Others(s)
        /\ session'[s].at = "sync" /\ session'[s].apt = session[s].apt
        /\ session'[s].seen = session[s].seen /\ session'[s].new = session[s].new
        /\ session'[s].event = session[s].event
        /\ row' = row /\ live' = live /\ edited' = edited /\ hurt' = hurt
    BY <1>1, <1>4, GotoEffect DEF IInv
  <2>2. TypeOK'
    BY <2>1 DEF IInv, TypeOK, Others
  <2>3. OnlyPresentHave'
    BY <2>1 DEF IInv, OnlyPresentHave, Present
  <2>4. RequestsKnow'
    BY <1>2, <2>1 DEF IInv, RequestsKnow, Decided, Losing, Storing, Busy, Others
  <2>5. NewEventsUnknown'
    BY <1>1, <2>1 DEF IInv, NewEventsUnknown, Storing, Busy, Others
  <2>6. StoredEventLives'
    <3>1. ASSUME NEW b \in Appointments, Stripping(b) PROVE Stripping(b)'
      BY <1>1, <2>1, <3>1, StrippingIs DEF Stripping, WorkingOn, At, Busy, Losing, Others
    <3> QED  BY <2>1, <3>1 DEF IInv, StoredEventLives, Present
  <2> QED  BY <2>2, <2>3, <2>4, <2>5, <2>6 DEF IInv
<1> QED  BY <1>3, <1>4 DEF Reload

LEMMA CreateEventKeeps ==
  ASSUME IInv, NEW s \in Sessions, CreateEvent(s)
  PROVE  IInv'
<1> DEFINE a == session[s].apt
<1>1. /\ Busy(s) /\ At(s, "sync") /\ session[s].at = "sync"
      /\ UNCHANGED <<row, edited, hurt>>
  BY DEF CreateEvent, At, Busy
<1>2. ~Losing(s)
  BY <1>1 DEF IInv, RequestsKnow
<1>3. CASE End(s) /\ UNCHANGED live
  BY <1>1, <1>2, <1>3, EndKeeps DEF IInv, TypeOK
<1>4. ASSUME NEW e \in FreshEvents(a),
             live' = [live EXCEPT ![a] = @ \cup {e}],
             session' = [session EXCEPT ![s].at = "store", ![s].event = e]
      PROVE  IInv'
  <2>1. /\ e \in Event /\ e \notin live[a] /\ e # row[a].event /\ e # NoEvent
        /\ \A t \in Sessions : Busy(t) /\ session[t].apt = a =>
             e \notin {session[t].seen.event, session[t].event}
    BY FreshIs
  <2>2. /\ Others(s)
        /\ session'[s].at = "store" /\ session'[s].apt = a
        /\ session'[s].seen = session[s].seen /\ session'[s].new = session[s].new
        /\ session'[s].event = e
        /\ row' = row /\ edited' = edited /\ hurt' = hurt
    BY <1>1, <1>4, <2>1, CreateEffect DEF IInv
  <2>3. a \in Appointments /\ live \in [Appointments -> SUBSET Event]
    BY <1>1, BusyType DEF IInv, TypeOK
  <2>4. /\ live' \in [Appointments -> SUBSET Event]
        /\ e \in live'[a] /\ \A b \in Appointments : live[b] \subseteq live'[b]
    BY <1>4, <2>1, <2>3
  <2>5. TypeOK'
    BY <2>2, <2>4 DEF IInv, TypeOK, Others
  <2>6. OnlyPresentHave'
    BY <2>2 DEF IInv, OnlyPresentHave, Present
  <2>7. RequestsKnow'
    <3>1. ASSUME NEW t \in Sessions \ {s}, Busy(t)
          PROVE  /\ Decided(t) => session[t].event = NoEvent /\ session[t].new.table # "absent"
                 /\ Losing(t) => session[t].new.event = NoEvent /\ session[t].at = "stripped"
                 /\ Storing(t) => /\ session[t].event \in live'[session[t].apt]
                                  /\ session[t].event # NoEvent
                                  /\ session[t].event # row[session[t].apt].event
      BY <2>4, <3>1, BusyType DEF IInv, RequestsKnow
    <3> HIDE DEF a
    <3> QED
      BY <1>2, <2>1, <2>2, <2>4, <3>1
         DEF RequestsKnow, Decided, Losing, Storing, Busy, Others
  <2>8. NewEventsUnknown'
    <3>1. ASSUME NEW t \in Sessions \ {s}, Busy(t), session[t].apt = a, Storing(t)
          PROVE  session[t].event \notin {session[s].seen.event, e}
      BY <1>1, <2>1, <3>1 DEF IInv, NewEventsUnknown
    <3> HIDE DEF a
    <3> QED
      BY <2>1, <2>2, <3>1 DEF IInv, NewEventsUnknown, Storing, Busy, Others
  <2>9. StoredEventLives'
    <3>1. ASSUME NEW b \in Appointments, Stripping(b) PROVE Stripping(b)'
      BY <1>1, <2>2, <3>1, StrippingIs DEF Stripping, WorkingOn, At, Busy, Losing, Others
    <3> QED  BY <2>2, <2>4, <3>1 DEF IInv, StoredEventLives, Present
  <2> QED  BY <2>5, <2>6, <2>7, <2>8, <2>9 DEF IInv
<1> QED  BY <1>3, <1>4 DEF CreateEvent

LEMMA StoreEventKeeps ==
  ASSUME IInv, NEW s \in Sessions, StoreEvent(s)
  PROVE  IInv'
<1> DEFINE a == session[s].apt
           id == session[s].event
<1>1. /\ Busy(s) /\ Storing(s)
      /\ row' = IF Present(a) THEN [row EXCEPT ![a].event = id] ELSE row
      /\ live' = live /\ edited' = edited /\ hurt' = hurt
  BY DEF StoreEvent, At, Busy, Storing
<1>2. Others(s) /\ session'[s] = Idle
  BY EndEffect DEF IInv, StoreEvent
<1>3. /\ a \in Appointments /\ row[a] \in Row /\ id \in Event \cup {NoEvent}
      /\ id \in live[a] /\ id # NoEvent
      /\ ~Losing(s)
  BY <1>1, BusyType DEF IInv, TypeOK, RequestsKnow, Storing
<1> HIDE DEF a, id
<1>4. /\ row' \in [Appointments -> Row]
      /\ \A b \in Appointments :
           /\ row'[b].table = row[b].table
           /\ row'[b].event = IF b = a /\ Present(a) THEN id ELSE row[b].event
  <2>1. CASE ~Present(a)
    BY <1>1, <2>1 DEF IInv, TypeOK
  <2>2. CASE Present(a)
    <3> DEFINE new == [row[a] EXCEPT !.event = id]
    <3>1. new \in Row /\ new.table = row[a].table /\ new.event = id
      BY <1>3 DEF Row
    <3>2. row' = [row EXCEPT ![a] = new]
      BY <1>1, <2>2
    <3> HIDE DEF new
    <3> QED  BY <1>3, <2>2, <3>1, <3>2 DEF IInv, TypeOK
  <2> QED  BY <2>1, <2>2
<1>5. TypeOK'
  BY <1>1, <1>2, <1>4 DEF IInv, TypeOK, Others
<1>6. OnlyPresentHave'
  BY <1>4 DEF IInv, OnlyPresentHave, Present
<1>7. RequestsKnow'
  <2>1. ASSUME NEW t \in Sessions \ {s}, Busy(t)
        PROVE  /\ Decided(t) => session[t].event = NoEvent /\ session[t].new.table # "absent"
               /\ Losing(t) => session[t].new.event = NoEvent /\ session[t].at = "stripped"
               /\ Storing(t) => /\ session[t].event \in live[session[t].apt]
                                /\ session[t].event # NoEvent
                                /\ session[t].event # row[session[t].apt].event
    BY <2>1 DEF IInv, RequestsKnow
  <2>2. ASSUME NEW t \in Sessions \ {s}, Busy(t), session[t].apt = a, Storing(t)
        PROVE  session[t].event # id
    BY <1>1, <2>2 DEF a, id, IInv, NewEventsUnknown
  <2>3. ASSUME NEW t \in Sessions \ {s}, Busy(t), Storing(t)
        PROVE  session[t].event # row'[session[t].apt].event
    BY <1>4, <2>1, <2>2, <2>3, BusyType DEF IInv
  <2> QED
    BY <1>1, <1>2, <2>1, <2>3 DEF RequestsKnow, Decided, Losing, Storing, Busy, Others, Idle
<1>8. NewEventsUnknown'
  BY <1>2 DEF IInv, NewEventsUnknown, Storing, Busy, Others, Idle
<1>9. StoredEventLives'
  <2>1. ASSUME NEW b \in Appointments, Stripping(b) PROVE Stripping(b)'
    BY <1>2, <1>3, <2>1, StrippingIs DEF Stripping, WorkingOn, At, Busy, Losing, Others
  <2> QED  BY <1>1, <1>3, <1>4, <2>1 DEF IInv, StoredEventLives, Present
<1> QED  BY <1>5, <1>6, <1>7, <1>8, <1>9 DEF IInv

LEMMA DieKeeps ==
  ASSUME IInv, NEW s \in Sessions, Die(s)
  PROVE  IInv'
<1>1. Busy(s) /\ End(s) /\ UNCHANGED <<row, live, edited>>
  BY DEF Die
<1>2. session[s].apt \in Appointments /\ hurt \subseteq Appointments
  BY <1>1, BusyType DEF IInv, TypeOK
<1>3. Losing(s) => session[s].at = "stripped"
  BY <1>1 DEF IInv, RequestsKnow
<1>4. /\ hurt' \subseteq Appointments /\ hurt \subseteq hurt'
      /\ Losing(s) => session[s].apt \in hurt'
  BY <1>2, <1>3 DEF Die, At, Losing
<1> QED  BY <1>1, <1>4, EndKeeps

LEMMA NextKeeps == IInv /\ [Next]_vars => IInv'
<1> SUFFICES ASSUME IInv, [Next]_vars PROVE IInv'
  OBVIOUS
<1>1. CASE UNCHANGED vars
  BY <1>1 DEF vars, IInv, TypeOK, StoredEventLives, OnlyPresentHave, RequestsKnow,
     NewEventsUnknown, Present, Busy, Decided, Losing, Storing, Stripping, WorkingOn, At
<1>2. CASE Next
  BY <1>2, RequestKeeps, StripKeeps, CommitKeeps, ReloadKeeps, CreateEventKeeps,
     StoreEventKeeps, DieKeeps DEF Next, Proceed
<1> QED  BY <1>1, <1>2

-----------------------------------------------------------------------------
(***************************************************************************)
(* Rows, events and requests keep their types in every reachable state.    *)
(***************************************************************************)
THEOREM TypeCorrect == Spec => []TypeOK
<1>1. IInv => TypeOK
  BY DEF IInv
<1> QED  BY InitIInv, NextKeeps, <1>1, PTL DEF Spec

(***************************************************************************)
(* The event id in a row is that of an event in the calendar, unless a     *)
(* request is between Google's deletion and its commit, or died there:     *)
(* however many requests strip, sync and commit at the same time, and      *)
(* whatever Google answers.                                                *)
(***************************************************************************)
THEOREM StoredEventAlwaysLives == Spec => []StoredEventLives
<1>1. IInv => StoredEventLives
  BY DEF IInv
<1> QED  BY InitIInv, NextKeeps, <1>1, PTL DEF Spec

-----------------------------------------------------------------------------
(***************************************************************************)
(* One request after the other.  Held(a) is what the calendar holds for an *)
(* appointment that no request is at work on.  A request that is alone has *)
(* read the rows as they still are, so it says, by where it is, how far    *)
(* calendar and row of its appointment are apart.                          *)
(***************************************************************************)
Held(a) == IF Present(a) THEN {row[a].event} \ {NoEvent} ELSE {}

Mirrors(a) ==
  /\ live[a] = Held(a)
  /\ row[a].archived => live[a] = {}
  /\ Current(a) /\ row[a].status = "confirmed" => live[a] # {}

Alone(s) == \A t \in Sessions : t # s => ~Busy(t)

Own(s) ==
  LET a == session[s].apt
      w == session[s]
  IN
  /\ \A b \in Appointments \ {a} : Mirrors(b)
  /\ Decided(s) => w.seen = row[a] /\ Sound(a, w.op, w.new)
  /\ w.at = "commit" =>
       Mirrors(a) /\ w.new.event = row[a].event /\ (w.op \in Strips => row[a].event = NoEvent)
  /\ w.at = "strip" => Mirrors(a) /\ w.op \in Strips /\ row[a].event # NoEvent
  /\ w.at = "stripped" => live[a] = {} /\ w.new.event = NoEvent /\ w.op \in Strips
  /\ w.at \in {"reload", "sync", "store"} => Current(a)
  /\ w.at = "reload" => live[a] = Held(a)
  /\ w.at \in {"sync", "store"} => row[a].event = NoEvent
  /\ w.at = "sync" => live[a] = {}
  /\ w.at = "store" => live[a] = {w.event}

Quiet ==
  /\ RowsInOrder
  /\ AtRest => \A a \in Appointments : Mirrors(a)
  /\ \A s \in Sessions : Alone(s) /\ Busy(s) => Own(s)

CalmInv == IInv /\ (calm => Quiet)

\* What a step of the only request must leave for the next one.
LEMMA QuietFrom ==
  ASSUME NEW s \in Sessions, Alone(s)', RowsInOrder',
         Busy(s)' => Own(s)', ~Busy(s)' => \A a \in Appointments : Mirrors(a)'
  PROVE  Quiet'
BY DEF Quiet, Alone, AtRest

LEMMA StaysAlone ==
  ASSUME TypeOK, NEW s \in Sessions, Alone(s), Others(s)
  PROVE  Alone(s)'
BY DEF Alone, Others, Busy

\* Rows that stay as they are stay in order.
LEMMA RowsUnchanged ==
  ASSUME row' = row, edited' = edited
  PROVE  /\ RowsInOrder => RowsInOrder'
         /\ \A a \in Appointments : Present(a)' = Present(a) /\ Current(a)' = Current(a)
         /\ \A a \in Appointments : Held(a)' = Held(a)
         /\ \A a \in Appointments, op \in Operation, new \in Row :
              Sound(a, op, new) => Sound(a, op, new)'
BY DEF RowsInOrder, BookedOnce, ProposalsStand, NoneDecided, Blocking, Current, Present, Held,
   Sound, Fits, Unedited

\* Soundness is not about the event.
LEMMA SoundWithoutEvent ==
  ASSUME NEW a, NEW op, NEW new \in Row, Sound(a, op, new)
  PROVE  Sound(a, op, [new EXCEPT !.event = NoEvent])
BY DEF Sound, Fits, TakesTime, Unedited, EditsRow, Row

LEMMA RequestQuiet ==
  ASSUME IInv, Quiet, NEW s \in Sessions, NEW a \in Appointments, Request(s, a), Alone(s)
  PROVE  Quiet'
<1>1. PICK op \in Operation, new \in Row :
        /\ Begin(s, a, op, new)
        /\ new.event = row[a].event /\ new.table # "absent"
        /\ RowsInOrder => Sound(a, op, new)
  BY RequestBegins DEF IInv, OnlyPresentHave
<1>2. /\ Others(s)
      /\ session'[s].at \in {"strip", "commit"} /\ session'[s].apt = a
      /\ session'[s].seen = row[a] /\ session'[s].new = new /\ session'[s].op = op
      /\ session'[s].at = "strip" <=> op \in Strips /\ row[a].event # NoEvent
      /\ row' = row /\ live' = live /\ edited' = edited
  BY <1>1, BeginEffect DEF IInv
<1>3. AtRest /\ Busy(s)'
  BY <1>1, <1>2 DEF Begin, Alone, AtRest, Busy
<1>4. \A b \in Appointments : Mirrors(b)'
  BY <1>2, <1>3, RowsUnchanged DEF Quiet, Mirrors
<1>5. RowsInOrder' /\ Sound(a, op, new)'
  BY <1>1, <1>2, RowsUnchanged DEF Quiet
<1>6. Own(s)'
  BY <1>1, <1>2, <1>4, <1>5 DEF Own, Decided
<1>7. Alone(s)'
  BY <1>2, StaysAlone DEF IInv
<1> QED  BY <1>3, <1>5, <1>6, <1>7, QuietFrom

LEMMA StripQuiet ==
  ASSUME IInv, RowsInOrder, NEW s \in Sessions, Strip(s), Alone(s), Own(s), live' # live
  PROVE  Quiet'
<1>1. /\ Others(s) /\ Busy(s)
      /\ session[s].at = "strip" /\ session'[s].at = "stripped"
      /\ session'[s].apt = session[s].apt /\ session'[s].seen = session[s].seen
      /\ session'[s].op = session[s].op
      /\ session'[s].new.event = NoEvent
      /\ session'[s].new = [session[s].new EXCEPT !.event = NoEvent]
      /\ live' = [live EXCEPT ![session[s].apt] = @ \ {session[s].seen.event}]
      /\ row' = row /\ edited' = edited
  BY StripEffect DEF IInv
<1>2. PICK a \in Appointments, op \in Operation, old \in Row :
        a = session[s].apt /\ op = session[s].op /\ old = session[s].new
  BY <1>1, BusyType DEF IInv, Working
<1>3. PICK new \in Row :
        /\ new = session'[s].new /\ new.event = NoEvent
        /\ new = [old EXCEPT !.event = NoEvent]
  <2>1. [old EXCEPT !.event = NoEvent] \in Row
    BY <1>2 DEF Row
  <2> QED  BY <1>1, <1>2, <2>1
<1>4. /\ \A b \in Appointments \ {a} : Mirrors(b)
      /\ session[s].seen = row[a] /\ Sound(a, op, old)
      /\ live[a] = Held(a) /\ op \in Strips
  BY <1>1, <1>2 DEF Own, Decided, Mirrors
<1>5. Sound(a, op, new)
  BY <1>3, <1>4, SoundWithoutEvent
<1>6. RowsInOrder' /\ Sound(a, op, new)'
  BY <1>1, <1>5, RowsUnchanged
<1>7. live'[a] = {} /\ \A b \in Appointments \ {a} : live'[b] = live[b]
  BY <1>1, <1>2, <1>4 DEF Held, IInv, TypeOK
<1>8. \A b \in Appointments \ {a} : Mirrors(b)'
  BY <1>1, <1>4, <1>7, RowsUnchanged DEF Mirrors
<1>9. Own(s)'
  BY <1>1, <1>2, <1>3, <1>4, <1>6, <1>7, <1>8 DEF Own, Decided
<1>10. Alone(s)' /\ Busy(s)'
  BY <1>1, StaysAlone DEF IInv, Busy
<1> QED  BY <1>6, <1>9, <1>10, QuietFrom

\* What a commit does to rows that are still those it read.
LEMMA FlushUnchanged ==
  ASSUME NEW r \in Row, NEW new \in Row
  PROVE  Flush(r, r, new) = new
BY DEF Flush, Pick, Row

LEMMA CommitRow ==
  ASSUME TypeOK, NEW s \in Sessions, Commit(s),
         session[s].seen = row[session[s].apt], row[session[s].apt].table # "removed"
  PROVE  LET a == session[s].apt
             new == session[s].new
         IN
         /\ row' = [row EXCEPT ![a] = IF new.table = "removed" THEN Gone ELSE new]
         /\ edited' = IF EditsRow(session[s].op, row[a], new) THEN edited \cup {a} ELSE edited
         /\ session[s].op \in Syncs => session'[s].at = "reload" /\ session'[s].apt = a
         /\ session[s].op \notin Syncs => session'[s] = Idle
<1> DEFINE a == session[s].apt
           new == session[s].new
<1>1. Busy(s)
  BY DEF Commit, Busy
<1>2. session[s] \in Working /\ a \in Appointments /\ row[a] \in Row /\ new \in Row
  BY <1>1, BusyType DEF TypeOK
<1>3. Flush(row[a], session[s].seen, new) = new
  BY <1>2, FlushUnchanged
<1>4. ASSUME session[s].op \in Syncs PROVE session'[s].at = "reload" /\ session'[s].apt = a
  <2> DEFINE w == [session[s] EXCEPT !.at = "reload", !.seen = NoRow, !.new = NoRow]
  <2>1. w \in Working /\ w.at = "reload" /\ w.apt = a
    BY <1>2, NoRowType DEF Working
  <2>2. session' = [session EXCEPT ![s] = w]
    BY <1>4 DEF Commit
  <2> HIDE DEF w
  <2> QED  BY <2>1, <2>2, OneMoves
<1>5. ASSUME session[s].op \notin Syncs PROVE session'[s] = Idle
  BY <1>5, EndEffect DEF Commit
<1>6. row' = [row EXCEPT ![a] = IF new.table = "removed" THEN Gone ELSE new]
  BY <1>3 DEF Commit
<1>7. edited' = IF EditsRow(session[s].op, row[a], new) THEN edited \cup {a} ELSE edited
  BY DEF Commit, EditsRow
<1> QED  BY <1>4, <1>5, <1>6, <1>7

\* A sound decision that is written leaves the rows in order.
LEMMA SoundWrite ==
  ASSUME TypeOK, RowsInOrder, NEW a \in Appointments, NEW op \in Operation, NEW new \in Row,
         Sound(a, op, new), new.table # "absent",
         row' = [row EXCEPT ![a] = IF new.table = "removed" THEN Gone ELSE new],
         edited' = IF EditsRow(op, row[a], new) THEN edited \cup {a} ELSE edited
  PROVE  RowsInOrder'
<1> DEFINE written == IF new.table = "removed" THEN Gone ELSE new
<1>1. /\ row'[a] = written
      /\ \A b \in Appointments \ {a} : row'[b] = row[b]
  BY DEF TypeOK
<1>2. /\ edited \subseteq edited'
      /\ \A b \in Appointments \ {a} : b \in edited' <=> b \in edited
      /\ a \notin edited' <=> Unedited(a, op, new)
  BY DEF Unedited
<1>3. written.table # "absent" /\ written \in Row
  BY NoRowType DEF Gone, NoRow
<1>4. NoneDecided'
  BY <1>1, <1>3 DEF RowsInOrder, NoneDecided
<1>5. ProposalsStand'
  <2>1. ASSUME a \notin edited', written.status = "slot_proposed"
        PROVE  written.proposed = written.slot
    BY <1>2, <2>1 DEF Sound, Gone, NoRow
  <2> HIDE DEF written
  <2> QED  BY <1>1, <1>2, <2>1 DEF RowsInOrder, ProposalsStand
<1>6. BookedOnce'
  <2>1. \A b \in Appointments \ {a} : Blocking(b)' <=> Blocking(b)
    BY <1>1 DEF Blocking, Current, Present
  <2>2. ASSUME a \notin edited', Blocking(a)',
               NEW b \in Appointments \ {a}, b \notin edited', Blocking(b)'
        PROVE  ~Overlap(row'[a].slot, row'[b].slot) /\ ~Overlap(row'[b].slot, row'[a].slot)
    <3>1. row'[a] = new /\ TakesTime(new)
      BY <1>1, <2>2 DEF Blocking, Current, Present, TakesTime, Gone, NoRow
    <3>2. ~Overlap(new.slot, row[b].slot)
      BY <1>2, <2>1, <2>2, <3>1 DEF Sound, Fits
    <3>3. new.slot \in Slots \cup {NoSlot} /\ row[b].slot \in Slots \cup {NoSlot}
      BY <2>2 DEF TypeOK, Row
    <3>4. row'[b] = row[b]
      BY <1>1
    <3> QED  BY <3>1, <3>2, <3>3, <3>4, OverlapIsConflict
  <2>3. ASSUME NEW b \in Appointments \ {a}, NEW c \in Appointments \ {a}, b # c,
               b \notin edited', c \notin edited', Blocking(b)', Blocking(c)'
        PROVE  ~Overlap(row'[b].slot, row'[c].slot)
    BY <1>1, <1>2, <2>1, <2>3 DEF RowsInOrder, BookedOnce
  <2> QED  BY <2>2, <2>3 DEF BookedOnce
<1> QED  BY <1>4, <1>5, <1>6 DEF RowsInOrder

LEMMA CommitQuiet ==
  ASSUME IInv, RowsInOrder, NEW s \in Sessions, Commit(s), Alone(s), Own(s)
  PROVE  Quiet'
<1>1. Others(s) /\ Busy(s) /\ session[s].at \in {"commit", "stripped"} /\ live' = live
  BY CommitEffect DEF IInv
<1>2. PICK a \in Appointments, op \in Operation, new \in Row :
        a = session[s].apt /\ op = session[s].op /\ new = session[s].new
  BY <1>1, BusyType DEF IInv, Working
<1>3. /\ session[s].seen = row[a] /\ Sound(a, op, new)
      /\ new.table # "absent"
      /\ \A b \in Appointments \ {a} : Mirrors(b)
  BY <1>1, <1>2 DEF Own, Decided, IInv, RequestsKnow
<1>4. /\ row' = [row EXCEPT ![a] = IF new.table = "removed" THEN Gone ELSE new]
      /\ edited' = IF EditsRow(op, row[a], new) THEN edited \cup {a} ELSE edited
      /\ op \in Syncs => session'[s].at = "reload" /\ session'[s].apt = a
      /\ op \notin Syncs => session'[s] = Idle
  BY <1>2, <1>3, CommitRow DEF IInv, Sound
<1>5. RowsInOrder'
  BY <1>2, <1>3, <1>4, SoundWrite DEF IInv
<1>6. /\ row'[a] = IF new.table = "removed" THEN Gone ELSE new
      /\ \A b \in Appointments \ {a} : row'[b] = row[b]
  BY <1>4 DEF IInv, TypeOK
<1>7. \A b \in Appointments \ {a} : Mirrors(b)'
  BY <1>1, <1>3, <1>6 DEF Mirrors, Held, Current, Present
\* Calendar and row as the decision leaves them.
<1>8. /\ live[a] = IF new.table = "removed" THEN {} ELSE {new.event} \ {NoEvent}
      /\ new.archived => live[a] = {}
  <2>1. CASE session[s].at = "stripped"
    BY <1>2, <2>1 DEF Own
  <2>2. CASE session[s].at = "commit"
    <3>1. /\ Mirrors(a) /\ new.event = row[a].event
          /\ op \in Strips => row[a].event = NoEvent
      BY <1>2, <2>2 DEF Own
    <3>2. live[a] = {row[a].event} \ {NoEvent}
      BY <3>1 DEF Mirrors, Held, IInv, OnlyPresentHave
    <3> QED  BY <1>3, <3>1, <3>2 DEF Sound, Mirrors
  <2> QED  BY <1>1, <2>1, <2>2
<1>9. Gone.table = "removed" /\ Gone.archived = FALSE
  BY DEF Gone, NoRow
<1>10. live'[a] = Held(a)'
  BY <1>1, <1>3, <1>6, <1>8, <1>9 DEF Held, Present, Row
<1>11. CASE op \in Syncs
  <2>1. session'[s].at = "reload" /\ session'[s].apt = a
    BY <1>4, <1>11
  <2>2. Current(a)'
    BY <1>3, <1>6, <1>11 DEF Sound, Current, Present
  <2>3. Own(s)'
    BY <1>7, <1>10, <2>1, <2>2 DEF Own, Decided
  <2> QED  BY <1>1, <1>5, <2>1, <2>3, QuietFrom, StaysAlone DEF IInv, Busy
<1>12. CASE op \notin Syncs
  <2>1. Mirrors(a)'
    BY <1>1, <1>3, <1>6, <1>8, <1>9, <1>10, <1>12 DEF Mirrors, Sound, Current, Present
  <2> QED  BY <1>1, <1>4, <1>5, <1>7, <1>12, <2>1, QuietFrom, StaysAlone DEF IInv, Busy, Idle
<1> QED  BY <1>11, <1>12

LEMMA ReloadQuiet ==
  ASSUME IInv, RowsInOrder, NEW s \in Sessions, Reload(s), Alone(s), Own(s)
  PROVE  Quiet'
<1>1. /\ Busy(s) /\ session[s].at = "reload"
      /\ row' = row /\ live' = live /\ edited' = edited
  BY DEF Reload, At, Busy
<1>2. PICK a \in Appointments : a = session[s].apt
  BY <1>1, BusyType DEF IInv
<1>3. Current(a) /\ live[a] = Held(a) /\ \A b \in Appointments \ {a} : Mirrors(b)
  BY <1>1, <1>2 DEF Own
<1>4. RowsInOrder' /\ \A b \in Appointments : Mirrors(b) => Mirrors(b)'
  BY <1>1, RowsUnchanged DEF Mirrors
<1>5. CASE row[a].event = NoEvent
  <2>1. Goto(s, "sync")
    BY <1>2, <1>3, <1>5 DEF Reload, Current
  <2>2. Others(s) /\ session'[s].at = "sync" /\ session'[s].apt = a
    BY <1>1, <1>2, <2>1, GotoEffect DEF IInv
  <2>3. live[a] = {}
    BY <1>3, <1>5 DEF Held
  <2>4. Own(s)'
    BY <1>1, <1>3, <1>4, <1>5, <2>2, <2>3, RowsUnchanged DEF Own, Decided
  <2> QED  BY <1>4, <2>2, <2>4, QuietFrom, StaysAlone DEF IInv, Busy
<1>6. CASE row[a].event # NoEvent
  <2>1. Others(s) /\ session'[s] = Idle
    BY <1>2, <1>6, EndEffect DEF IInv, Reload
  <2>2. Mirrors(a)
    BY <1>3, <1>6 DEF Mirrors, Held, Current
  <2> QED  BY <1>3, <1>4, <2>1, <2>2, QuietFrom, StaysAlone DEF IInv, Busy, Idle
<1> QED  BY <1>5, <1>6

LEMMA CreateEventQuiet ==
  ASSUME IInv, RowsInOrder, NEW s \in Sessions, CreateEvent(s), Alone(s), Own(s), live' # live
  PROVE  Quiet'
<1>1. /\ Busy(s) /\ At(s, "sync") /\ session[s].at = "sync"
      /\ row' = row /\ edited' = edited
  BY DEF CreateEvent, At, Busy
<1>2. PICK a \in Appointments : a = session[s].apt
  BY <1>1, BusyType DEF IInv
<1>3. /\ Current(a) /\ row[a].event = NoEvent /\ live[a] = {}
      /\ \A b \in Appointments \ {a} : Mirrors(b)
  BY <1>1, <1>2 DEF Own
<1>4. PICK e \in FreshEvents(a) :
        /\ live' = [live EXCEPT ![a] = @ \cup {e}]
        /\ session' = [session EXCEPT ![s].at = "store", ![s].event = e]
  BY <1>2 DEF CreateEvent
<1>5. /\ Others(s) /\ session'[s].at = "store" /\ session'[s].apt = a
      /\ session'[s].event = e
  BY <1>1, <1>2, <1>4, FreshIs, CreateEffect DEF IInv
<1>6. live'[a] = {e} /\ \A b \in Appointments \ {a} : live'[b] = live[b]
  BY <1>3, <1>4 DEF IInv, TypeOK
<1>7. RowsInOrder' /\ \A b \in Appointments \ {a} : Mirrors(b)'
  BY <1>1, <1>3, <1>6, RowsUnchanged DEF Mirrors
<1>8. Own(s)'
  BY <1>1, <1>3, <1>5, <1>6, <1>7, RowsUnchanged DEF Own, Decided
<1> QED  BY <1>5, <1>7, <1>8, QuietFrom, StaysAlone DEF IInv, Busy

\* The id of an event is nothing the order of the rows is about.
LEMMA StoreEventRows ==
  ASSUME IInv, RowsInOrder, NEW s \in Sessions, StoreEvent(s)
  PROVE  RowsInOrder'
<1>1. PICK a \in Appointments, e \in Event : a = session[s].apt /\ e = session[s].event
  BY BusyType DEF IInv, RequestsKnow, StoreEvent, At, Busy, Storing
<1> DEFINE new == [row[a] EXCEPT !.event = e]
<1>2. row' = [row EXCEPT ![a] = new] \/ row' = row
  BY <1>1 DEF StoreEvent
<1>3. /\ new.table = row[a].table /\ new.status = row[a].status
      /\ new.slot = row[a].slot /\ new.proposed = row[a].proposed
      /\ new.archived = row[a].archived
  BY DEF IInv, TypeOK, Row
<1> HIDE DEF new
<1>4. \A b \in Appointments :
        /\ row'[b].table = row[b].table /\ row'[b].status = row[b].status
        /\ row'[b].slot = row[b].slot /\ row'[b].proposed = row[b].proposed
        /\ row'[b].archived = row[b].archived
  BY <1>2, <1>3 DEF IInv, TypeOK
<1>5. edited' = edited
  BY DEF StoreEvent
<1> QED
  BY <1>4, <1>5 DEF RowsInOrder, BookedOnce, ProposalsStand, NoneDecided, Blocking, Current,
     Present

LEMMA StoreEventQuiet ==
  ASSUME IInv, RowsInOrder, NEW s \in Sessions, StoreEvent(s), Alone(s), Own(s)
  PROVE  Quiet'
<1>1. /\ Busy(s) /\ session[s].at = "store" /\ Storing(s)
      /\ live' = live /\ edited' = edited
  BY DEF StoreEvent, At, Busy, Storing
<1>2. PICK a \in Appointments, e \in Event : a = session[s].apt /\ e = session[s].event
  BY <1>1, BusyType DEF IInv, RequestsKnow
<1>3. /\ Current(a) /\ live[a] = {e} /\ e # NoEvent
      /\ \A b \in Appointments \ {a} : Mirrors(b)
  BY <1>1, <1>2 DEF Own, IInv, RequestsKnow
<1>4. Others(s) /\ session'[s] = Idle
  BY EndEffect DEF IInv, StoreEvent
<1> DEFINE new == [row[a] EXCEPT !.event = e]
<1>5. row' = [row EXCEPT ![a] = new]
  BY <1>2, <1>3 DEF StoreEvent, Current
<1>6. /\ new.event = e /\ new.table = row[a].table /\ new.status = row[a].status
      /\ new.archived = row[a].archived
  BY DEF IInv, TypeOK, Row
<1> HIDE DEF new
<1>7. row'[a] = new /\ \A b \in Appointments \ {a} : row'[b] = row[b]
  BY <1>5 DEF IInv, TypeOK
<1>8. RowsInOrder'
  BY StoreEventRows
<1>9. Mirrors(a)'
  BY <1>1, <1>3, <1>6, <1>7 DEF Mirrors, Held, Current, Present
<1>10. \A b \in Appointments \ {a} : Mirrors(b)'
  BY <1>1, <1>3, <1>7 DEF Mirrors, Held, Current, Present
<1> QED  BY <1>4, <1>8, <1>9, <1>10, QuietFrom, StaysAlone DEF IInv, Busy, Idle

LEMMA ProceedQuiet ==
  ASSUME IInv, Quiet, NEW s \in Sessions, Proceed(s), Alone(s), ~Unserved(s)
  PROVE  Quiet'
<1>1. Busy(s) /\ RowsInOrder /\ Own(s)
  BY DEF Proceed, Strip, Commit, Reload, CreateEvent, StoreEvent, At, Busy, Quiet
<1>2. Strip(s) \/ CreateEvent(s) => live' # live
  BY DEF Unserved, Strip, CreateEvent, At
<1> QED
  BY <1>1, <1>2, StripQuiet, CommitQuiet, ReloadQuiet, CreateEventQuiet, StoreEventQuiet
     DEF Proceed

LEMMA CalmInvInit == CalmInit => CalmInv
<1> SUFFICES ASSUME CalmInit PROVE CalmInv
  OBVIOUS
<1>1. Init
  BY DEF CalmInit
<1>2. \A a \in Appointments : /\ row[a].table = "absent" /\ row[a].status = "pending"
                              /\ row[a].archived = FALSE /\ live[a] = {}
  BY <1>1 DEF Init, NoRow
<1>3. \A s \in Sessions : ~Busy(s)
  BY <1>1 DEF Init, Busy, Idle
<1>4. RowsInOrder
  BY <1>2 DEF RowsInOrder, BookedOnce, ProposalsStand, NoneDecided, Blocking, Current, Present,
     Final
<1>5. \A a \in Appointments : Mirrors(a)
  BY <1>2 DEF Mirrors, Held, Current, Present
<1> QED  BY <1>1, <1>3, <1>4, <1>5, InitIInv DEF CalmInv, Quiet

LEMMA CalmInvStep == CalmInv /\ [CalmNext]_calmVars => CalmInv'
<1> SUFFICES ASSUME CalmInv, [CalmNext]_calmVars PROVE CalmInv'
  OBVIOUS
<1>1. CASE UNCHANGED calmVars
  <2>1. IInv'
    BY <1>1, NextKeeps DEF CalmInv, calmVars
  <2>2. ASSUME Quiet PROVE Quiet'
    <3>1. row' = row /\ live' = live /\ edited' = edited /\ session' = session
      BY <1>1 DEF calmVars, vars
    <3>2. RowsInOrder' /\ \A a \in Appointments : Mirrors(a)' <=> Mirrors(a)
      BY <2>2, <3>1, RowsUnchanged DEF Quiet, Mirrors
    <3>3. ASSUME NEW s \in Sessions, Own(s) PROVE Own(s)'
      BY <3>1, <3>3 DEF Own, Decided, Mirrors, Held, Current, Present, Sound, Fits, Unedited,
         Blocking, TakesTime, EditsRow
    <3> QED  BY <2>2, <3>1, <3>2, <3>3 DEF Quiet, AtRest, Alone, Busy
  <2> QED  BY <1>1, <2>1, <2>2 DEF CalmInv, calmVars
<1>2. ASSUME NEW s \in Sessions,
             Proceed(s) \/ \E a \in Appointments : Request(s, a),
             calm' = (calm /\ ~Unserved(s) /\ \A t \in Sessions \ {s} : ~Busy(t))
      PROVE  CalmInv'
  <2>1. IInv'
    BY <1>2, NextKeeps DEF CalmInv, Next
  <2>2. ASSUME calm' PROVE Quiet'
    <3>1. calm /\ ~Unserved(s) /\ Alone(s)
      BY <1>2, <2>2 DEF Alone
    <3> QED  BY <1>2, <3>1, RequestQuiet, ProceedQuiet DEF CalmInv
  <2> QED  BY <2>1, <2>2 DEF CalmInv
<1>3. ASSUME NEW s \in Sessions, Die(s), calm' = FALSE PROVE CalmInv'
  BY <1>3, NextKeeps DEF CalmInv, Next
<1> QED  BY <1>1, <1>2, <1>3 DEF CalmNext

\* A request that has decided did so on the row as it is, and soundly.
SoundlyDecided(s) ==
  Decided(s) => /\ session[s].seen = row[session[s].apt]
                /\ Sound(session[s].apt, session[s].op, session[s].new)

\* Only a commit changes a status, and a sound one changes no final status.
LEMMA StepStands ==
  ASSUME IInv, NEW s \in Sessions, SoundlyDecided(s),
         Proceed(s) \/ Die(s) \/ \E a \in Appointments : Request(s, a)
  PROVE  StandingOutcomes
<1>1. CASE row' = row
  BY <1>1 DEF StandingOutcomes
<1>2. CASE Commit(s)
  <2>1. Busy(s) /\ Decided(s)
    BY <1>2 DEF Commit, Busy, Decided
  <2>2. PICK a \in Appointments, op \in Operation, new \in Row :
          a = session[s].apt /\ op = session[s].op /\ new = session[s].new
    BY <2>1, BusyType DEF IInv, Working
  <2>3. session[s].seen = row[a] /\ Sound(a, op, new)
    BY <2>1, <2>2 DEF SoundlyDecided
  <2>4. /\ row' = [row EXCEPT ![a] = IF new.table = "removed" THEN Gone ELSE new]
        /\ edited' = IF EditsRow(op, row[a], new) THEN edited \cup {a} ELSE edited
    BY <1>2, <2>2, <2>3, CommitRow DEF IInv, Sound
  <2>5. \A b \in Appointments \ {a} : row'[b] = row[b]
    BY <2>4 DEF IInv, TypeOK
  <2>6. ASSUME a \notin edited', row[a].status \in Final, Present(a)'
        PROVE  row'[a].status = row[a].status
    <3>1. row'[a] = new
      BY <2>4, <2>6 DEF IInv, TypeOK, Present, Gone, NoRow
    <3> QED  BY <2>3, <2>4, <2>6, <3>1 DEF Sound, EditsRow
  <2> QED  BY <2>5, <2>6 DEF StandingOutcomes
<1>3. CASE StoreEvent(s)
  <2>1. \A b \in Appointments : row'[b].status = row[b].status
    BY <1>3 DEF StoreEvent, IInv, TypeOK, Row
  <2> QED  BY <2>1 DEF StandingOutcomes
<1>4. row' = row \/ Commit(s) \/ StoreEvent(s)
  <2>1. ASSUME NEW a \in Appointments, Request(s, a) PROVE row' = row
    BY <2>1 DEF Request, Create, Confirm, ConfirmFrom, Outcome, ProposeSlot,
       HierarchyValidate, Cancel, HierarchyReject, ApproveDeletion, Archive,
       PermanentDelete, Update, Begin
  <2> QED  BY <2>1 DEF Proceed, Strip, Reload, CreateEvent, Die
<1> QED  BY <1>1, <1>2, <1>3, <1>4

(***************************************************************************)
(* The host is booked once: as long as one request follows the other, no   *)
(* two appointments that take time overlap, whatever is booked, proposed,  *)
(* confirmed, moved, cancelled or archived, unless PUT gave one of them    *)
(* its status or moved it off its proposal.                                *)
(***************************************************************************)
THEOREM CalmBooksOnce == CalmSpec => []CalmBookings
<1>1. CalmInv => CalmBookings
  BY DEF CalmInv, CalmBookings, Quiet, RowsInOrder
<1> QED  BY CalmInvInit, CalmInvStep, <1>1, PTL DEF CalmSpec

(***************************************************************************)
(* The Google calendar holds what the rows say whenever nothing is going   *)
(* on, as long as one request follows the other and Google does as asked.  *)
(***************************************************************************)
THEOREM CalmCalendarMirrors == CalmSpec => []CalmCalendar
<1>1. CalmInv => CalmCalendar
  <2> SUFFICES ASSUME CalmInv PROVE CalmCalendar
    OBVIOUS
  <2> QED  BY DEF CalmInv, CalmCalendar, CalendarMirrors, Quiet, Mirrors, Held
<1> QED  BY CalmInvInit, CalmInvStep, <1>1, PTL DEF CalmSpec

(***************************************************************************)
(* As long as one request follows the other only PUT changes a final       *)
(* status: what was cancelled, completed or missed stays so.               *)
(***************************************************************************)
THEOREM CalmOutcomesStand == CalmSpec => CalmOutcomes
<1>1. CalmInv /\ [CalmNext]_calmVars => [calm' => StandingOutcomes]_calmVars
  <2> SUFFICES ASSUME CalmInv, CalmNext, calm' PROVE StandingOutcomes
    OBVIOUS
  <2>1. PICK s \in Sessions :
          /\ Proceed(s) \/ \E a \in Appointments : Request(s, a)
          /\ calm /\ \A t \in Sessions \ {s} : ~Busy(t)
    BY DEF CalmNext
  <2>2. SoundlyDecided(s)
    <3>1. Decided(s) => Busy(s)
      BY DEF Decided, Busy
    <3> QED  BY <2>1, <3>1 DEF CalmInv, Quiet, Alone, Own, SoundlyDecided
  <2> QED  BY <2>1, <2>2, StepStands DEF CalmInv
<1> QED  BY CalmInvInit, CalmInvStep, <1>1, PTL DEF CalmSpec, CalmOutcomes

-----------------------------------------------------------------------------
(***************************************************************************)
(* One session: what Google answers and who dies does not matter to the    *)
(* rows, for it comes between a sound decision and its commit, or after.   *)
(***************************************************************************)
SerialInv == IInv /\ RowsInOrder /\ \A s \in Sessions : SoundlyDecided(s)

\* A step after which its request has nothing more to decide.
LEMMA NothingDecided ==
  ASSUME NEW s \in Sessions, \A t \in Sessions : t = s, IInv', RowsInOrder', ~Decided(s)'
  PROVE  SerialInv'
BY DEF SerialInv, SoundlyDecided

LEMMA StripSound ==
  ASSUME SerialInv, NEW s \in Sessions, Strip(s)
  PROVE  SoundlyDecided(s)' /\ row' = row /\ edited' = edited
<1>1. /\ Busy(s) /\ Decided(s)
      /\ session'[s].apt = session[s].apt /\ session'[s].seen = session[s].seen
      /\ session'[s].op = session[s].op
      /\ \/ session'[s].new = [session[s].new EXCEPT !.event = NoEvent]
         \/ session'[s].new = session[s].new
      /\ row' = row /\ edited' = edited
  BY StripEffect DEF SerialInv, IInv, Decided
<1>2. PICK a \in Appointments, op \in Operation, old \in Row :
        a = session[s].apt /\ op = session[s].op /\ old = session[s].new
  BY <1>1, BusyType DEF SerialInv, IInv, Working
<1>3. PICK new \in Row :
        new = session'[s].new /\ (new = [old EXCEPT !.event = NoEvent] \/ new = old)
  <2>1. [old EXCEPT !.event = NoEvent] \in Row
    BY <1>2 DEF Row
  <2> QED  BY <1>1, <1>2, <2>1
<1>4. session[s].seen = row[a] /\ Sound(a, op, old)
  BY <1>1, <1>2 DEF SerialInv, SoundlyDecided
<1>5. Sound(a, op, new)'
  BY <1>1, <1>3, <1>4, SoundWithoutEvent, RowsUnchanged
<1> QED  BY <1>1, <1>2, <1>3, <1>4, <1>5 DEF SoundlyDecided

LEMMA CommitSound ==
  ASSUME SerialInv, NEW s \in Sessions, Commit(s)
  PROVE  RowsInOrder' /\ ~Decided(s)'
<1>1. /\ Busy(s) /\ Decided(s)
      /\ session'[s] = Idle \/ session'[s].at = "reload"
  BY CommitEffect DEF SerialInv, IInv, Decided
<1>2. PICK a \in Appointments, op \in Operation, new \in Row :
        a = session[s].apt /\ op = session[s].op /\ new = session[s].new
  BY <1>1, BusyType DEF SerialInv, IInv, Working
<1>3. session[s].seen = row[a] /\ Sound(a, op, new) /\ new.table # "absent"
  BY <1>1, <1>2 DEF SerialInv, SoundlyDecided, IInv, RequestsKnow
<1>4. /\ row' = [row EXCEPT ![a] = IF new.table = "removed" THEN Gone ELSE new]
      /\ edited' = IF EditsRow(op, row[a], new) THEN edited \cup {a} ELSE edited
  BY <1>2, <1>3, CommitRow DEF SerialInv, IInv, Sound
<1>5. RowsInOrder'
  BY <1>2, <1>3, <1>4, SoundWrite DEF SerialInv, IInv
<1> QED  BY <1>1, <1>5 DEF Decided, Idle

LEMMA SerialInvStep ==
  ASSUME \A s, t \in Sessions : s = t
  PROVE  SerialInv /\ [Next]_vars => SerialInv'
<1> SUFFICES ASSUME SerialInv, [Next]_vars PROVE SerialInv'
  OBVIOUS
<1>1. IInv'
  BY NextKeeps DEF SerialInv
<1>2. CASE UNCHANGED vars
  <2>1. row' = row /\ edited' = edited /\ session' = session
    BY <1>2 DEF vars
  <2>2. ASSUME NEW s \in Sessions PROVE SoundlyDecided(s)'
    BY <2>1 DEF SerialInv, SoundlyDecided, Decided, Sound, Fits, Unedited, Blocking, Current,
       Present, TakesTime, EditsRow
  <2> QED  BY <1>1, <2>1, <2>2, RowsUnchanged DEF SerialInv
<1>3. ASSUME NEW s \in Sessions, NEW a \in Appointments, Request(s, a) PROVE SerialInv'
  <2>1. PICK op \in Operation, new \in Row :
          /\ Begin(s, a, op, new)
          /\ RowsInOrder => Sound(a, op, new)
    BY <1>3, RequestBegins DEF SerialInv, IInv, OnlyPresentHave
  <2>2. /\ session'[s].apt = a /\ session'[s].op = op
        /\ session'[s].seen = row[a] /\ session'[s].new = new
        /\ row' = row /\ edited' = edited
    BY <2>1, BeginEffect DEF SerialInv, IInv
  <2>3. RowsInOrder' /\ Sound(a, op, new)'
    BY <2>1, <2>2, RowsUnchanged DEF SerialInv
  <2>4. SoundlyDecided(s)'
    BY <2>2, <2>3 DEF SoundlyDecided
  <2> QED  BY <1>1, <2>3, <2>4 DEF SerialInv
<1>4. ASSUME NEW s \in Sessions, Strip(s) PROVE SerialInv'
  <2>1. SoundlyDecided(s)' /\ row' = row /\ edited' = edited
    BY <1>4, StripSound
  <2> QED  BY <1>1, <2>1, RowsUnchanged DEF SerialInv
<1>5. ASSUME NEW s \in Sessions, Commit(s) PROVE SerialInv'
  BY <1>1, <1>5, CommitSound, NothingDecided
<1>6. ASSUME NEW s \in Sessions, Reload(s) \/ CreateEvent(s) \/ Die(s) PROVE SerialInv'
  <2>1. row' = row /\ edited' = edited
    BY <1>6 DEF Reload, CreateEvent, Die
  <2>2. ~Decided(s)'
    <3>1. CASE End(s)
      BY <3>1, EndEffect DEF SerialInv, IInv, Decided, Idle
    <3>2. CASE Reload(s) /\ Goto(s, "sync")
      BY <3>2, GotoEffect DEF SerialInv, IInv, Decided, Reload, At, Busy
    <3>3. ASSUME CreateEvent(s), NEW e \in FreshEvents(session[s].apt),
                 session' = [session EXCEPT ![s].at = "store", ![s].event = e]
          PROVE  ~Decided(s)'
      BY <3>3, FreshIs, CreateEffect DEF SerialInv, IInv, Decided, CreateEvent
    <3> QED  BY <1>6, <3>1, <3>2, <3>3 DEF Reload, CreateEvent, Die
  <2> QED  BY <1>1, <2>1, <2>2, RowsUnchanged, NothingDecided DEF SerialInv
<1>7. ASSUME NEW s \in Sessions, StoreEvent(s) PROVE SerialInv'
  <2>1. ~Decided(s)'
    BY <1>7, EndEffect DEF SerialInv, IInv, Decided, Idle, StoreEvent
  <2> QED  BY <1>1, <1>7, <2>1, StoreEventRows, NothingDecided DEF SerialInv
<1> QED  BY <1>2, <1>3, <1>4, <1>5, <1>6, <1>7 DEF Next, Proceed

LEMMA SerialInvInit == Init => SerialInv
<1> SUFFICES ASSUME Init PROVE SerialInv
  OBVIOUS
<1>1. \A a \in Appointments : /\ row[a].table = "absent" /\ row[a].status = "pending"
                              /\ row[a].archived = FALSE
  BY DEF Init, NoRow
<1>2. \A s \in Sessions : ~Decided(s)
  BY DEF Init, Decided, Idle
<1>3. RowsInOrder
  BY <1>1 DEF RowsInOrder, BookedOnce, ProposalsStand, NoneDecided, Blocking, Current, Present,
     Final
<1> QED  BY <1>2, <1>3, InitIInv DEF SerialInv, SoundlyDecided

(***************************************************************************)
(* One worker books no time twice, whatever Google answers and however     *)
(* often it dies: double bookings come of requests that cross, and of PUT. *)
(***************************************************************************)
THEOREM SerialBooksOnce ==
  ASSUME \A s, t \in Sessions : s = t
  PROVE  Spec => []BookedOnce
<1>1. SerialInv /\ [Next]_vars => SerialInv'
  BY SerialInvStep
<1>2. SerialInv => BookedOnce
  BY DEF SerialInv, RowsInOrder
<1> QED  BY SerialInvInit, <1>1, <1>2, PTL DEF Spec

(***************************************************************************)
(* Nor does one worker revive what was cancelled, completed or missed but  *)
(* through PUT, whatever Google answers and however often it dies.         *)
(***************************************************************************)
THEOREM SerialOutcomesStand ==
  ASSUME \A s, t \in Sessions : s = t
  PROVE  Spec => [][StandingOutcomes]_vars
<1>1. SerialInv /\ [Next]_vars => SerialInv'
  BY SerialInvStep
<1>2. SerialInv /\ [Next]_vars => [StandingOutcomes]_vars
  <2> SUFFICES ASSUME SerialInv, Next PROVE StandingOutcomes
    OBVIOUS
  <2> QED  BY StepStands DEF SerialInv, Next
<1> QED  BY SerialInvInit, <1>1, <1>2, PTL DEF Spec
=============================================================================
