---------------------------- MODULE Appointments ----------------------------
(***************************************************************************)
(* The appointments of one host, whose Google calendar is connected.  A    *)
(* request reads the row, decides, may await Google's answer and commits.  *)
(* Requests interleave everywhere: production runs four Gunicorn workers.  *)
(* (Within one worker they interleave at the awaits only.)                 *)
(***************************************************************************)
EXTENDS Calendar, FiniteSets

CONSTANTS
  Appointments,  \* the appointments that may ever be made
  Slots,         \* the slots that are asked for
  Sessions,      \* requests that run at the same time
  Outage,        \* whether Google may refuse or fail to answer
  MayFail,       \* whether a request may die with its worker
  Edits,         \* bound: the statuses PUT gives
  MaxEvents      \* bound: events of one appointment at a time

ASSUME AppointmentsAssumption ==
  /\ Slots \subseteq [from : Int, to : Int] /\ Slots # {}
  /\ Outage \in BOOLEAN /\ MayFail \in BOOLEAN
  /\ Edits \subseteq AppointmentStatus
  /\ MaxEvents \in Nat \ {0}

VARIABLES
  row,      \* the rows of table appointments
  live,     \* the events in the calendar, by the appointment they are for
  session,  \* what the requests in progress are at
  edited,   \* history: appointments PUT gave a status or moved off a proposal
  hurt      \* history: appointments whose request died after Google deleted

vars == <<row, live, session, edited, hurt>>

NoEvent == 0
Event == 1 .. MaxEvents
NoSlot == [from |-> 0, to |-> 0]

Row == [table    : {"absent", "present", "removed"},
        status   : AppointmentStatus,
        slot     : Slots \cup {NoSlot},
        proposed : Slots \cup {NoSlot},   \* proposed_start_time .. proposed_end_time
        archived : BOOLEAN,               \* archived_at is set
        event    : Event \cup {NoEvent}]  \* google_event_id

NoRow == [table |-> "absent", status |-> "pending", slot |-> NoSlot,
          proposed |-> NoSlot, archived |-> FALSE, event |-> NoEvent]

Gone == [NoRow EXCEPT !.table = "removed"]

Operation == {"create", "confirm", "outcome", "propose", "validate", "cancel",
              "archive", "purge", "update"}

\* Those that take the event out of the calendar, and those that put it in.
Strips == {"cancel", "archive", "purge"}
Syncs == {"confirm", "update"}

(***************************************************************************)
(* Where a request is: decided and about to commit; awaiting the deletion  *)
(* of the event; answered; about to read the row for the sync; awaiting    *)
(* the creation of an event; about to store its id.                        *)
(***************************************************************************)
Working == [at : {"commit", "strip", "stripped", "reload", "sync", "store"},
            apt : Appointments, op : Operation,
            seen : Row, new : Row, event : Event \cup {NoEvent}]

Idle == [at |-> "idle"]
Busy(s) == session[s].at # "idle"

TypeOK ==
  /\ row \in [Appointments -> Row]
  /\ live \in [Appointments -> SUBSET Event]
  /\ session \in [Sessions -> Working \cup {Idle}]
  /\ edited \subseteq Appointments
  /\ hurt \subseteq Appointments

Init ==
  /\ row = [a \in Appointments |-> NoRow]
  /\ live = [a \in Appointments |-> {}]
  /\ session = [s \in Sessions |-> Idle]
  /\ edited = {}
  /\ hurt = {}

-----------------------------------------------------------------------------
(* Conflicts *)

Present(a) == row[a].table = "present"

\* _raise_if_archived lets these pass.
Current(a) == Present(a) /\ ~row[a].archived

\* The appointments check_conflicts looks at.
Blocking(a) == Current(a) /\ row[a].status \notin Final

Taken(a, slot) ==
  \E b \in Appointments \ {a} : Blocking(b) /\ Conflict(slot, row[b].slot)

-----------------------------------------------------------------------------
(* Requests *)

WorkingOn(a) == {s \in Sessions : Busy(s) /\ session[s].apt = a}

\* Ids Google may give a new event: none that anybody still remembers.
FreshEvents(a) ==
  Event \ (live[a] \cup {row[a].event}
             \cup UNION {{session[s].seen.event, session[s].event} : s \in WorkingOn(a)})

\* Bound: a sync that may have to create an event finds an id for it.
EventsLeft(a) ==
  \/ row[a].event # NoEvent
  \/ Cardinality(FreshEvents(a)) > Cardinality(WorkingOn(a))

At(s, at) == session[s].at = at

Goto(s, at) == session' = [session EXCEPT ![s].at = at]
End(s) == session' = [session EXCEPT ![s] = Idle]

\* SQLAlchemy's flush: a column is in the UPDATE only if its value is new.
Pick(now, seen, new) == IF new = seen THEN now ELSE new

Flush(now, seen, new) ==
  [table    |-> Pick(now.table, seen.table, new.table),
   status   |-> Pick(now.status, seen.status, new.status),
   slot     |-> Pick(now.slot, seen.slot, new.slot),
   proposed |-> Pick(now.proposed, seen.proposed, new.proposed),
   archived |-> Pick(now.archived, seen.archived, new.archived),
   event    |-> Pick(now.event, seen.event, new.event)]

(***************************************************************************)
(* Session s read the row of a and decided to make it new.  It goes on to  *)
(* its commit without an await unless there is an event to delete before.  *)
(***************************************************************************)
Begin(s, a, op, new) ==
  /\ ~Busy(s)
  /\ session' = [session EXCEPT ![s] =
       [at |-> IF op \in Strips /\ row[a].event # NoEvent THEN "strip" ELSE "commit",
        apt |-> a, op |-> op, seen |-> row[a], new |-> new, event |-> NoEvent]]
  /\ UNCHANGED <<row, live, edited, hurt>>

\* POST /appointments, POST /public/book-appointment
Create(s, a, slot) ==
  /\ row[a].table = "absent" /\ WorkingOn(a) = {}
  /\ ~Taken(a, slot)
  /\ Begin(s, a, "create", [NoRow EXCEPT !.table = "present", !.slot = slot])

\* The time becomes the proposed one, with no check.
ConfirmFrom(s, a, statuses) ==
  /\ Current(a) /\ EventsLeft(a)
  /\ row[a].status \in statuses
  /\ Begin(s, a, "confirm",
       [row[a] EXCEPT !.status = "confirmed",
                      !.slot = IF row[a].status = "slot_proposed" /\ row[a].proposed # NoSlot
                                 THEN row[a].proposed ELSE @])

\* Mutant: a cancelled appointment can be confirmed.
ConfirmCancelled(s, a) ==
  ConfirmFrom(s, a, {"pending", "slot_proposed", "preparation", "cancelled"})

\* POST /{id}/confirm
Confirm(s, a) == ConfirmFrom(s, a, {"pending", "slot_proposed", "preparation"})

\* POST /{id}/complete, POST /{id}/no-show
Outcome(s, a, status) ==
  /\ Current(a) /\ row[a].status = "confirmed"
  /\ Begin(s, a, "outcome", [row[a] EXCEPT !.status = status])

\* Mutant: the proposed slot is not checked.
ProposeSlotTaken(s, a, slot) ==
  /\ Current(a) /\ row[a].status = "pending"
  /\ Begin(s, a, "propose", [row[a] EXCEPT !.status = "slot_proposed",
                                           !.slot = slot, !.proposed = slot])

\* POST /{id}/workflow/propose-slot
ProposeSlot(s, a, slot) ==
  /\ Current(a) /\ row[a].status = "pending"
  /\ ~Taken(a, slot)
  /\ Begin(s, a, "propose", [row[a] EXCEPT !.status = "slot_proposed",
                                           !.slot = slot, !.proposed = slot])

\* Mutant: a status the enum does not have.
ValidateUnknown(s, a) ==
  /\ Current(a) /\ row[a].status = "slot_proposed"
  /\ Begin(s, a, "validate", [row[a] EXCEPT !.status = "validated"])

\* POST /{id}/workflow/hierarchy-validate
HierarchyValidate(s, a) ==
  /\ Current(a) /\ row[a].status = "slot_proposed"
  /\ Begin(s, a, "validate", [row[a] EXCEPT !.status = "preparation"])

\* POST /{id}/cancel, DELETE /{id}, POST /bulk-delete (one request per
\* appointment)
Cancel(s, a) ==
  /\ Current(a) /\ row[a].status \notin Final
  /\ Begin(s, a, "cancel", [row[a] EXCEPT !.status = "cancelled"])

\* POST /{id}/workflow/hierarchy-reject
HierarchyReject(s, a) ==
  /\ Current(a) /\ row[a].status = "slot_proposed"
  /\ Begin(s, a, "cancel", [row[a] EXCEPT !.status = "cancelled"])

\* The approval of a deletion request cancels archived appointments too.
ApproveDeletion(s, a) ==
  /\ Present(a) /\ row[a].status \notin Final
  /\ Begin(s, a, "cancel", [row[a] EXCEPT !.status = "cancelled"])

\* POST /{id}/archive, POST /bulk-archive
Archive(s, a) ==
  /\ Current(a)
  /\ Begin(s, a, "archive", [row[a] EXCEPT !.archived = TRUE])

\* DELETE /{id}/permanent, POST /bulk-permanent-delete
PermanentDelete(s, a) ==
  /\ Present(a)
  /\ Begin(s, a, "purge", [row[a] EXCEPT !.table = "removed"])

\* PUT /{id}: any status; the conflict check only if times are given.
Update(s, a, slot, status) ==
  /\ Current(a) /\ EventsLeft(a)
  /\ slot # row[a].slot => ~Taken(a, slot)
  /\ Begin(s, a, "update", [row[a] EXCEPT !.slot = slot, !.status = status])

-----------------------------------------------------------------------------
(* What the requests do next *)

\* Mutant: the id of the deleted event stays in the row.
StripKeepingId(s) ==
  LET a == session[s].apt IN
  /\ At(s, "strip")
  /\ \/ /\ session[s].seen.event \in live[a]
        /\ live' = [live EXCEPT ![a] = @ \ {session[s].seen.event}]
        /\ Goto(s, "stripped")
     \/ /\ Outage \/ session[s].seen.event \notin live[a]
        /\ Goto(s, "stripped")
        /\ UNCHANGED live
  /\ UNCHANGED <<row, edited, hurt>>

(***************************************************************************)
(* strip_external_calendar_events: only an event that Google says it       *)
(* deleted is forgotten.  An event that is already gone is an error.       *)
(***************************************************************************)
Strip(s) ==
  LET a == session[s].apt IN
  /\ At(s, "strip")
  /\ \/ /\ session[s].seen.event \in live[a]
        /\ live' = [live EXCEPT ![a] = @ \ {session[s].seen.event}]
        /\ session' = [session EXCEPT ![s].at = "stripped",
                                      ![s].new = [@ EXCEPT !.event = NoEvent]]
     \/ /\ Outage \/ session[s].seen.event \notin live[a]
        /\ Goto(s, "stripped")
        /\ UNCHANGED live
  /\ UNCHANGED <<row, edited, hurt>>

(***************************************************************************)
(* The UPDATE of a row that was deleted meanwhile fails, its DELETE does   *)
(* nothing.                                                                *)
(***************************************************************************)
Commit(s) ==
  LET w == session[s]
      after == Flush(row[w.apt], w.seen, w.new)
      edits == /\ w.op = "update"
               /\ \/ w.new.status # w.seen.status
                  \/ w.new.status = "slot_proposed" /\ w.new.slot # w.seen.slot
  IN
  /\ w.at \in {"commit", "stripped"}
  /\ IF row[w.apt].table = "removed"
       THEN End(s) /\ UNCHANGED <<row, edited>>
       ELSE /\ row' = [row EXCEPT ![w.apt] = IF after.table = "removed" THEN Gone ELSE after]
            /\ edited' = IF edits THEN edited \cup {w.apt} ELSE edited
            /\ IF w.op \in Syncs
                 THEN session' = [session EXCEPT ![s].at = "reload", ![s].seen = NoRow,
                                                 ![s].new = NoRow]
                 ELSE End(s)
  /\ UNCHANGED <<live, hurt>>

\* _sync_appointment_to_google_if_connected reads the row again (the commit
\* of the notification expired it) and changes the event the row has, which
\* is not visible here, or creates one.
Reload(s) ==
  LET a == session[s].apt IN
  /\ At(s, "reload")
  /\ IF Present(a) /\ row[a].event = NoEvent THEN Goto(s, "sync") ELSE End(s)
  /\ UNCHANGED <<row, live, edited, hurt>>

\* sync_appointment_to_google: the POST of an event.
CreateEvent(s) ==
  LET a == session[s].apt IN
  /\ At(s, "sync")
  /\ \/ \E e \in FreshEvents(a) :
          /\ live' = [live EXCEPT ![a] = @ \cup {e}]
          /\ session' = [session EXCEPT ![s].at = "store", ![s].event = e]
     \/ Outage /\ End(s) /\ UNCHANGED live
  /\ UNCHANGED <<row, edited, hurt>>

\* Mutant: the id is not stored.
StoreNothing(s) ==
  /\ At(s, "store")
  /\ End(s)
  /\ UNCHANGED <<row, live, edited, hurt>>

\* The UPDATE of google_event_id, which fails if the row is gone.
StoreEvent(s) ==
  LET a == session[s].apt IN
  /\ At(s, "store")
  /\ row' = IF Present(a) THEN [row EXCEPT ![a].event = session[s].event] ELSE row
  /\ End(s)
  /\ UNCHANGED <<live, edited, hurt>>

\* The worker dies, or the request is cancelled.
Die(s) ==
  /\ MayFail /\ Busy(s)
  /\ hurt' = IF At(s, "stripped") /\ session[s].new.event # session[s].seen.event
               THEN hurt \cup {session[s].apt} ELSE hurt
  /\ End(s)
  /\ UNCHANGED <<row, live, edited>>

Request(s, a) ==
  \/ \E slot \in Slots : Create(s, a, slot)
  \/ Confirm(s, a)
  \/ \E status \in {"completed", "no_show"} : Outcome(s, a, status)
  \/ \E slot \in Slots : ProposeSlot(s, a, slot)
  \/ HierarchyValidate(s, a)
  \/ Cancel(s, a)
  \/ HierarchyReject(s, a)
  \/ ApproveDeletion(s, a)
  \/ Archive(s, a)
  \/ PermanentDelete(s, a)
  \/ \E slot \in Slots \cup {row[a].slot}, status \in Edits \cup {row[a].status} :
       Update(s, a, slot, status)

Proceed(s) == Strip(s) \/ Commit(s) \/ Reload(s) \/ CreateEvent(s) \/ StoreEvent(s)

Next == \E s \in Sessions :
  \/ \E a \in Appointments : Request(s, a)
  \/ Proceed(s)
  \/ Die(s)

Spec == Init /\ [][Next]_vars

-----------------------------------------------------------------------------
(* Properties *)

(***************************************************************************)
(* With one request at a time no two appointments that take the host's     *)
(* time overlap, unless PUT gave one of them its status or moved it while  *)
(* a slot was proposed (NoConfirmIntoOverlap says what comes of that).     *)
(***************************************************************************)
BookedOnce ==
  \A a, b \in Appointments :
    a # b /\ {a, b} \cap edited = {} /\ Blocking(a) /\ Blocking(b) =>
      ~Overlap(row[a].slot, row[b].slot)

(***************************************************************************)
(* The event id in a row is that of an event in the calendar, unless a     *)
(* request is between Google's deletion and its commit, or died there.     *)
(* (A row with a dead id is never synced again: changing an event that is  *)
(* gone fails.)                                                            *)
(***************************************************************************)
Stripping(a) == \E s \in WorkingOn(a) :
  At(s, "stripped") /\ session[s].new.event # session[s].seen.event

StoredEventLives ==
  \A a \in Appointments :
    Present(a) /\ row[a].event # NoEvent =>
      row[a].event \in live[a] \/ a \in hurt \/ Stripping(a)

(***************************************************************************)
(* With one request at a time and Google at hand, the calendar holds what  *)
(* the rows say: no event that no row knows, none of what is archived or   *)
(* removed, and one for every confirmed visit.                             *)
(***************************************************************************)
AtRest == \A s \in Sessions : ~Busy(s)

CalendarMirrors ==
  AtRest => \A a \in Appointments :
    /\ live[a] = IF Present(a) THEN {row[a].event} \ {NoEvent} ELSE {}
    /\ row[a].archived => live[a] = {}
    /\ Current(a) /\ row[a].status = "confirmed" => live[a] # {}

(***************************************************************************)
(* With one request at a time a final status stands: only PUT changes what *)
(* was cancelled, completed or missed.  (With several a proposal or a      *)
(* validation that was decided before a cancellation revives it.)          *)
(***************************************************************************)
StandingOutcomes ==
  \A a \in Appointments \ edited' :
    row[a].status \in Final /\ Present(a)' => row'[a].status = row[a].status

(***************************************************************************)
(* What rescheduling promises (permissions.py: "verif. disponibilite,      *)
(* detection conflits"): a confirmation does not bring an appointment into *)
(* the time of another one.                                                *)
(***************************************************************************)
NoConfirmIntoOverlap ==
  [][\A s \in Sessions :
       At(s, "commit") /\ session[s].op = "confirm" /\ session'[s] # session[s] =>
         LET a == session[s].apt IN
         \A b \in Appointments \ {a} :
           Blocking(b)' /\ Overlap(row'[a].slot, row'[b].slot) =>
             Overlap(row[a].slot, row[b].slot)]_vars
=============================================================================
