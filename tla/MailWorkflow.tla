---------------------------- MODULE MailWorkflow ----------------------------
(***************************************************************************)
(* The life of mail documents: the handlers of api/v1/mail.py and the      *)
(* services they call, and the OCR task of tasks/ocr_tasks.py.             *)
(*                                                                         *)
(* A handler SELECTs the document, decides on what it read, and commits    *)
(* one UPDATE (of the columns it changed) with one workflow_history row.   *)
(* Nothing locks the row and no version is compared, so between the SELECT *)
(* and the commit another Gunicorn worker, or the Celery worker, may       *)
(* commit.  Each of the Sessions serves one request at a time: one session *)
(* is the single uvicorn process of docker-compose (these handlers do not  *)
(* await in between), several are the Gunicorn workers of deploy/.         *)
(*                                                                         *)
(* Left out: the columns no guard reads (title, tags, department...), the  *)
(* rows of workflow_states (written with those of workflow_history), and   *)
(* audit and notifications, which come after the commit.  Permissions are  *)
(* MailDesk's subject: here a request may always be permitted or refused.  *)
(***************************************************************************)
EXTENDS MailTransitions, Naturals

CONSTANTS
  Docs,         \* document ids; each is given to one upload
  NoDoc,        \* what an idle session works on
  Users,        \* the users a document may be assigned to
  NoUser,       \* assigned_to is NULL
  Sessions,     \* the database sessions of the API workers
  Definitions,  \* for each direction the stored edges, {} without definition
  MaxRetries,   \* max_retries of process_ocr_task, which is 3
  KeywordHits   \* may OCR keywords match a routing rule?  a set of Booleans

\* What the engine offers for a document of that direction and status.
Edges(dir, status) == Transitions(Definitions[dir], dir, status)

ASSUME IdsAssumption ==
  /\ NoDoc \notin Docs
  /\ NoUser \notin Users
  /\ MaxRetries \in Nat
  /\ KeywordHits \subseteq BOOLEAN

\* Stored edges lead somewhere else, as those of the migrations do.
ASSUME DefinitionsAssumption ==
  /\ DOMAIN Definitions = Direction
  /\ \A dir \in Direction : \A e \in Definitions[dir] : e.from # e.to

VARIABLES
  table,    \* is a document in the table?
  row,      \* its row of mail_documents
  trail,    \* its rows of workflow_history, as Trail says
  session,  \* what each session has read and not yet answered
  ocr       \* the OCR task of a document

vars == <<table, row, trail, session, ocr>>

\* dated stands for: archived_at is not NULL.
Row == [status : Status, direction : Direction,
        assignee : Users \cup {NoUser}, dated : BOOLEAN]

\* Of the history in created_at order: the to_status of the last row, that of
\* the last row a transition wrote, and whether every row starts from the
\* status at which the one before it ended.
Trail == [last : Status, moved : Status, linked : BOOLEAN]

NewRow(d) == [status |-> "received", direction |-> d, assignee |-> NoUser,
              dated |-> FALSE]
NewTrail == [last |-> "received", moved |-> "received", linked |-> TRUE]

Logged(t, from, to, moved) ==
  [last |-> to, moved |-> moved, linked |-> t.linked /\ t.last = from]

Blank == NewRow("inbound")
Idle == [doc |-> NoDoc, seen |-> Blank]
NoTask == [phase |-> "none", tries |-> 0, seen |-> "received"]

Busy(s) == session[s].doc # NoDoc
Present(d) == table[d] = "present"

TypeOK ==
  /\ table \in [Docs -> {"absent", "present", "purged"}]
  /\ row \in [Docs -> Row]
  /\ trail \in [Docs -> Trail]
  /\ session \in [Sessions -> [doc : Docs \cup {NoDoc}, seen : Row]]
  /\ ocr \in [Docs -> [phase : {"none", "queued", "running", "done", "failed",
                                "lost"},
                       tries : 0 .. MaxRetries, seen : Status]]

Init ==
  /\ table = [d \in Docs |-> "absent"]
  /\ row = [d \in Docs |-> Blank]
  /\ trail = [d \in Docs |-> NewTrail]
  /\ session = [s \in Sessions |-> Idle]
  /\ ocr = [d \in Docs |-> NoTask]

-----------------------------------------------------------------------------
(***************************************************************************)
(* The flush of SQLAlchemy: a column is part of the UPDATE only if its     *)
(* value is not the one that was loaded.                                   *)
(***************************************************************************)
Pick(cur, seen, new) == IF new = seen THEN cur ELSE new

Flush(cur, seen, new) ==
  [status    |-> Pick(cur.status, seen.status, new.status),
   direction |-> Pick(cur.direction, seen.direction, new.direction),
   assignee  |-> Pick(cur.assignee, seen.assignee, new.assignee),
   dated     |-> Pick(cur.dated, seen.dated, new.dated)]

(***************************************************************************)
(* Commit of session s: the UPDATE and the INSERT go through together, or, *)
(* when the row is gone, fail together (stale row, or broken foreign key). *)
(***************************************************************************)
Commit(s, newRow, newTrail) ==
  LET d == session[s].doc IN
  /\ session' = [session EXCEPT ![s] = Idle]
  /\ IF Present(d)
       THEN /\ row' = [row EXCEPT ![d] = newRow]
            /\ trail' = [trail EXCEPT ![d] = newTrail]
       ELSE UNCHANGED <<row, trail>>
  /\ UNCHANGED <<table, ocr>>

-----------------------------------------------------------------------------
(* The handlers *)

\* The SELECT every handler starts with; 404 if the row is not there.
Open(s, d) ==
  /\ ~Busy(s)
  /\ Present(d)
  /\ session' = [session EXCEPT ![s] = [doc |-> d, seen |-> row[d]]]
  /\ UNCHANGED <<table, row, trail, ocr>>

\* 400 and 403 answers, a request that dies with its worker, and every call
\* of POST /mail/{id}/executive-archive: it builds its history row with the
\* name WorkflowHistory, which the import of the schema of that name has
\* rebound, so validation raises before the commit (MailDesk follows it).
Refuse(s) ==
  /\ Busy(s)
  /\ session' = [session EXCEPT ![s] = Idle]
  /\ UNCHANGED <<table, row, trail, ocr>>

\* Mutants: an archive that is not dated; a restore that keeps the date.
MovedUndated(cur, seen, e, who) ==
  Flush(cur, seen, [seen EXCEPT !.status = e.to,
                                !.assignee = IF who = NoUser THEN @ ELSE who])

MovedKeepingDate(cur, seen, e, who) ==
  [MovedUndated(cur, seen, e, who) EXCEPT
     !.dated = IF e.to = "archived" THEN TRUE ELSE @]

\* The row after the engine applied edge e on what the session had read.  An
\* archive always writes a new date.
Moved(cur, seen, e, who) ==
  LET new == [seen EXCEPT
                !.status = e.to,
                !.assignee = IF who = NoUser THEN @ ELSE who,
                !.dated = IF e.to = "archived" THEN TRUE
                          ELSE IF seen.status = "archived" THEN FALSE ELSE @]
  IN  [Flush(cur, seen, new) EXCEPT !.dated = IF e.to = "archived" THEN TRUE ELSE @]

\* Mutant: old_status is read after the engine has moved the document.
ApplyReadingLate(s, e, who) ==
  LET d == session[s].doc IN
  Commit(s, Moved(row[d], session[s].seen, e, who),
            Logged(trail[d], e.to, e.to, e.to))

Apply(s, e, who) ==
  LET d == session[s].doc
      seen == session[s].seen
  IN  Commit(s, Moved(row[d], seen, e, who),
                Logged(trail[d], seen.status, e.to, e.to))

\* Mutant: the engine looks the action up without regard to the direction.
TransitionOfAnyDirection(s, who) ==
  /\ Busy(s)
  /\ \E dir \in Direction : \E e \in Edges(dir, session[s].seen.status) :
       /\ RequiresAssignee(e.action) => who # NoUser
       /\ Apply(s, e, who)

\* POST /mail/{id}/transition
Transition(s, who) ==
  /\ Busy(s)
  /\ \E e \in Edges(session[s].seen.direction, session[s].seen.status) :
       /\ RequiresAssignee(e.action) => who # NoUser
       /\ Apply(s, e, who)

\* POST /mail/{id}/assign: the assign transition if the engine offers it to
\* the user, else the assignee alone with a row that starts and ends at the
\* status that was read.
Assign(s, who) ==
  LET d == session[s].doc
      seen == session[s].seen
  IN
  /\ Busy(s)
  /\ who # NoUser
  /\ \/ \E e \in Edges(seen.direction, seen.status) :
          e.action = "assign" /\ Apply(s, e, who)
     \/ Commit(s, Flush(row[d], seen, [seen EXCEPT !.assignee = who]),
                  Logged(trail[d], seen.status, seen.status, trail[d].moved))

\* Mutant: another direction starts the document again.
UpdateRestarting(s, dir, who) ==
  LET d == session[s].doc
      seen == session[s].seen
      new == [seen EXCEPT !.direction = dir, !.assignee = who,
                          !.status = IF dir = seen.direction THEN @ ELSE "received"]
  IN
  /\ Busy(s)
  /\ Commit(s, Flush(row[d], seen, new), trail[d])

\* PUT /mail/{id}: any direction and any assignee, whatever the status; no
\* history row.
Update(s, dir, who) ==
  LET d == session[s].doc
      seen == session[s].seen
      new == [seen EXCEPT !.direction = dir, !.assignee = who]
  IN
  /\ Busy(s)
  /\ Commit(s, Flush(row[d], seen, new), trail[d])

\* DELETE /mail/{id}, bulk-delete, or the approval of a deletion request.
\* MailDeletion shows the steps of the purge and how it may fail.
Purge(s) ==
  LET d == session[s].doc IN
  /\ Busy(s)
  /\ Present(d)
  /\ table' = [table EXCEPT ![d] = "purged"]
  /\ row' = [row EXCEPT ![d] = Blank]
  /\ trail' = [trail EXCEPT ![d] = NewTrail]
  /\ session' = [session EXCEPT ![s] = Idle]
  /\ UNCHANGED ocr

\* POST /mail/upload commits the row, then queues the OCR task, or dies before
\* it does.  With the broker down it runs the OCR in its own process: that
\* starts a second event loop inside the handler's, which raises at once, and
\* nothing tries again.
Upload(d, dir) ==
  /\ table[d] = "absent"
  /\ table' = [table EXCEPT ![d] = "present"]
  /\ row' = [row EXCEPT ![d] = NewRow(dir)]
  /\ trail' = [trail EXCEPT ![d] = NewTrail]
  /\ \E phase \in {"queued", "failed", "lost"} :
       ocr' = [ocr EXCEPT ![d] = [NoTask EXCEPT !.phase = phase]]
  /\ UNCHANGED session

-----------------------------------------------------------------------------
(* The OCR task *)

Ended(phase) == [phase |-> phase, tries |-> 0, seen |-> "received"]

\* Mutants: retries that are not counted, and not limited.
RetriedUncounted(task) ==
  [phase |-> "queued", tries |-> task.tries, seen |-> "received"]

RetriedUnlimited(task) ==
  [phase |-> "queued", tries |-> task.tries + 1, seen |-> "received"]

\* What follows an exception in the task: another attempt, or none.
Retried(task) ==
  IF task.tries < MaxRetries
    THEN [phase |-> "queued", tries |-> task.tries + 1, seen |-> "received"]
    ELSE Ended("failed")

\* A worker takes the task and loads the document.
OcrStart(d) ==
  /\ ocr[d].phase = "queued"
  /\ ocr' = [ocr EXCEPT ![d] =
               IF Present(d) THEN [@ EXCEPT !.phase = "running",
                                            !.seen = row[d].status]
                             ELSE Retried(@)]
  /\ UNCHANGED <<table, row, trail, session>>

\* The text is recognised and stored.  If a keyword hits a routing rule the
\* status becomes in_treatment, whatever it is by now; without history row.
OcrFinish(d) ==
  /\ ocr[d].phase = "running"
  /\ Present(d)
  /\ \E hit \in KeywordHits :
       row' = [row EXCEPT ![d].status =
                 IF hit THEN Pick(@, ocr[d].seen, "in_treatment") ELSE @]
  /\ ocr' = [ocr EXCEPT ![d] = Ended("done")]
  /\ UNCHANGED <<table, trail, session>>

\* Unreadable file, failing OCR, time limit, or the row purged meanwhile.
OcrFail(d) ==
  /\ ocr[d].phase = "running"
  /\ ocr' = [ocr EXCEPT ![d] = Retried(@)]
  /\ UNCHANGED <<table, row, trail, session>>

\* The worker is killed: the message was acknowledged when it was taken.
OcrLost(d) ==
  /\ ocr[d].phase = "running"
  /\ ocr' = [ocr EXCEPT ![d] = Ended("lost")]
  /\ UNCHANGED <<table, row, trail, session>>

-----------------------------------------------------------------------------
Handler(s) ==
  \/ \E d \in Docs : Open(s, d)
  \/ Refuse(s)
  \/ \E who \in Users \cup {NoUser} : Transition(s, who)
  \/ \E who \in Users : Assign(s, who)
  \/ \E dir \in Direction, who \in Users \cup {NoUser} : Update(s, dir, who)
  \/ Purge(s)

OcrTask(d) == OcrStart(d) \/ OcrFinish(d) \/ OcrFail(d) \/ OcrLost(d)

Next ==
  \/ \E s \in Sessions : Handler(s)
  \/ \E d \in Docs, dir \in Direction : Upload(d, dir)
  \/ \E d \in Docs : OcrTask(d)

Spec == Init /\ [][Next]_vars

(***************************************************************************)
(* The Celery worker keeps taking queued tasks, and a started task ends:   *)
(* task_time_limit kills it at the latest.                                 *)
(***************************************************************************)
Fairness ==
  \A d \in Docs :
    /\ WF_vars(OcrStart(d))
    /\ WF_vars(OcrFinish(d) \/ OcrFail(d) \/ OcrLost(d))

FairSpec == Spec /\ Fairness

-----------------------------------------------------------------------------
(* Properties that hold whatever the interleaving *)

(***************************************************************************)
(* An archived document has its archiving date: no race of transitions,    *)
(* edits and OCR routing clears archived_at under an archived status, for  *)
(* the date is cleared only by an UPDATE that moves the status as well.    *)
(***************************************************************************)
ArchivedHasDate ==
  \A d \in Docs : row[d].status = "archived" => row[d].dated

(***************************************************************************)
(* The status is always the one the last transition of the history led to, *)
(* except where OCR routing overrode it.  Two racing transitions leave two *)
(* rows but never a status that neither of them wrote, and an edit or a    *)
(* plain assignment that races with a transition does not undo it.         *)
(***************************************************************************)
Routed(d) == ocr[d].phase = "done" /\ row[d].status = "in_treatment"

HistoryExplainsStatus ==
  \A d \in Docs : Present(d) =>
    row[d].status = trail[d].moved \/ Routed(d)

(***************************************************************************)
(* A queued OCR task comes to an end: recognised, given up after the       *)
(* retries, or lost with its worker.  It is not retried for ever, not even *)
(* when its document is purged in between.                                 *)
(***************************************************************************)
OcrSettles ==
  \A d \in Docs : ocr[d].phase = "queued" ~> ocr[d].phase \in {"done", "failed", "lost"}

-----------------------------------------------------------------------------
(* Properties of one uvicorn process, where no document is routed by OCR *)

(***************************************************************************)
(* archived_at is set exactly while the document is archived.              *)
(***************************************************************************)
ArchivedIffDated ==
  \A d \in Docs : row[d].dated <=> row[d].status = "archived"

(***************************************************************************)
(* The history is one unbroken chain that ends at the current status.      *)
(***************************************************************************)
LinkedHistory ==
  \A d \in Docs : Present(d) => trail[d].linked /\ trail[d].last = row[d].status

(***************************************************************************)
(* A status changes along an edge that the engine offers for it and for no *)
(* other reason ("Transition non autorisée ou action inconnue" otherwise). *)
(***************************************************************************)
Moves(d) == row'[d].status # row[d].status /\ Present(d) /\ table'[d] = "present"

StatusMovesAlongEdges ==
  [][\A d \in Docs : Moves(d) =>
       \E e \in Edges(row[d].direction, row[d].status) : e.to = row'[d].status]_vars

(***************************************************************************)
(* The handlers implement MailLifecycle: SELECT, decision and commit look  *)
(* like one step that moves the document and its history together.         *)
(***************************************************************************)
View(d) ==
  [place |-> table[d], status |-> row[d].status, direction |-> row[d].direction,
   recorded |-> trail[d].last, dated |-> row[d].dated]

Lifecycle == INSTANCE MailLifecycle WITH docs <- [d \in Docs |-> View(d)]

ImplementsLifecycle == Lifecycle!Spec
=============================================================================
