# GECOR, verified

GECOR manages the mail and the appointments of an institution: a FastAPI
backend on PostgreSQL, Celery workers for OCR and scheduled tasks, Redis between
them, files in local or S3 storage, and a React frontend. This directory holds
TLA+ models of the backend (`src/backend/app`) and of the one part of the
frontend that must agree with it, the TLC configurations that check them on
small instances, and proofs for TLAPS.

    tlc -config MailWorkflowRaces.cfg MCMailWorkflow.tla
    tlapm MailWorkflowProofs.tla

`PROJECT.json` is the index: the parts of the system and the modules that model
them, the runs, the mutations of the model each property is able to tell from
it, the source lines of every definition, the hazards, and the theorems.

## The system

Two facts of the deployment shape all models of the backend. `deploy/gecor-gunicorn.service.example`
runs four Gunicorn workers, `docker-compose.yml` one uvicorn process; Celery
workers run beside either. And every request has a database session of its own
(`core/database.py`, autoflush off, READ COMMITTED), in which no handler locks a
row or compares a version. A handler is therefore a SELECT, a decision, and a
commit, between which anybody else may commit; what is written is an UPDATE of
the columns whose value changed, as SQLAlchemy's unit of work does it.

| Part | State | Operations | Hard behaviour | Correct when |
|---|---|---|---|---|
| mail workflow engine (`mail_workflow_engine.py`, `permissions.py`, three migrations) | definitions in the database, a fallback table in the code | which transitions a user is offered; apply one | two tables kept apart, mixed per status | the tables agree; nobody but the hierarchy decides; no dead ends |
| mail documents (`mail.py`, `workflow_service.py`) | `mail_documents`, `workflow_history` | upload, transition, assign, edit, executive archive, delete | lost updates between workers | status, history and archiving date agree |
| OCR (`ocr_tasks.py`) | Celery task | recognise, route to a department | runs late, is retried, lost, times out | it ends; it breaks no agreement of the above |
| deletion and storage (`deletion_requests.py`, `mail_purge_service.py`, `signatures.py`, `storage_service.py`) | `deletion_requests`, `signatures`, files | request, approve, reject, purge, bulk delete | files leave before the transaction; row locks | an approved document is gone, rows and files agree |
| appointments (`appointments.py`, `public.py`, `calendar_service.py`, the cancellation, archive and purge services) | `appointments`, events in Google calendars | book, propose, validate, confirm, complete, cancel, archive, remove, edit; free slots | awaits between read and commit; events leave before the transaction | no double booking; calendar and rows agree |
| passwords (`auth.py`, `users.py`, the hourly task) | users, challenges, reset requests | change, forget, reset, decide | expiring, replaced, single-use codes; commits apart from notifications | a code counts once; the masters hear of each request |
| sessions (`auth.py`) | refresh tokens | login, MFA, refresh, Google | two requests with one token | not modelled |
| notifications (`event_notifications.py`, `notification_sse_hub.py`, `NotificationBell.tsx`) | rows, queues in one process, the list of a tab | emit, subscribe, receive, fetch, poll, mark read | bounded queues, several processes, answers that cross | no tab shows what is not stored or goes back; each catches up |
| scheduled tasks (`notification_tasks.py`, `workflow_service.py`) | flags and dates in rows | reminders, overdue alerts, password reminders | late, crossing, lost and dying runs | each reminder once and in time |
| users and roles, service levels, audit, dashboard, console, HTTP shell, the rest of the frontend | | | | see `PROJECT.json`, "components" |

The parts interact through the database: a transition notifies after its
commit, an upload enqueues OCR after its commit, an approved deletion request
purges a document or cancels an appointment, the purge removes signatures and
files. The hub and its streams are the one place where state is shared in
memory, within a process; and the beat starts the scheduled tasks on the same
rows the requests write. No part calls another one back, except that the OCR
task applies the routing of `workflow_service.py`.

## The modules

| Module | Models | Interleaving |
|---|---|---|
| `MailTransitions` | the two transition tables and permissions, as data and pure operators | |
| `MailDesk` | one document in the hands of users of all shipped roles | one request at a time |
| `MailWorkflow` | the handlers of mail documents and the OCR task | sessions between SELECT and commit |
| `MailLifecycle` | the abstract specification of the same | |
| `MailDeletion` | deletion requests, purge, files, signatures, row locks | sessions between two statements |
| `Calendar` | when two slots conflict (`check_conflicts`) | |
| `CalendarSlots` | the free slots of a day (`get_available_slots`) | |
| `Appointments` | the appointments of a host and the host's Google calendar | sessions between read, await and commit |
| `NotificationFeed` | what the bell promises: the abstract specification of the next | |
| `NotificationHub` | notifications from the row through queues and streams to the list of a tab | processes, streams, fetches, timers |
| `ScheduledTasks` | reminders of appointments and alerts on overdue documents | worker processes between two commits, time |
| `Passwords` | challenges, change and reset of a password, requests to the masters, the hourly reminder | handlers between read and commit, the task |
| `MCMailWorkflow`, `MCScheduledTasks` | values and symmetry for TLC | |
| `MCMailDeletion`, `MCAppointments` | the same, and a history variable `calm` | |
| `MailDeskProofs`, `MailWorkflowProofs`, `MailDeletionProofs`, `CalendarProofs`, `AppointmentsProofs`, `NotificationHubProofs`, `ScheduledTasksProofs`, `PasswordsProofs` | theorems | |

`calm` is true as long as each request ended before the next one came, none
died and Google answered. A property that no code protects from two requests at
once is stated `calm => ...`: it then speaks of all sequences of requests in the
same run that has the interleavings and the failures, and of nothing after the
first of those.

### How state and actions correspond to the code

*MailTransitions.* An edge is a transition of the seed or of the fallback table.
`Transitions(definition, direction, status)` is `list_available_transitions`: the
stored edges for the status if there are any, else the fallback ones, and
`UserMay` is the permission test with the default roles. `StoredEdges` is what
the three migrations leave together, each applied to what the one before left.

*MailDesk* composes these with what a request of one role may do. History
variables (`hands`, `redirected`, `last`) record who acted.

*MailWorkflow.* `row[d]` holds the four columns guards read: status, direction,
assignee, and whether `archived_at` is set. `trail[d]` abstracts the rows of
`workflow_history` to the last status on record, the last one a transition
wrote, and whether each row starts where the one before ended. `session[s]` is
what a request has read; `Open` is the SELECT, `Transition`, `Assign`, `Update`
and `Purge` decide on `session[s].seen` and commit through `Flush`, which writes
only what changed. `ocr[d]` is the task: queued, running with the status it
read, done, failed, lost, with the number of retries. One session stands for the
single uvicorn process, whose mail handlers do not await between SELECT and
commit; several for Gunicorn.

*MailLifecycle* is the promise: a document is registered once, moves along the
edges of its direction with each move on record and each archiving dated, may be
redirected or removed. `MailWorkflow!Lifecycle` instantiates it with a view of
rows and history.

*MailDeletion.* A step is what a request does between two points where another
worker may run: `Unlink` removes the files of a document and its signatures,
`FlushRows` deletes the rows, which stay locked (`cut`) until `CommitPurge`.
`purge_mail_document` passes over whatever `delete_file` raises: `Unlink` lets
storage keep any of the files it is asked to delete, and the rows go all the
same. `refused` is history, the files that were kept, and `Wanted` those that
nobody has asked storage in vain to delete. The loop over a document's versions
(`mail_purge_service.py:28`) is not modelled: no code creates a version.
A request that is `Blocked` by a lock waits; PostgreSQL breaks a cycle
(`DeadlockVictim`). `Fail` rolls back the rows and not the files. With
`MayFail` any request may die in between. Deleting a row that is gone is only a
warning in SQLAlchemy; a signature inserted in between breaks the foreign key.

*Appointments.* `row[a]` holds status, slot, proposed slot, archiving and the
Google event id. A request is a record that goes from its decision through
`strip` (awaiting Google's deletion, if the row had an event) to its commit, and
for confirm and PUT through a second read (`Reload`) and `CreateEvent` to
`StoreEvent`. `live[a]` is what is in the calendar. The model lets Google refuse
(`Outage`) and requests die (`MayFail`); deleting an event that is gone is an
error, after which the code keeps its id. `edited` and `hurt` are history: what
PUT did around the workflow, and which requests died between Google's deletion
and the commit. Routes that do the same to the row share an action (cancel,
DELETE, bulk cancel, refusal by the hierarchy); a bulk request is taken as
several requests, while the code commits it once at its end.

*NotificationHub.* `rows` and `shown[t]` are the stored list and the one of tab
t: a notification is absent, unread or read. `emit_in_app` takes the time of
creation when it flushes (`Insert`) and makes the row visible when it commits
(`Store`), so that rows can appear out of that order; `upto[n]` is what was
created no later than n. A list holds the newest `Limit` rows in it (`Newest`;
the bell asks for 40): `Before(f, n)` is what it puts before n. Times of
creation are taken to differ. `Publish` copies the subscribers of the emitting process under
the hub's lock, and `Put` fills their queues one by one, outside of it: when a
queue is full, `get_nowait` and the second `put_nowait` (`PutAgain`) are two
steps between which streams and other publishers use the queue. `Crash` ends a
process with its streams. On the side of the tab, `Greet` and `Receive`
invalidate the query (`Refetch`, which is what TanStack Query makes of it: a
fetch under way is dropped, but the first one of all is joined), `Answer` reads
the rows and `Show` displays them, so that an answer may be overtaken. `missed`
is history: a fetch failed or an event was spent on a fetch already answered.
Celery processes emit but serve no stream.

*ScheduledTasks.* `queue[k]` counts the runs of task k that wait in the broker;
a worker `Takes` one, which forgets it (late acknowledgement is off). Time goes
by half hours. A run reads the clock when it executes, some time after its
instant, so that its window (`InWindow`) begins after half past eight, which it
misses, and ends after half past nine, which it has. A run of
the reminders selects, then for each appointment commits a notification row
(`Record`, with which the flag of the appointment before is committed), sends
the mail (`Send`, `Refused`) and sets the flag in its session (`sent`). The
check of deadlines commits all marks (`MarkOverdue`) before the first `Alert`.
`Tick` moves time to the next instant and lets the beat queue what is due.
`owed`, `crossed` and `lost` are history: whom the run of the day owes a
reminder, which tasks ran twice at once, what a run died with.

*Passwords.* One account. A challenge is forgotten or changed password, met by a
mailed code or by the authenticator, open or consumed, expired or not. A start
consumes (a commit of its own), inserts, then mails, and consumes again if the
mail fails. `Verify`, `Complete`, `AdminReset` and `Resolve` are what a handler
reads; `MakeRequest`, `Change`, `Reset` and `Decide` are its commits, which
write only changed columns (`Written`); `Notify` comes after the commit. The
hourly task commits `last_master_reminder_at` (`Mark`) before it notifies
(`Emit`). Expiry, the second factor being switched on or off, and the death of
handlers and task come in between.

*Calendar, CalendarSlots.* Times are integers. `Conflict` is the condition of
the query. A call of `get_available_slots` reads the day (`Query`), goes round
its loop once for each appointment (`Pass`) and looks at what remains of the day
(`Finish`). The query orders by the start alone, so the model passes
appointments that start together in either order. Nothing checks the duration
that is asked for; the properties are about positive ones.

## The runs

| Run | Instance | Shows |
|---|---|---|
| MailDesk | one document, all shipped roles, with and without stored definitions | TypeOK; `OnlyHierarchyDecides`: no chain of clerks, redirections and OCR approves, rejects, closes or archives; `ClerksCanWork`: everything else needs no director; `SeedMatchesFallback`: the tables agree; `ArchiveReachable`: no dead end, at worst after one more redirection |
| MailWorkflowRaces | 1 document, 1 user, 2 sessions, OCR, fallback table, routing on | TypeOK; `ArchivedHasDate`; `HistoryExplainsStatus`: these survive every race |
| MailWorkflowSerial | 1 session, stored definitions, no routing, fair OCR | `ArchivedIffDated`; `LinkedHistory`: the history is a chain; `StatusMovesAlongEdges`; `ImplementsLifecycle`: refinement; `OcrSettles`: every queued task ends |
| MailDeletion | 2 documents, 1 signature, 2 requests, 2 sessions that may die, storage that refuses | TypeOK; `ApprovedMeansGone`; `PurgedLeavesRefused`: a document that is gone leaves no signature row, and its file only if storage refused to delete it; `CalmStorage`: while calm, files and rows agree between requests, refused files apart; `PurgesEnd`, crossed bulk deletions included |
| CalendarSlots | agendas of up to 3 appointments over 6 hours, a day of 3 hours, durations 1 and 2 | `ConflictMeansOverlap`: the three conditions against the definition of overlap; `OfferedSlotsAreBookable`; `OneOfferPerGap`: the offer is exactly the long enough gaps, in whatever order ties are passed |
| Appointments | 2 appointments, 2 slots, 2 sessions that may die, Google may refuse | TypeOK; `StoredEventLives`: a stored event id names a living event, but for the window between Google's deletion and the commit; while calm `CalmBookings`: no double booking but through PUT, `CalmCalendar`: no orphans, nothing left of what is archived or removed, an event for each confirmed visit, `CalmOutcomes`: only PUT changes a final status |
| NotificationHub | 2 notifications, lists of 1, 1 tab, 2 API processes and Celery, queues of 1 | TypeOK (queues stay bounded); `NoLostWakeup`: dropping events of full queues loses nobody's wakeup; `ImplementsFeed`: refinement, no list goes back; `CatchesUp`: a visible tab ends up with the newest of what is stored |
| ScheduledTasks | 2 appointments, 1 document, 2 worker processes, two days | TypeOK; `RemindedInTime`; `RemindedOnce`; `FlagMeansMailed`; `AlertedOnce`; `OverdueIsAlerted`: each with the exceptions the code has (late, crossing, dying runs), which the properties name |
| Passwords | 1 account, 2 passwords, 2 challenges, 1 request, 1 handler and the hourly task | TypeOK; `LatestCodeOnly`; `CodesCountOnce`: no code makes two requests or two changes, nor after its replacement; `PendingIsTold`: the masters hear of every request that stays pending |

Three runs end in a violation, each of a sentence of the repository:

| Run | Refutes | By |
|---|---|---|
| MailDeskExecutive | "Archivage direct par la direction" (`mail.py:477`) | the handler builds its history row with the schema of that name, whose validation raises |
| AppointmentsConfirm | "vérif. disponibilité, détection conflits" (`permissions.py:43`) | confirming takes the appointment back to the proposed slot with no check |
| ScheduledTasksNextDay | "Envoie un rappel pour les RDV J+1" (`architecture.md:122`) | the run at nine selects what starts within half an hour of nine on the next day |

### Bounds

One document suffices for the mail workflow: no handler but the purge looks at
two, and that is MailDeletion's subject. Two sessions are enough for lost
updates and crossed locks: the properties speak of one row and its last writers,
and each bad order found (by the violation runs, and by the mutations) needs
two. Two documents make crossed bulk deletions. `MaxRetries` is the code's own 3
in the serial run; with two sessions 1 retry suffices, since a retried task has
forgotten what it read. Agendas of three have two neighbours around a gap and
one that contains another. The slots of Appointments touch; those of AppointmentsConfirm
are one within another and one that only touches. `MaxEvents`
bounds the events of an appointment; `EventsLeft` holds back requests that would
need one more than that, never one that the row's own event serves. `Edits` is
the status PUT gives besides the present one: one that blocks the host's time
and has an event. In MCAppointments the two regimes have their own size: while
it is calm two appointments share two slots with one event each (double booking
is a relation of two rows), and afterwards one appointment has two events in one
slot (races are about one row). In MCMailDeletion the second deletion request is
made only while it is calm, and at any time one file at most is refused and
still there (`BoundedNext`).

One queue place is the smallest `Capacity`, and the one that is full most often;
two notifications and two API processes give every order of a put, an eviction
and a take, and an event from the other process. A put that finds the queue full
again after its eviction takes a third notification; it is not in this run and
is covered by the proof of `NoLostWakeup`. Lists of one are the shortest there
can be: the second notification pushes the first one out, whichever of the two
is committed first. One tab, because tabs meet only
in the rows, and read-marks of other tabs are those of the same tab whose answer
is lost. The `Instants` of ScheduledTasks are, in half hours from a midnight, 0,
9:00 and 10:00 of the first day and of the next, and 9:00 of the one after: two runs of the reminders can wait at once, the checks every two hours
come beside them. `Starts` has 8:30 and 9:30 of the second day, the ends of the
window of the first run of which only the later is inside, and 9:00 of the
third; `MaxMails` of 2 is one mail too many. Passwords has one handler at a time because with two its
properties fail (below); two challenges suffice to replace one, and the second
password to see a change.

Symmetry is used where no temporal property is checked that it could disturb:
sessions, users, workers and appointments are interchangeable.

Deadlock is checked where the system goes on for ever (MailDesk, MailDeletion,
CalendarSlots, NotificationHub, Passwords). In the other instances documents,
appointments or time run out.

### Fairness

`MailWorkflow!Fairness`: weak fairness of starting a queued task and of ending a
running one. Celery workers poll the queue, and `celery_app.py` limits a task's
time, so that one that hangs is ended (as `OcrLost`). Nothing is assumed about
requests: users need not act.

`MCMailDeletion!Fairness`: strong fairness of each session's next step once a
request is under way, because a request that waits for a row lock is served by
PostgreSQL when the lock is free, in the order of arrival, although others may
take locks in between; and weak fairness of the deadlock detection, which runs
after `deadlock_timeout`.

`NotificationHub!FairHub`: weak fairness of polling, which is a timer of a
visible tab, and strong fairness of a fetch being answered and shown, for the
network does not fail for ever. Nothing is assumed of streams, events or
emitters: `CatchesUp` holds if all of them are lost.

`Passwords!Hourly`: hours pass and the beat starts the reminder (weak); its
commit and each of its notifications succeed some time if they are tried again
and again (strong), although any single run may die. `PendingIsTold` presumes
that there is an active master: `user_ids_masters` is empty otherwise, and
nobody is notified.

## The proofs

The assumptions are those named in the modules: that no document is called
NoDoc (`IdsAssumption`), that stored edges lead somewhere else
(`DefinitionsAssumption`), that times are integers (`TimesAssumption`,
`ScheduledAssumption`), that slots and the statuses PUT gives are of their types
(`AppointmentsAssumption`), that queues have a place (`HubAssumption`), that
lists have one and notifications are finitely many (`FeedAssumption`), and that
the names of nothing are nobody's (`NoneAssumption`, `PasswordsAssumption`).
Nothing else is assumed about the number of documents, users, appointments,
notifications, tabs, workers or sessions.

*MailWorkflowProofs.* `TypeCorrect`, `ArchivedAlwaysDated` and
`HistoryAlwaysExplains` hold for any number of documents and sessions. The
inductive invariant is `Safe`, the conjunction of the three. The types are
needed because every commit merges three records. The argument for the two
others is in two lemmas about `Flush`: a commit either carries the status of its
transition together with its history row and its date (`MovedCarriesStatus`),
or leaves status and date alone, whatever it had read (`FlushKeepsStatus`).
That is why an invariant about the rows alone is inductive, although sessions
hold stale reads: nothing is said about what they have seen.

With at most one session and no routing, the handlers implement `MailLifecycle`
(`SerialImplementsLifecycle`), the history is a chain that ends at the status
(`SerialHistoryLinked`), and the archiving date is there exactly while the
document is archived (`SerialArchivedIffDated`). Here stale reads matter: the
inductive invariant `SerialInv` adds that what the session has seen is the
current row (`SeenIsCurrent`) and that nothing is left of documents that are
not in the table (`NothingLeft`, since the view of a removed document must be
the abstract one). Each step maps to `Register`, `Move`, `Redirect`, `Remove`
or to a stutter. `SerialStatusMoves` has the same hypothesis: the edge a handler
found from the status it had seen is an edge from the status the row has
(`MoveAlongEdge`), whatever definitions are stored. With routing it would not
hold: the OCR task may route a document between a handler's SELECT and its
commit, and the commit then leaves a status the handler never saw.

*MailDeskProofs.* All five invariants of the desk. The state space is finite and
TLC visits all of it; what the proofs add is the reason. Everything rests on
`EngineOffers`: the stored definition and the fallback table offer the same in
every direction and status, hence `SeedAlwaysMatches`, and one table is left to
look at. `OnlyHierarchyEverDecides` follows from the edges into a decided status
(`WaysToDecided`) and from who holds the permission to use them
(`DeciderIsHierarchy`). `ArchiveAlwaysReachable` is not inductive by itself: a
document must be known to keep to the path of its direction until it is
redirected (`KeepsToPath`), and the property's "edges lead to" is bounded by the
table's length (`Within8`, `Within4`).

*CalendarProofs.* `ConflictsAreOverlaps`: the query's three conditions are the
overlap of slots, for all integer times; it misses no overlap even of slots that
end before they start. `OffersAreTheGaps`: for any agenda of proper
appointments, any day and any positive duration the slots offered are the long
enough gaps, each once. It rests on the invariant of the loop, `PassInv`: the
time the pass has come to is where a gap may start, no appointment passed lasts
longer, and what is found are the gaps before that time. One round finds the
one gap there can be before the next appointment (`RoundFindsGap`): whatever is
still to pass starts later and so ends later. `OffersCanBeBooked` follows, with
the two exceptions its hypotheses name.

*AppointmentsProofs.* `StoredEventAlwaysLives`, with any number of requests
between their read, Google's answers and their commit, and Google free to
refuse. The invariant of the rows alone is not inductive: a request that awaits
Google remembers event ids, and could delete an event after another request has
stored its id. `IInv` says why none does. A row that is not in the table has no
event (`OnlyPresentHave`). A request that has yet to commit holds no new event,
and changes the id it read only to none, after Google's deletion
(`RequestsKnow`). The id of an event just created, in the calendar and not yet
in the row, is known to no other request, neither as the one it read nor as one
it created (`NewEventsUnknown`); that rests on Google giving a new event an id
that nobody holds (`FreshIs`).

`CalmBooksOnce`, `CalmCalendarMirrors` and `CalmOutcomesStand` are about requests
that follow each other. `BookedOnce` is not inductive: a confirmation takes the
appointment to its proposed slot without a check, which is harmless only as long
as that slot is the one the appointment has and has kept others off
(`ProposalsStand`, the reason why PUT, which moves one without the other, is the
exception). What a handler decided is `Sound`: it fits among the rows it was
taken on, and says what becomes of the event. `Own` says, for a request that is
alone, that those rows are still there, and how far calendar and row are apart
at each of its steps; `SoundWrite` that a sound decision, written, leaves the
rows in order. The same lemmas give more for one session: `SerialBooksOnce` and
`SerialOutcomesStand` hold whatever Google answers and however often the worker
dies. Double bookings and revived appointments come of crossing requests and of
PUT, never of failures.

*MailDeletionProofs.* `ApprovedAlwaysGone` and `PurgedLeavesOnlyRefused`, for any
number of sessions, whatever crosses, dies or is refused. That an approved document is gone
rests on what an approval under way still has before it: its document is to be
purged, or its row is deleted in the open transaction, or somebody else has
purged it (`ApprovalsKnow`); hence the commit that writes "approved" deletes
the row or finds it deleted. That a purged document leaves at most what storage
refused to delete rests on `PurgesKnow`: between the unlinking and the commit a
deleted file does not come back, because a file comes only with an upload, an upload alone brings its document
(`UploadsKnow`), and a document whose files a purge unlinks has its row.

`CalmStorageMatches` and `SerialStorageMatches` are about requests that follow
each other and do not die, and about `Wanted`: no file is missing, and those
that are left over are those storage refused to delete. Between two steps of a request storage and tables do
differ, and the invariant `Quiet` says by what: by the file the only request at
work has written and not yet recorded, and by those it has unlinked and whose
rows it has yet to delete (`OnlyOwnChanges`). That a purge unlinks every file of
its documents needs that the signatures it has read are all there are
(`PurgingKnows`).

*NotificationHubProofs.* For lists and queues of any length. `WakeupsKept` is
inductive with the types, with `CreatedFirst` (what has a row was created, and
stored by its emitter), with `OpenIsServed` and with `ListsLag`: a list on its
way is that of rows which lie between what is shown and what is stored. Two
cases matter. At an eviction, a publisher that has made room and has not put its
event is itself the wakeup. When a list is shown, a notification that was in the
list before and is among the newest rows now was among the newest rows the
answer saw, for there were no more of them (`ListedEarlier`, which counts them).
`HubImplementsFeed` rests on `ListsLag` as well, by which `Show` is a `Refresh`;
`Insert` is a `Create`, `Store` a `Post`, and all else a `MarkRead` or a stutter.

*ScheduledTasksProofs.* Type correctness and all five safety properties.
`FlagsMeanMails` and the alerts (`AlertsOnce`, `OverdueMeansAlerted`) need what
a run has sent or marked so far (`FlagInv`, `Marked`, `Untold`). `RemindersOnce`
needs that, while no two runs cross, nobody a run has yet to write to was
written to, and who was is flagged or about to be (`OnceInv`). For `RemindersInTime`, `OwedInv` follows a
debt from the instant it arises: the run waits, or has the appointment to do,
or has written the time that still is that of the appointment. Who is owed one
is who is in the window as the run reads it, without its early end.

*PasswordsProofs.* `TypeCorrect` for any number of handlers. `OnlyLatestCode` and
`CodesOnlyOnce` assume `OneHandler`; `CInv` adds to the types that a handler
about to insert a challenge has left none of its kind open (`InsertsFirst`), and
that one which accepted a code still has it open when it commits (`HeldIsOpen`).

Every safety property of the passing runs is thus stated by a theorem, as the
run states it or, for those of MailWorkflowSerial and Passwords, under the
hypothesis its instance satisfies (one session, no routing; one handler). Only
model-checked are the liveness properties: `OcrSettles`, `PurgesEnd`,
`CatchesUp` and `PendingIsTold` rest on fairness, which these provers do not
reason about. The three violations are TLC's counterexamples, not theorems.

## What the code does otherwise than it says

Seen while reading, besides the three violation runs:

- `user-guide-fr.md:63`: the head of service submits to the direction; no
  shipped secretary has the permission either (`permissions.py:123`).
- `user-guide-fr.md:68`: each transition writes a history row; OCR routing sets
  the status without one (`workflow_service.py:41`).
- `recette.md:43`: archived mail is read-only; PUT changes it.
- `ocr_tasks.py:66` promises OCR in-process when the broker is down; it runs
  inside the event loop and `run_until_complete` raises, so the document is
  never recognised.
- `mail.py:571`, `deletion_requests.py:118`: with two workers two pending
  requests for one document, or a decision overwritten by another, are possible;
  the messages that exclude them hold for one request at a time.
- `architecture.md:99`: direct deletions are audited; delete and bulk delete of
  mail write no audit event.
- `deletion_requests.py:32`: the docstring names the permission, line 62
  requires a role as well.
- With several workers two bookings can both find a slot free, and a proposal
  or a validation decided before a cancellation can revive the appointment. The
  model has both behaviours; `BookedOnce` and `StandingOutcomes` are therefore
  stated for one request at a time.
- A confirmation and a cancellation that overlap can leave the event of a
  cancelled appointment in the calendar, and an event whose request died before
  `StoreEvent` is known to nobody.
- `user-guide-fr.md:109`: confirmed visits are copied to the calendar; PUT
  copies any visit, cancelled ones too.
- `architecture.md:62`: `pending_authorization` is in the workflow; no route but
  PUT leads to it.
- `appointments.py:1152`: the free slots ignore an appointment that runs into
  the working day from before its start, hence the condition `NoEarlyStart`.
- `public.py:98`: a public booking at 23h fails, for the end would be hour 24.
- `mail_workflow_engine.py:235` ("Transition non autorisée"): with two workers
  two sessions read the same status and both move the document, so that a status
  may follow another without an edge between them.
- `maintenance.md:96` ("suppression physique du fichier + ligne mail"): a purge
  that dies after unlinking leaves a listed document without its file. And one
  whose `delete_file` fails (an `OSError`, an error of S3) passes over it
  (`mail_purge_service.py:24`, `:48`), deletes the rows and reports success: the
  file stays, and no row names it any more. The model has both.
- `architecture.md:68`: reminders 24 hours ahead. The run selects a window of
  one hour around that, once a day, hence only starts after 8:30 and up to 9:30 (8:30 sharp is
  out: the clock is read after nine). A run
  that was late or lost is not made up for, a refused mail is not tried again,
  and an appointment that moves after its reminder is not reminded of anew.
- `NotificationBell.tsx:45`: hidden tabs are meant to poll every 90 seconds; the
  query library pauses the interval of a hidden tab, so they do not poll.
- "Read all" also reads notifications that the tab has not shown, and those
  beyond the 40 of the list.
- A stream subscribes its queue before its generator starts; a client that is
  gone by then leaves the queue subscribed for the life of the process.
- With two handlers at once two starts leave two open codes, and one code makes
  two requests; a replaced code that was just accepted still makes its request.
  Two masters can reset a password and have its request recorded as refused, and
  an open challenge to change the password survives a master's reset: completing
  it undoes the reset. `LatestCodeOnly` and `CodesCountOnce` are therefore
  stated for one handler at a time.

## Not modelled

Sessions and refresh tokens, login with its second factor and the Google
sign-in; web push and the delivery of mail, with a server that accepts a mail and
reports a failure; reminders for visitors who left no address and documents with
nobody to be told, which the code skips; the tasks a handler enqueues to send
one mail; reception (visitors, check-in), agendas, minutes and tasks of
appointments; the effective permissions of changed roles and service levels,
which are pure lookups. Audit writes in a session of its own and never fails its
caller. Dashboard, console, search and statistics only read. OCR recognition,
Excel and PDF exports and QR codes are computation over data no guard reads.
Outlook is off by default. Besides the bell the frontend holds no state that
must agree with the server's.

`src/poppler-25.12.0` is a binary distribution of a PDF library, with its C and
C++ headers; the program is Python and TypeScript and calls poppler's command
line tools. Those headers are the bulk of what a count of C lines finds in the
repository, no operation of GECOR is in them, and no definition here is mapped
to them: what is mapped is `src/backend/app` and `src/frontend/src`.

## Plan

The order was: mail workflow first (its tables, then its races, then its
refinement), then deletion, then calendar and appointments, the modules that
share rows with it; then what runs beside the requests (notifications, scheduled
tasks) and the codes of passwords. What is left:

1. `RefreshTokens`: rotation under concurrent refresh, logout and the change of
   the password; login with its second factor.
2. `Reception`: visitors and check-in on top of `Appointments`.
3. `EffectivePermissions` and `SlaRules`: pure operators against reference
   definitions.
4. Proofs: `WakeupsKept` and `HubImplementsFeed` for several users, when
   `NotificationHub` gets the feeds of others.
