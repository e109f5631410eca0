--------------------------- MODULE ScheduledTasks ---------------------------
(***************************************************************************)
(* What celery beat starts: every day the reminders of appointments, every *)
(* two hours the alerts on overdue documents.  Any free worker process     *)
(* takes a run that waits; the run dies with it, and nothing starts it     *)
(* anew.  Both select rows, mark them and write to people, in opposite     *)
(* orders: the flag of a reminder is committed after its mail, with the    *)
(* transaction of the next one; is_overdue is committed before the alerts. *)
(*                                                                         *)
(* Time is counted in half hours, from a midnight.                         *)
(***************************************************************************)
EXTENDS Integers, FiniteSets

CONSTANTS
  Appointments,  \* those of visitors who left an address
  Documents,     \* those with a deadline, and somebody to be told of it
  Workers,       \* the processes of the celery worker
  Instants,      \* bound: the times at which something happens
  Starts,        \* the times appointments are made for
  NoTime,
  NoOne,
  MaxMails       \* bound: how often one is written to about the same

ASSUME ScheduledAssumption ==
  /\ Instants \subseteq Nat /\ 0 \in Instants
  /\ Starts \subseteq Nat
  /\ NoTime \notin Nat
  /\ NoOne \notin Appointments
  /\ Appointments \cap Documents = {}
  /\ MaxMails \in Nat

VARIABLES
  now,
  start,      \* start_time of the appointments, NoTime before they are made
  confirmed,  \* those CONFIRMED and not archived
  flagged,    \* those with reminder_sent
  deadline,   \* the deadlines of the documents
  overdue,    \* documents with is_overdue
  queue,      \* runs that wait in the broker, by task
  at,         \* what the workers are at
  todo,       \* what they selected and did not begin with
  cur,        \* the appointment being written about
  time,       \* and the time in that mail
  sent,       \* flagged in their session, the commit is still to come
  told,       \* history: the time the visitor was last reminded of
  mails,      \* history: how often people were written to, by subject
  owed,       \* history: appointments of the next day nothing happened to since the run was due
  crossed,    \* history: tasks of which two runs were in progress at once
  lost        \* history: appointments and documents a run died with

appointments == <<start, confirmed, flagged>>
documents == <<deadline, overdue>>
jobs == <<at, todo, cur, time, sent>>
history == <<told, mails, owed, crossed, lost>>
vars == <<now, appointments, documents, queue, jobs, history>>

Day == 48
Hour == 2
Tasks == {"reminders", "deadlines"}
Subjects == Appointments \cup Documents

Running == {"record", "send", "finish"}
Checking == {"mark", "alert"}

Busy(w) == at[w] # "idle"
InRun(w) == at[w] \in Running
InCheck(w) == at[w] \in Checking
In(w, k) == IF k = "reminders" THEN InRun(w) ELSE InCheck(w)

JobsOK ==
  /\ at \in [Workers -> Running \cup Checking \cup {"idle"}]
  /\ todo \in [Workers -> SUBSET Subjects]
  /\ \A w \in Workers :
       /\ InRun(w) => todo[w] \subseteq Appointments
       /\ InCheck(w) => todo[w] \subseteq Documents
       /\ at[w] \in {"record", "send"} => cur[w] \in Appointments /\ time[w] \in Starts
  /\ cur \in [Workers -> Appointments \cup {NoOne}]
  /\ time \in [Workers -> Starts \cup {NoTime}]
  /\ sent \in [Workers -> SUBSET Appointments]

TypeOK ==
  /\ now \in Instants
  /\ start \in [Appointments -> Starts \cup {NoTime}]
  /\ confirmed \subseteq Appointments
  /\ flagged \subseteq Appointments
  /\ deadline \in [Documents -> {"to come", "past", "archived"}]
  /\ overdue \subseteq Documents
  /\ queue \in [Tasks -> Nat]
  /\ JobsOK
  /\ told \in [Appointments -> Starts \cup {NoTime}]
  /\ mails \in [Subjects -> 0 .. MaxMails]
  /\ owed \subseteq Appointments
  /\ crossed \subseteq Tasks
  /\ lost \subseteq Subjects

Init ==
  /\ now = 0
  /\ start = [a \in Appointments |-> NoTime]
  /\ confirmed = {}
  /\ flagged = {}
  /\ deadline = [d \in Documents |-> "to come"]
  /\ overdue = {}
  /\ queue = [k \in Tasks |-> 0]
  /\ at = [w \in Workers |-> "idle"]
  /\ todo = [w \in Workers |-> {}]
  /\ cur = [w \in Workers |-> NoOne]
  /\ time = [w \in Workers |-> NoTime]
  /\ sent = [w \in Workers |-> {}]
  /\ told = [a \in Appointments |-> NoTime]
  /\ mails = [x \in Subjects |-> 0]
  /\ owed = {}
  /\ crossed = {}
  /\ lost = {}

-----------------------------------------------------------------------------
(* Time and the beat *)

\* crontab(hour=9, minute=0), crontab(hour='*/2', minute=0)
Due(k, t) == IF k = "reminders" THEN t % Day = 9 * Hour ELSE t % (2 * Hour) = 0

NextDay(t) == {s \in Starts : s \div Day = t \div Day + 1}

\* Bound: time goes from one instant to the next.  If a run of the reminders still
\* waits or works then, it was late, and nobody is owed its mail.
Tick ==
  \E t \in Instants :
    /\ t > now
    /\ \A u \in Instants : u > now => t <= u
    /\ now' = t
    /\ queue' = [k \in Tasks |-> IF Due(k, t) THEN queue[k] + 1 ELSE queue[k]]
    /\ owed' = IF queue["reminders"] > 0 \/ \E w \in Workers : InRun(w) THEN {}
               ELSE IF Due("reminders", t)
                 THEN owed \cup {a \in confirmed \ flagged : start[a] \in NextDay(t)}
               ELSE owed
    /\ UNCHANGED <<appointments, documents, jobs, told, mails, crossed, lost>>

-----------------------------------------------------------------------------
(* What happens to the rows meanwhile *)

\* An appointment is confirmed, or moved.
Arrange(a, s) ==
  /\ s > now /\ start[a] # s
  /\ start' = [start EXCEPT ![a] = s]
  /\ confirmed' = confirmed \cup {a}
  /\ owed' = owed \ {a}
  /\ UNCHANGED <<now, flagged, documents, queue, jobs, told, mails, crossed, lost>>

\* It is cancelled or archived.
Withdraw(a) ==
  /\ a \in confirmed
  /\ confirmed' = confirmed \ {a}
  /\ owed' = owed \ {a}
  /\ UNCHANGED <<now, start, flagged, documents, queue, jobs, told, mails, crossed, lost>>

\* The deadline of a document passes; it is archived.
Expire(d) ==
  /\ deadline[d] = "to come"
  /\ deadline' = [deadline EXCEPT ![d] = "past"]
  /\ UNCHANGED <<now, appointments, overdue, queue, jobs, history>>

Archive(d) ==
  /\ deadline[d] # "archived"
  /\ deadline' = [deadline EXCEPT ![d] = "archived"]
  /\ UNCHANGED <<now, appointments, overdue, queue, jobs, history>>

-----------------------------------------------------------------------------
(* The workers *)

Becomes(w, step, rest, one, when, mailed) ==
  /\ at' = [at EXCEPT ![w] = step]
  /\ todo' = [todo EXCEPT ![w] = rest]
  /\ cur' = [cur EXCEPT ![w] = one]
  /\ time' = [time EXCEPT ![w] = when]
  /\ sent' = [sent EXCEPT ![w] = mailed]

Leaves(w) == Becomes(w, "idle", {}, NoOne, NoTime, {})

\* Mutant: a run is worked on twice.
TakesTwice(w, k) ==
  /\ ~Busy(w)
  /\ queue' = [queue EXCEPT ![k] = @ - 1]
  /\ crossed' = IF \E v \in Workers : In(v, k) THEN crossed \cup {k} ELSE crossed

\* A free worker takes a run; it is acknowledged, and so forgotten, at once.
Takes(w, k) ==
  /\ ~Busy(w)
  /\ queue[k] > 0
  /\ queue' = [queue EXCEPT ![k] = @ - 1]
  /\ crossed' = IF \E v \in Workers : In(v, k) THEN crossed \cup {k} ELSE crossed

-----------------------------------------------------------------------------
(* The reminders *)

\* Within half an hour of this time tomorrow, both ends included.  The run reads
\* the clock when it executes, some time into the half hour that begins at t; so
\* the window begins after t + Day - 1 and ends after t + Day + 1.
InWindow(t, s) == t + Day - 1 < s /\ s <= t + Day + 1

\* Mutant: half an hour before and none after.
SelectedEarly ==
  {a \in confirmed \ flagged :
     start[a] # NoTime /\ now + Day - 1 < start[a] /\ start[a] <= now + Day}

\* Mutant: reminder_sent is not looked at.
SelectedAgain == {a \in confirmed : start[a] # NoTime /\ InWindow(now, start[a])}

Selected ==
  {a \in confirmed \ flagged : start[a] # NoTime /\ InWindow(now, start[a])}

\* The query; the first mail is written from its rows.
Remind(w) ==
  /\ Takes(w, "reminders")
  /\ \/ Selected = {} /\ UNCHANGED jobs
     \/ \E a \in Selected :
          Becomes(w, "record", Selected \ {a}, a, start[a], {})
  /\ UNCHANGED <<now, appointments, documents, told, mails, owed, lost>>

\* create_notification commits, and with it the flag of the appointment before.
Record(w) ==
  /\ at[w] = "record"
  /\ flagged' = flagged \cup sent[w]
  /\ Becomes(w, "send", todo[w], cur[w], time[w], {})
  /\ UNCHANGED <<now, start, confirmed, documents, queue, history>>

\* The next mail is written from the row as it is now: the commit expired it.
Onward(w, mailed) ==
  \/ todo[w] = {} /\ Becomes(w, "finish", {}, NoOne, NoTime, mailed)
  \/ \E a \in todo[w] : Becomes(w, "record", todo[w] \ {a}, a, start[a], mailed)

Send(w) ==
  /\ at[w] = "send"
  /\ mails[cur[w]] < MaxMails
  /\ mails' = [mails EXCEPT ![cur[w]] = @ + 1]
  /\ told' = [told EXCEPT ![cur[w]] = time[w]]
  /\ Onward(w, {cur[w]})
  /\ UNCHANGED <<now, appointments, documents, queue, owed, crossed, lost>>

\* Mutant: a mail that was refused counts as sent.
RefusedFlagging(w) ==
  /\ at[w] = "send"
  /\ Onward(w, {cur[w]})
  /\ owed' = owed \ {cur[w]}
  /\ UNCHANGED <<now, appointments, documents, queue, told, mails, crossed, lost>>

\* The mail server refuses: the flag stays down, and nothing tries again.
Refused(w) ==
  /\ at[w] = "send"
  /\ Onward(w, {})
  /\ owed' = owed \ {cur[w]}
  /\ UNCHANGED <<now, appointments, documents, queue, told, mails, crossed, lost>>

Finish(w) ==
  /\ at[w] = "finish"
  /\ flagged' = flagged \cup sent[w]
  /\ Leaves(w)
  /\ UNCHANGED <<now, start, confirmed, documents, queue, history>>

-----------------------------------------------------------------------------
(* The alerts *)

\* Mutant: is_overdue is not looked at.
LateAgain == {d \in Documents : deadline[d] = "past"}

Late == {d \in Documents \ overdue : deadline[d] = "past"}

\* The query of check_deadlines, which also returns the documents.
CheckDeadlines(w) ==
  /\ Takes(w, "deadlines")
  /\ IF Late = {} THEN UNCHANGED jobs ELSE Becomes(w, "mark", Late, NoOne, NoTime, {})
  /\ UNCHANGED <<now, appointments, documents, told, mails, owed, lost>>

\* Mutant: the documents are read again after the commit.
MarkOverdueRead(w) ==
  /\ at[w] = "mark"
  /\ overdue' = overdue \cup todo[w]
  /\ Becomes(w, "alert", Late, NoOne, NoTime, {})
  /\ UNCHANGED <<now, appointments, deadline, queue, history>>

\* Its commit, before anybody is told.
MarkOverdue(w) ==
  /\ at[w] = "mark"
  /\ overdue' = overdue \cup todo[w]
  /\ Becomes(w, "alert", todo[w], NoOne, NoTime, {})
  /\ UNCHANGED <<now, appointments, deadline, queue, history>>

Alert(w) ==
  /\ at[w] = "alert"
  /\ \E d \in todo[w] :
       /\ mails[d] < MaxMails
       /\ mails' = [mails EXCEPT ![d] = @ + 1]
       /\ IF todo[w] = {d} THEN Leaves(w)
          ELSE Becomes(w, "alert", todo[w] \ {d}, NoOne, NoTime, {})
  /\ UNCHANGED <<now, appointments, documents, queue, told, owed, crossed, lost>>

-----------------------------------------------------------------------------
\* An exception, the time limit or a restart: what is not committed is lost.
Die(w) ==
  LET with == todo[w] \cup ((sent[w] \cup {cur[w]}) \ {NoOne}) IN
  /\ Busy(w)
  /\ Leaves(w)
  /\ lost' = lost \cup with
  /\ owed' = owed \ with
  /\ UNCHANGED <<now, appointments, documents, queue, told, mails, crossed>>

Next ==
  \/ Tick
  \/ \E a \in Appointments : Withdraw(a) \/ \E s \in Starts : Arrange(a, s)
  \/ \E d \in Documents : Expire(d) \/ Archive(d)
  \/ \E w \in Workers :
       \/ Remind(w) \/ Record(w) \/ Send(w) \/ Refused(w) \/ Finish(w)
       \/ CheckDeadlines(w) \/ MarkOverdue(w) \/ Alert(w)
       \/ Die(w)

Spec == Init /\ [][Next]_vars

-----------------------------------------------------------------------------
(* Properties *)

(***************************************************************************)
(* Who is confirmed for a time from nine to half past nine (half past      *)
(* eight is out of the window already), and left alone since the run of    *)
(* the day before was due, has been told that time when it comes; provided *)
(* that run was not late, did not die with the appointment and the mail    *)
(* server took the mail, as nothing tries again.                           *)
(***************************************************************************)
Reached == {s \in Starts : \E t \in Instants : Due("reminders", t) /\ InWindow(t, s)}

RemindedInTime ==
  \A a \in owed : start[a] \in Reached /\ now >= start[a] => told[a] = start[a]

(***************************************************************************)
(* A visitor is written to once (also if the appointment is moved), unless *)
(* two runs were in progress at once (each may select the appointment      *)
(* before the other commits its flag) or a run died between the mail and   *)
(* the commit of the flag.                                                 *)
(***************************************************************************)
RemindedOnce ==
  \A a \in Appointments : mails[a] > 1 => "reminders" \in crossed \/ a \in lost

(***************************************************************************)
(* Whatever dies and in whatever order the flags are committed, reminder_  *)
(* sent is only with appointments whose visitor was written to.            *)
(***************************************************************************)
FlagMeansMailed == \A a \in flagged : mails[a] > 0

(***************************************************************************)
(* Nobody is told that a document is overdue before the mark is committed, *)
(* nor twice, whatever dies; only two checks in progress at once tell them *)
(* twice.                                                                  *)
(***************************************************************************)
AlertedOnce ==
  \A d \in Documents :
    /\ mails[d] > 0 => d \in overdue
    /\ mails[d] > 1 => "deadlines" \in crossed

(***************************************************************************)
(* A document marked overdue has been alerted on or is about to be, unless *)
(* the check died: no later check looks at it again.                       *)
(***************************************************************************)
OverdueIsAlerted ==
  \A d \in overdue :
    mails[d] > 0 \/ d \in lost \/ \E w \in Workers : InCheck(w) /\ d \in todo[w]

(***************************************************************************)
(* What docs/architecture.md:122 says of the task: it reminds of the       *)
(* appointments of the next day.                                           *)
(***************************************************************************)
NextDayReminded == \A a \in owed : now >= start[a] => told[a] = start[a]
=============================================================================
