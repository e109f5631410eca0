------------------------ MODULE ScheduledTasksProofs ------------------------
(***************************************************************************)
(* The safety properties of ScheduledTasks, for any number of appointments,*)
(* documents and workers and any instants.  Each follows from type         *)
(* correctness and an inductive invariant of its own.                      *)
(***************************************************************************)
EXTENDS ScheduledTasks, TLAPS

USE ScheduledAssumption

-----------------------------------------------------------------------------
(* The workers *)

\* What a worker is at afterwards, and that the others go on.
LEMMA BecomesIs ==
  ASSUME JobsOK, NEW w \in Workers, NEW p, NEW T, NEW a, NEW t, NEW S,
         Becomes(w, p, T, a, t, S)
  PROVE  /\ at'[w] = p /\ todo'[w] = T /\ cur'[w] = a /\ time'[w] = t /\ sent'[w] = S
         /\ \A v \in Workers : v # w =>
              /\ at'[v] = at[v] /\ todo'[v] = todo[v] /\ cur'[v] = cur[v]
              /\ time'[v] = time[v] /\ sent'[v] = sent[v]
BY DEF JobsOK, Becomes

LEMMA BecomesTyped ==
  ASSUME JobsOK, NEW w \in Workers,
         NEW p \in Running \cup Checking \cup {"idle"}, NEW T \in SUBSET Subjects,
         NEW a \in Appointments \cup {NoOne}, NEW t \in Starts \cup {NoTime},
         NEW S \in SUBSET Appointments,
         p \in Running => T \subseteq Appointments,
         p \in Checking => T \subseteq Documents,
         p \in {"record", "send"} => a \in Appointments /\ t \in Starts,
         Becomes(w, p, T, a, t, S)
  PROVE  JobsOK'
<1>1. /\ at' \in [Workers -> Running \cup Checking \cup {"idle"}]
      /\ todo' \in [Workers -> SUBSET Subjects]
      /\ cur' \in [Workers -> Appointments \cup {NoOne}]
      /\ time' \in [Workers -> Starts \cup {NoTime}]
      /\ sent' \in [Workers -> SUBSET Appointments]
  BY DEF JobsOK, Becomes
<1>2. ASSUME NEW v \in Workers
      PROVE  /\ InRun(v)' => todo'[v] \subseteq Appointments
             /\ InCheck(v)' => todo'[v] \subseteq Documents
             /\ at'[v] \in {"record", "send"} => cur'[v] \in Appointments /\ time'[v] \in Starts
  <2>1. CASE v = w
    BY <2>1, BecomesIs DEF InRun, InCheck
  <2>2. CASE v # w
    BY <2>2, BecomesIs DEF JobsOK, InRun, InCheck
  <2> QED  BY <2>1, <2>2
<1> QED  BY <1>1, <1>2 DEF JobsOK

LEMMA LeavesTyped ==
  ASSUME JobsOK, NEW w \in Workers, Leaves(w)
  PROVE  JobsOK'
BY BecomesTyped DEF Leaves, Running, Checking

LEMMA OnwardTyped ==
  ASSUME JobsOK, start \in [Appointments -> Starts \cup {NoTime}],
         NEW w \in Workers, at[w] = "send", \A x \in todo[w] : start[x] \in Starts,
         NEW S \in SUBSET Appointments, Onward(w, S)
  PROVE  JobsOK'
<1>1. todo[w] \subseteq Appointments
  BY DEF JobsOK, InRun, Running
<1>2. CASE todo[w] = {} /\ Becomes(w, "finish", {}, NoOne, NoTime, S)
  BY <1>2, BecomesTyped DEF Running, Checking
<1>3. ASSUME NEW a \in todo[w], Becomes(w, "record", todo[w] \ {a}, a, start[a], S)
      PROVE  JobsOK'
  <2>1. /\ a \in Appointments /\ start[a] \in Starts
        /\ todo[w] \ {a} \subseteq Appointments /\ todo[w] \ {a} \in SUBSET Subjects
    BY <1>1, <1>3 DEF Subjects
  <2>2. "record" \in Running /\ "record" \notin Checking
    BY DEF Running, Checking
  <2> QED  BY <1>3, <2>1, <2>2, BecomesTyped
<1> QED  BY <1>2, <1>3 DEF Onward

-----------------------------------------------------------------------------
(* Type correctness *)

\* Appointments a run has selected have a time.
Timed == \A w \in Workers : InRun(w) => \A a \in todo[w] : start[a] \in Starts

Typed == TypeOK /\ Timed

LEMMA TypedInit == Init => Typed
<1> SUFFICES ASSUME Init
             PROVE  Typed
  OBVIOUS
<1>1. JobsOK /\ Timed
  BY DEF Init, JobsOK, Timed, InRun, InCheck, Running, Checking
<1>2. mails \in [Subjects -> 0 .. MaxMails]
  <2>1. 0 \in 0 .. MaxMails
    OBVIOUS
  <2> QED  BY <2>1 DEF Init
<1>3. queue \in [Tasks -> Nat]
  BY DEF Init
<1>4. deadline \in [Documents -> {"to come", "past", "archived"}]
  BY DEF Init
<1> QED  BY <1>1, <1>2, <1>3, <1>4 DEF Init, Typed, TypeOK

LEMMA TakesTyped ==
  ASSUME TypeOK, NEW w \in Workers, NEW k \in Tasks, Takes(w, k)
  PROVE  /\ queue' \in [Tasks -> Nat]
         /\ crossed' \subseteq Tasks
<1>1. queue[k] - 1 \in Nat
  <2>1. queue[k] \in Nat /\ queue[k] > 0
    BY DEF TypeOK, Takes
  <2> QED  BY <2>1
<1>2. queue' = [queue EXCEPT ![k] = queue[k] - 1]
  BY DEF TypeOK, Takes
<1>3. queue' \in [Tasks -> Nat]
  BY <1>1, <1>2 DEF TypeOK
<1>4. crossed' \subseteq Tasks
  BY DEF TypeOK, Takes
<1> QED  BY <1>3, <1>4

\* Another mail about the same.
LEMMA MailsTyped ==
  ASSUME TypeOK, NEW x \in Subjects, mails[x] < MaxMails,
         mails' = [mails EXCEPT ![x] = @ + 1]
  PROVE  /\ mails' \in [Subjects -> 0 .. MaxMails]
         /\ mails'[x] = mails[x] + 1
         /\ \A y \in Subjects : y # x => mails'[y] = mails[y]
<1>1. mails[x] + 1 \in 0 .. MaxMails
  <2>1. mails[x] \in 0 .. MaxMails
    BY DEF TypeOK
  <2> QED  BY <2>1
<1>2. mails' = [mails EXCEPT ![x] = mails[x] + 1] /\ mails \in [Subjects -> 0 .. MaxMails]
  BY DEF TypeOK
<1>3. mails'[x] = mails[x] + 1 /\ \A y \in Subjects : y # x => mails'[y] = mails[y]
  BY <1>2
<1>4. mails' \in [Subjects -> 0 .. MaxMails]
  BY <1>1, <1>2
<1> QED  BY <1>3, <1>4

\* The appointments left to a run are among those it had.
LEMMA OnwardTimed ==
  ASSUME Typed, NEW w \in Workers, at[w] = "send", NEW S, Onward(w, S)
  PROVE  \A v \in Workers : InRun(v)' => InRun(v) /\ todo'[v] \subseteq todo[v]
<1>1. JobsOK /\ InRun(w)
  BY DEF Typed, TypeOK, InRun, Running
<1>2. CASE todo[w] = {} /\ Becomes(w, "finish", {}, NoOne, NoTime, S)
  BY <1>1, <1>2, BecomesIs DEF InRun
<1>3. ASSUME NEW a \in todo[w], Becomes(w, "record", todo[w] \ {a}, a, start[a], S)
      PROVE  \A v \in Workers : InRun(v)' => InRun(v) /\ todo'[v] \subseteq todo[v]
  BY <1>1, <1>3, BecomesIs DEF InRun
<1> QED  BY <1>2, <1>3 DEF Onward

LEMMA TypedStep == Typed /\ [Next]_vars => Typed'
<1> SUFFICES ASSUME Typed, [Next]_vars
             PROVE  Typed'
  OBVIOUS
<1> USE DEF Typed
<1>1. JobsOK
  BY DEF TypeOK
<1>2. CASE Tick
  <2>1. PICK t \in Instants :
          /\ now' = t
          /\ queue' = [k \in Tasks |-> IF Due(k, t) THEN queue[k] + 1 ELSE queue[k]]
          /\ owed' = IF queue["reminders"] > 0 \/ \E w \in Workers : InRun(w) THEN {}
                     ELSE IF Due("reminders", t)
                       THEN owed \cup {a \in confirmed \ flagged : start[a] \in NextDay(t)}
                     ELSE owed
          /\ UNCHANGED <<appointments, documents, jobs, told, mails, crossed, lost>>
    BY <1>2 DEF Tick
  <2>2. queue' \in [Tasks -> Nat]
    <3>1. \A k \in Tasks : queue[k] \in Nat
      BY DEF TypeOK
    <3>2. \A k \in Tasks : queue[k] + 1 \in Nat
      BY <3>1
    <3> QED  BY <2>1, <3>1, <3>2
  <2>3. owed' \subseteq Appointments
    BY <2>1 DEF TypeOK
  <2>4. JobsOK' /\ Timed'
    BY <1>1, <2>1 DEF JobsOK, Timed, InRun, InCheck, jobs, appointments
  <2> QED  BY <2>1, <2>2, <2>3, <2>4 DEF TypeOK, appointments, documents
<1>3. ASSUME NEW a \in Appointments, Withdraw(a)
      PROVE  Typed'
  BY <1>3 DEF TypeOK, JobsOK, Timed, InRun, InCheck, Withdraw, jobs, documents
<1>4. ASSUME NEW a \in Appointments, NEW s \in Starts, Arrange(a, s)
      PROVE  Typed'
  BY <1>4 DEF TypeOK, JobsOK, Timed, InRun, InCheck, Arrange, jobs, documents
<1>5. ASSUME NEW d \in Documents, Expire(d) \/ Archive(d)
      PROVE  Typed'
  BY <1>5 DEF TypeOK, JobsOK, Timed, InRun, InCheck, Expire, Archive, jobs, appointments,
              history
<1>6. ASSUME NEW w \in Workers, Remind(w)
      PROVE  Typed'
  <2>1. /\ queue' \in [Tasks -> Nat] /\ crossed' \subseteq Tasks
        /\ UNCHANGED <<now, appointments, documents, told, mails, owed, lost>>
    BY <1>6, TakesTyped DEF Remind, Tasks
  <2>2. JobsOK' /\ Timed'
    <3>1. CASE UNCHANGED jobs
      BY <1>1, <2>1, <3>1 DEF JobsOK, Timed, InRun, InCheck, jobs, appointments
    <3>2. ASSUME NEW a \in Selected, Becomes(w, "record", Selected \ {a}, a, start[a], {})
          PROVE  JobsOK' /\ Timed'
      <4>1. /\ a \in Appointments /\ start[a] \in Starts
            /\ Selected \subseteq Appointments /\ \A b \in Selected : start[b] \in Starts
        BY <3>2 DEF Selected, TypeOK
      <4>2. Selected \ {a} \in SUBSET Subjects /\ "record" \in Running \ Checking
        BY <4>1 DEF Subjects, Running, Checking
      <4>3. JobsOK'
        BY <1>1, <3>2, <4>1, <4>2, BecomesTyped
      <4>4. Timed'
        BY <1>1, <2>1, <3>2, <4>1, BecomesIs DEF Timed, InRun, appointments
      <4> QED  BY <4>3, <4>4
    <3> QED  BY <1>6, <3>1, <3>2 DEF Remind
  <2> QED  BY <2>1, <2>2 DEF TypeOK, appointments, documents
<1>7. ASSUME NEW w \in Workers, Record(w)
      PROVE  Typed'
  <2>1. /\ flagged' \subseteq Appointments
        /\ UNCHANGED <<now, start, confirmed, documents, queue, history>>
    BY <1>1, <1>7 DEF Record, TypeOK, JobsOK
  <2>2. InRun(w) /\ at[w] = "record" /\ Becomes(w, "send", todo[w], cur[w], time[w], {})
    BY <1>7 DEF Record, InRun, Running
  <2>3. JobsOK'
    <3>1. /\ todo[w] \subseteq Appointments /\ todo[w] \in SUBSET Subjects
          /\ cur[w] \in Appointments /\ time[w] \in Starts
      BY <1>1, <2>2 DEF JobsOK
    <3>2. "send" \in Running \ Checking
      BY DEF Running, Checking
    <3> QED  BY <1>1, <2>2, <3>1, <3>2, BecomesTyped
  <2>4. Timed'
    BY <1>1, <2>1, <2>2, BecomesIs DEF Timed, InRun
  <2> QED  BY <2>1, <2>3, <2>4 DEF TypeOK, documents, history
<1>8. ASSUME NEW w \in Workers, Send(w)
      PROVE  Typed'
  <2>1. at[w] = "send" /\ InRun(w) /\ cur[w] \in Appointments /\ time[w] \in Starts
    BY <1>1, <1>8 DEF Send, InRun, Running, JobsOK
  <2>2. /\ mails' \in [Subjects -> 0 .. MaxMails]
        /\ told' \in [Appointments -> Starts \cup {NoTime}]
        /\ UNCHANGED <<now, appointments, documents, queue, owed, crossed, lost>>
    BY <1>8, <2>1, MailsTyped DEF Send, TypeOK, Subjects
  <2>3. Onward(w, {cur[w]})
    BY <1>8 DEF Send
  <2>4. JobsOK'
    BY <1>1, <2>1, <2>3, OnwardTyped DEF TypeOK, Timed
  <2>5. Timed'
    BY <2>1, <2>2, <2>3, OnwardTimed DEF Timed, appointments
  <2> QED  BY <2>2, <2>4, <2>5 DEF TypeOK, appointments, documents
<1>9. ASSUME NEW w \in Workers, Refused(w)
      PROVE  Typed'
  <2>1. at[w] = "send" /\ InRun(w) /\ Onward(w, {})
    BY <1>9 DEF Refused, InRun, Running
  <2>2. /\ owed' \subseteq Appointments
        /\ UNCHANGED <<now, appointments, documents, queue, told, mails, crossed, lost>>
    BY <1>9 DEF Refused, TypeOK
  <2>3. JobsOK'
    BY <1>1, <2>1, OnwardTyped DEF TypeOK, Timed
  <2>4. Timed'
    BY <2>1, <2>2, OnwardTimed DEF Timed, appointments
  <2> QED  BY <2>2, <2>3, <2>4 DEF TypeOK, appointments, documents
<1>10. ASSUME NEW w \in Workers, Finish(w) \/ Die(w)
       PROVE  Typed'
  <2>1. Leaves(w)
    BY <1>10 DEF Finish, Die
  <2>2. JobsOK'
    BY <1>1, <2>1, LeavesTyped
  <2>3. start' = start
    BY <1>10 DEF Finish, Die, appointments
  <2>4. Timed'
    BY <1>1, <2>1, <2>3, BecomesIs DEF Timed, Leaves, InRun, Running
  <2>5. CASE Finish(w)
    BY <1>1, <2>2, <2>4, <2>5 DEF TypeOK, JobsOK, Finish, documents, history
  <2>6. CASE Die(w)
    <3>1. todo[w] \subseteq Subjects /\ (sent[w] \cup {cur[w]}) \ {NoOne} \subseteq Subjects
      BY <1>1 DEF JobsOK, Subjects
    <3>2. lost' \subseteq Subjects /\ owed' \subseteq Appointments
      BY <2>6, <3>1 DEF TypeOK, Die
    <3> QED  BY <2>2, <2>4, <2>6, <3>2 DEF TypeOK, Die, appointments, documents
  <2> QED  BY <1>10, <2>5, <2>6
<1>11. ASSUME NEW w \in Workers, CheckDeadlines(w)
       PROVE  Typed'
  <2>1. /\ queue' \in [Tasks -> Nat] /\ crossed' \subseteq Tasks
        /\ UNCHANGED <<now, appointments, documents, told, mails, owed, lost>>
    BY <1>11, TakesTyped DEF CheckDeadlines, Tasks
  <2>2. CASE UNCHANGED jobs
    BY <2>1, <2>2 DEF TypeOK, JobsOK, Timed, InRun, InCheck, jobs, appointments, documents
  <2>3. CASE Becomes(w, "mark", Late, NoOne, NoTime, {})
    <3>1. Late \subseteq Documents /\ Late \in SUBSET Subjects /\ "mark" \in Checking \ Running
      BY DEF Late, Subjects, Checking, Running
    <3>2. JobsOK'
      BY <1>1, <2>3, <3>1, BecomesTyped
    <3>3. Timed'
      BY <1>1, <2>1, <2>3, <3>1, BecomesIs DEF Timed, InRun, appointments
    <3> QED  BY <2>1, <3>2, <3>3 DEF TypeOK, appointments, documents
  <2> QED  BY <1>11, <2>2, <2>3 DEF CheckDeadlines
<1>12. ASSUME NEW w \in Workers, MarkOverdue(w)
       PROVE  Typed'
  <2>1. /\ todo[w] \subseteq Documents /\ todo[w] \in SUBSET Subjects
        /\ "alert" \in Checking \ Running
    BY <1>1, <1>12 DEF MarkOverdue, JobsOK, InCheck, Checking, Running
  <2>2. /\ overdue' \subseteq Documents
        /\ UNCHANGED <<now, appointments, deadline, queue, history>>
        /\ Becomes(w, "alert", todo[w], NoOne, NoTime, {})
    BY <1>12, <2>1 DEF MarkOverdue, TypeOK
  <2>3. JobsOK'
    BY <1>1, <2>1, <2>2, BecomesTyped
  <2>4. Timed'
    BY <1>1, <2>1, <2>2, BecomesIs DEF Timed, InRun, appointments
  <2> QED  BY <2>2, <2>3, <2>4 DEF TypeOK, appointments, history
<1>13. ASSUME NEW w \in Workers, Alert(w)
       PROVE  Typed'
  <2>1. PICK d \in todo[w] :
          /\ mails[d] < MaxMails
          /\ mails' = [mails EXCEPT ![d] = @ + 1]
          /\ IF todo[w] = {d} THEN Leaves(w)
             ELSE Becomes(w, "alert", todo[w] \ {d}, NoOne, NoTime, {})
    BY <1>13 DEF Alert
  <2>2. /\ todo[w] \subseteq Documents /\ todo[w] \ {d} \in SUBSET Subjects
        /\ "alert" \in Checking \ Running
    BY <1>1, <1>13 DEF Alert, JobsOK, InCheck, Checking, Running
  <2>3. /\ mails' \in [Subjects -> 0 .. MaxMails]
        /\ UNCHANGED <<now, appointments, documents, queue, told, owed, crossed, lost>>
    BY <1>13, <2>1, <2>2, MailsTyped DEF Alert, Subjects
  <2>4. JobsOK'
    BY <1>1, <2>1, <2>2, BecomesTyped, LeavesTyped
  <2>5. Timed'
    BY <1>1, <2>1, <2>2, <2>3, BecomesIs DEF Timed, InRun, Leaves, Running, appointments
  <2> QED  BY <2>3, <2>4, <2>5 DEF TypeOK, appointments, documents
<1>14. CASE UNCHANGED vars
  BY <1>14 DEF TypeOK, JobsOK, Timed, InRun, InCheck, vars, jobs, appointments, documents,
               history
<1> QED
  BY <1>2, <1>3, <1>4, <1>5, <1>6, <1>7, <1>8, <1>9, <1>10, <1>11, <1>12, <1>13, <1>14
     DEF Next

LEMMA TypedAlways == Spec => []Typed
BY TypedInit, TypedStep, PTL DEF Spec

(***************************************************************************)
(* The variables keep their types; above all, a worker that writes to a    *)
(* visitor has an appointment and its time in hand.                        *)
(***************************************************************************)
THEOREM TypeCorrect == Spec => []TypeOK
BY TypedAlways, PTL DEF Typed

-----------------------------------------------------------------------------
(* What the steps do that the properties look at *)

\* The run goes on with one of those it had left, or comes to its end.
LEMMA OnwardIs ==
  ASSUME Typed, NEW w \in Workers, at[w] = "send", NEW S, Onward(w, S)
  PROVE  /\ sent'[w] = S /\ todo'[w] \subseteq todo[w]
         /\ \/ at'[w] = "finish" /\ todo[w] = {} /\ todo'[w] = {} /\ cur'[w] = NoOne
            \/ /\ at'[w] = "record" /\ cur'[w] \in todo[w]
               /\ todo'[w] = todo[w] \ {cur'[w]} /\ time'[w] = start[cur'[w]]
         /\ \A v \in Workers : v # w =>
              /\ at'[v] = at[v] /\ todo'[v] = todo[v] /\ cur'[v] = cur[v]
              /\ time'[v] = time[v] /\ sent'[v] = sent[v]
<1>1. JobsOK
  BY DEF Typed, TypeOK
<1>2. CASE todo[w] = {} /\ Becomes(w, "finish", {}, NoOne, NoTime, S)
  BY <1>1, <1>2, BecomesIs
<1>3. ASSUME NEW a \in todo[w], Becomes(w, "record", todo[w] \ {a}, a, start[a], S)
      PROVE  /\ sent'[w] = S /\ todo'[w] = todo[w] \ {a} /\ cur'[w] = a
             /\ time'[w] = start[a] /\ at'[w] = "record"
             /\ \A v \in Workers : v # w =>
                  /\ at'[v] = at[v] /\ todo'[v] = todo[v] /\ cur'[v] = cur[v]
                  /\ time'[v] = time[v] /\ sent'[v] = sent[v]
  BY <1>1, <1>3, BecomesIs
<1>4. CASE todo[w] = {} /\ Becomes(w, "finish", {}, NoOne, NoTime, S)
  BY <1>2, <1>4
<1>5. CASE \E a \in todo[w] : Becomes(w, "record", todo[w] \ {a}, a, start[a], S)
  <2>1. PICK a \in todo[w] : Becomes(w, "record", todo[w] \ {a}, a, start[a], S)
    BY <1>5
  <2> QED  BY <1>3, <2>1
<1> QED  BY <1>4, <1>5 DEF Onward

LEMMA SendIs ==
  ASSUME Typed, NEW w \in Workers, Send(w)
  PROVE  /\ cur[w] \in Appointments /\ time[w] \in Starts
         /\ mails'[cur[w]] = mails[cur[w]] + 1
         /\ \A x \in Subjects : x # cur[w] => mails'[x] = mails[x]
         /\ told'[cur[w]] = time[w]
         /\ \A a \in Appointments : a # cur[w] => told'[a] = told[a]
<1>1. cur[w] \in Appointments /\ time[w] \in Starts
  BY DEF Typed, TypeOK, JobsOK, Send
<1>2. cur[w] \in Subjects
  BY <1>1 DEF Subjects
<1>3. /\ mails'[cur[w]] = mails[cur[w]] + 1
      /\ \A x \in Subjects : x # cur[w] => mails'[x] = mails[x]
  BY <1>2, MailsTyped DEF Typed, Send
<1> QED  BY <1>1, <1>3 DEF Typed, TypeOK, Send

LEMMA AlertIs ==
  ASSUME Typed, NEW w \in Workers, Alert(w)
  PROVE  /\ at[w] = "alert" /\ todo[w] \subseteq Documents
         /\ \E d \in todo[w] :
              /\ mails'[d] = mails[d] + 1
              /\ \A x \in Subjects : x # d => mails'[x] = mails[x]
              /\ \/ at'[w] = "idle" /\ todo'[w] = {} /\ todo[w] = {d}
                 \/ at'[w] = "alert" /\ todo'[w] = todo[w] \ {d}
              /\ sent'[w] = {}
         /\ \A v \in Workers : v # w =>
              /\ at'[v] = at[v] /\ todo'[v] = todo[v] /\ cur'[v] = cur[v]
              /\ time'[v] = time[v] /\ sent'[v] = sent[v]
<1>1. JobsOK
  BY DEF Typed, TypeOK
<1>2. at[w] = "alert" /\ todo[w] \subseteq Documents
  BY <1>1 DEF Alert, JobsOK, InCheck, Checking
<1>3. PICK d \in todo[w] :
        /\ mails[d] < MaxMails
        /\ mails' = [mails EXCEPT ![d] = @ + 1]
        /\ IF todo[w] = {d} THEN Leaves(w)
           ELSE Becomes(w, "alert", todo[w] \ {d}, NoOne, NoTime, {})
  BY DEF Alert
<1>4. /\ mails'[d] = mails[d] + 1
      /\ \A x \in Subjects : x # d => mails'[x] = mails[x]
  BY <1>2, <1>3, MailsTyped DEF Typed, Subjects
<1>5. CASE todo[w] = {d}
  BY <1>1, <1>2, <1>3, <1>4, <1>5, BecomesIs DEF Leaves
<1>6. CASE todo[w] # {d}
  BY <1>1, <1>2, <1>3, <1>4, <1>6, BecomesIs
<1> QED  BY <1>5, <1>6

\* What is sent stays sent.
LEMMA MailsGrow ==
  ASSUME Typed, [Next]_vars
  PROVE  \A x \in Subjects : mails[x] \in Nat /\ mails'[x] \in Nat /\ mails'[x] >= mails[x]
<1>1. Typed'
  BY TypedStep
<1>2. \A x \in Subjects : mails[x] \in Nat /\ mails'[x] \in Nat
  <2>1. mails \in [Subjects -> 0 .. MaxMails] /\ mails' \in [Subjects' -> 0 .. MaxMails]
    BY <1>1 DEF Typed, TypeOK
  <2>2. mails' \in [Subjects -> 0 .. MaxMails]
    BY <2>1 DEF Subjects
  <2> QED  BY <2>1, <2>2
<1>3. ASSUME NEW w \in Workers, Send(w)
      PROVE  \A x \in Subjects : mails'[x] >= mails[x]
  BY <1>2, <1>3, SendIs DEF Subjects
<1>4. ASSUME NEW w \in Workers, Alert(w)
      PROVE  \A x \in Subjects : mails'[x] >= mails[x]
  BY <1>2, <1>4, AlertIs DEF Subjects
<1>5. CASE mails' = mails
  BY <1>2, <1>5
<1>6. \/ \E w \in Workers : Send(w) \/ Alert(w)
      \/ mails' = mails
  BY DEF Next, vars, history, Tick, Withdraw, Arrange, Expire, Archive, Remind, Record,
         Refused, Finish, CheckDeadlines, MarkOverdue, Die
<1> QED  BY <1>2, <1>3, <1>4, <1>5, <1>6

\* What the workers are at stays the same, up to the one that acts.
Others(w) ==
  \A v \in Workers : v # w =>
    /\ at'[v] = at[v] /\ todo'[v] = todo[v] /\ cur'[v] = cur[v]
    /\ time'[v] = time[v] /\ sent'[v] = sent[v]

LEMMA RemindIs ==
  ASSUME Typed, NEW w \in Workers, Remind(w)
  PROVE  /\ at[w] = "idle"
         /\ \/ UNCHANGED jobs
            \/ /\ at'[w] = "record" /\ cur'[w] \in Selected /\ todo'[w] = Selected \ {cur'[w]}
               /\ time'[w] = start[cur'[w]] /\ sent'[w] = {}
               /\ Others(w)
<1>1. at[w] = "idle" /\ JobsOK
  BY DEF Typed, TypeOK, Remind, Takes, Busy
<1>2. CASE UNCHANGED jobs
  BY <1>1, <1>2
<1>3. ASSUME NEW a \in Selected, Becomes(w, "record", Selected \ {a}, a, start[a], {})
      PROVE  /\ at'[w] = "record" /\ cur'[w] \in Selected /\ todo'[w] = Selected \ {cur'[w]}
             /\ time'[w] = start[cur'[w]] /\ sent'[w] = {}
             /\ Others(w)
  <2>1. /\ at'[w] = "record" /\ cur'[w] = a /\ todo'[w] = Selected \ {a}
        /\ time'[w] = start[a] /\ sent'[w] = {}
    BY <1>1, <1>3, BecomesIs
  <2>2. Others(w)
    BY <1>1, <1>3, BecomesIs DEF Others
  <2> QED  BY <2>1, <2>2
<1> QED  BY <1>1, <1>2, <1>3 DEF Remind

LEMMA RecordIs ==
  ASSUME Typed, NEW w \in Workers, Record(w)
  PROVE  /\ at[w] = "record" /\ at'[w] = "send" /\ todo'[w] = todo[w]
         /\ cur'[w] = cur[w] /\ time'[w] = time[w] /\ sent'[w] = {}
         /\ Others(w)
<1>1. JobsOK /\ at[w] = "record" /\ Becomes(w, "send", todo[w], cur[w], time[w], {})
  BY DEF Typed, TypeOK, Record
<1> QED  BY <1>1, BecomesIs DEF Others

LEMMA LeavesIs ==
  ASSUME Typed, NEW w \in Workers, Leaves(w)
  PROVE  /\ at'[w] = "idle" /\ todo'[w] = {} /\ cur'[w] = NoOne /\ sent'[w] = {}
         /\ Others(w)
<1>1. JobsOK
  BY DEF Typed, TypeOK
<1> QED  BY <1>1, BecomesIs DEF Leaves, Others

LEMMA CheckIs ==
  ASSUME Typed, NEW w \in Workers, CheckDeadlines(w)
  PROVE  /\ at[w] = "idle"
         /\ \/ UNCHANGED jobs
            \/ /\ at'[w] = "mark" /\ todo'[w] = Late /\ cur'[w] = NoOne /\ sent'[w] = {}
               /\ Others(w)
<1>1. at[w] = "idle" /\ JobsOK
  BY DEF Typed, TypeOK, CheckDeadlines, Takes, Busy
<1>2. CASE Becomes(w, "mark", Late, NoOne, NoTime, {})
  BY <1>1, <1>2, BecomesIs DEF Others
<1> QED  BY <1>1, <1>2 DEF CheckDeadlines

LEMMA MarkIs ==
  ASSUME Typed, NEW w \in Workers, MarkOverdue(w)
  PROVE  /\ at[w] = "mark" /\ at'[w] = "alert" /\ todo'[w] = todo[w]
         /\ cur'[w] = NoOne /\ sent'[w] = {}
         /\ todo[w] \subseteq Documents
         /\ Others(w)
<1>1. JobsOK /\ at[w] = "mark" /\ Becomes(w, "alert", todo[w], NoOne, NoTime, {})
  BY DEF Typed, TypeOK, MarkOverdue
<1>2. todo[w] \subseteq Documents
  BY <1>1 DEF JobsOK, InCheck, Checking
<1> QED  BY <1>1, <1>2, BecomesIs DEF Others

-----------------------------------------------------------------------------
(* The flags *)

FlagInv == FlagMeansMailed /\ \A w \in Workers : \A a \in sent[w] : mails[a] > 0

LEMMA FlagStep == Typed /\ FlagInv /\ [Next]_vars => FlagInv'
<1> SUFFICES ASSUME Typed, FlagInv, [Next]_vars
             PROVE  FlagInv'
  OBVIOUS
<1>1. /\ flagged \subseteq Appointments
      /\ \A w \in Workers : sent[w] \subseteq Appointments
  BY DEF Typed, TypeOK, JobsOK
<1>2. ASSUME NEW a \in Appointments, mails[a] > 0
      PROVE  mails'[a] > 0
  BY <1>2, MailsGrow DEF Subjects
<1>3. \A w \in Workers : \A a \in sent[w] : mails'[a] > 0
  BY <1>1, <1>2 DEF FlagInv
<1>4. \A a \in flagged : mails'[a] > 0
  BY <1>1, <1>2 DEF FlagInv, FlagMeansMailed
\* It is enough that flags come from what was sent, and that this was sent.
<1>5. ASSUME /\ flagged' \subseteq flagged \cup UNION {sent[w] : w \in Workers}
             /\ \A w \in Workers : \A a \in sent'[w] : a \in sent[w] \/ mails'[a] > 0
      PROVE  FlagInv'
  BY <1>3, <1>4, <1>5 DEF FlagInv, FlagMeansMailed
<1>6. ASSUME NEW w \in Workers, Remind(w)
      PROVE  FlagInv'
  <2>1. flagged' = flagged /\ \A v \in Workers : sent'[v] \subseteq sent[v]
    BY <1>6, RemindIs DEF Remind, Others, appointments, jobs
  <2> QED  BY <1>5, <2>1
<1>7. ASSUME NEW w \in Workers, Record(w) \/ Finish(w)
      PROVE  FlagInv'
  <2>1. flagged' = flagged \cup sent[w]
    BY <1>7 DEF Record, Finish
  <2>2. \A v \in Workers : sent'[v] \subseteq sent[v]
    BY <1>7, RecordIs, LeavesIs DEF Finish, Others
  <2> QED  BY <1>5, <2>1, <2>2
<1>8. ASSUME NEW w \in Workers, Send(w)
      PROVE  FlagInv'
  <2>1. flagged' = flagged /\ cur[w] \in Appointments
    BY <1>8, SendIs DEF Send, appointments
  <2>2. sent'[w] = {cur[w]} /\ \A v \in Workers : v # w => sent'[v] = sent[v]
    BY <1>8, OnwardIs DEF Send
  <2>3. mails'[cur[w]] > 0
    <3>1. mails[cur[w]] \in Nat /\ mails'[cur[w]] = mails[cur[w]] + 1
      BY <1>8, <2>1, SendIs, MailsGrow DEF Subjects
    <3> QED  BY <3>1
  <2> QED  BY <1>5, <2>1, <2>2, <2>3
<1>9. ASSUME NEW w \in Workers, Refused(w)
      PROVE  FlagInv'
  <2>1. flagged' = flagged /\ \A v \in Workers : sent'[v] \subseteq sent[v]
    BY <1>9, OnwardIs DEF Refused, appointments
  <2> QED  BY <1>5, <2>1
<1>10. ASSUME NEW w \in Workers, Die(w)
       PROVE  FlagInv'
  <2>1. flagged' = flagged /\ \A v \in Workers : sent'[v] \subseteq sent[v]
    BY <1>10, LeavesIs DEF Die, Others, appointments
  <2> QED  BY <1>5, <2>1
<1>11. ASSUME NEW w \in Workers, CheckDeadlines(w) \/ MarkOverdue(w) \/ Alert(w)
       PROVE  FlagInv'
  <2>1. flagged' = flagged
    BY <1>11 DEF CheckDeadlines, MarkOverdue, Alert, appointments
  <2>2. \A v \in Workers : sent'[v] \subseteq sent[v]
    BY <1>11, CheckIs, MarkIs, AlertIs DEF Others, jobs
  <2> QED  BY <1>5, <2>1, <2>2
<1>12. CASE flagged' = flagged /\ sent' = sent
  BY <1>5, <1>12
<1>13. \/ \E w \in Workers : \/ Remind(w) \/ Record(w) \/ Send(w) \/ Refused(w) \/ Finish(w)
                             \/ CheckDeadlines(w) \/ MarkOverdue(w) \/ Alert(w) \/ Die(w)
       \/ flagged' = flagged /\ sent' = sent
  BY DEF Next, Tick, Withdraw, Arrange, Expire, Archive, vars, appointments, jobs
<1> QED  BY <1>6, <1>7, <1>8, <1>9, <1>10, <1>11, <1>12, <1>13

(***************************************************************************)
(* reminder_sent is only with appointments whose visitor was written to:   *)
(* the flags in a session, which its next commit stores, are among those.  *)
(***************************************************************************)
THEOREM FlagsMeanMails == Spec => []FlagMeansMailed
<1>1. Init => FlagInv
  BY DEF Init, FlagInv, FlagMeansMailed
<1> QED  BY <1>1, TypedAlways, FlagStep, PTL DEF Spec, FlagInv

-----------------------------------------------------------------------------
(* The alerts *)

\* What is alerted on is marked; one check has not told anybody of what it has
\* still to tell.
Marked == \A w \in Workers : at[w] = "alert" => todo[w] \subseteq overdue

Untold ==
  "deadlines" \notin crossed =>
    /\ \A v, w \in Workers : InCheck(v) /\ InCheck(w) => v = w
    /\ \A d \in Documents : mails[d] <= 1
    /\ \A w \in Workers : InCheck(w) => \A d \in todo[w] : mails[d] = 0

AlertInv == (\A d \in Documents : mails[d] > 0 => d \in overdue) /\ Marked /\ Untold

\* Steps that tell nobody of a document and leave the checks alone.
LEMMA AlertKept ==
  ASSUME Typed, AlertInv,
         overdue' = overdue, crossed \subseteq crossed',
         \A d \in Documents : mails'[d] = mails[d],
         \A w \in Workers : InCheck(w)' => at'[w] = at[w] /\ todo'[w] = todo[w]
  PROVE  AlertInv'
<1>1. \A w \in Workers : InCheck(w)' => InCheck(w)
  BY DEF InCheck
<1>2. \A w \in Workers : at'[w] = "alert" => InCheck(w)'
  BY DEF InCheck, Checking
<1>3. Marked'
  BY <1>2 DEF AlertInv, Marked
<1>4. \A w \in Workers : InCheck(w) => todo[w] \subseteq Documents
  BY DEF Typed, TypeOK, JobsOK
<1>5. Untold'
  <2>1. SUFFICES ASSUME "deadlines" \notin crossed'
                 PROVE  /\ \A v, w \in Workers : InCheck(v)' /\ InCheck(w)' => v = w
                        /\ \A d \in Documents : mails'[d] <= 1
                        /\ \A w \in Workers : InCheck(w)' => \A d \in todo'[w] : mails'[d] = 0
    BY DEF Untold
  <2>2. /\ \A v, w \in Workers : InCheck(v) /\ InCheck(w) => v = w
        /\ \A d \in Documents : mails[d] <= 1
        /\ \A w \in Workers : InCheck(w) => \A d \in todo[w] : mails[d] = 0
    BY <2>1 DEF AlertInv, Untold
  <2> QED  BY <1>1, <1>4, <2>2
<1> QED  BY <1>3, <1>5 DEF AlertInv

LEMMA AlertStep == Typed /\ AlertInv /\ [Next]_vars => AlertInv'
<1> SUFFICES ASSUME Typed, AlertInv, [Next]_vars
             PROVE  AlertInv'
  OBVIOUS
<1>1. /\ \A w \in Workers : InCheck(w) => todo[w] \subseteq Documents
      /\ Documents \subseteq Subjects
      /\ \A d \in Documents : mails[d] \in Nat
  BY MailsGrow DEF Typed, TypeOK, JobsOK, Subjects
<1>2. ASSUME NEW w \in Workers, CheckDeadlines(w)
      PROVE  AlertInv'
  <2>1. overdue' = overdue /\ mails' = mails
    BY <1>2 DEF CheckDeadlines, documents
  <2>2. crossed' = IF \E v \in Workers : InCheck(v) THEN crossed \cup {"deadlines"} ELSE crossed
    BY <1>2 DEF CheckDeadlines, Takes, In
  <2>3. CASE UNCHANGED jobs
    BY <2>1, <2>2, <2>3, AlertKept DEF jobs
  <2>4. CASE ~UNCHANGED jobs
    <3>1. /\ at[w] = "idle" /\ at'[w] = "mark" /\ todo'[w] = Late /\ Others(w)
      BY <1>2, <2>4, CheckIs
    <3>2. Marked'
      BY <2>1, <3>1 DEF AlertInv, Marked, Others
    <3>3. ASSUME "deadlines" \notin crossed'
          PROVE  /\ \A v, u \in Workers : InCheck(v)' /\ InCheck(u)' => v = u
                 /\ \A d \in Documents : mails'[d] <= 1
                 /\ \A v \in Workers : InCheck(v)' => \A d \in todo'[v] : mails'[d] = 0
      <4>1. "deadlines" \notin crossed /\ ~\E v \in Workers : InCheck(v)
        BY <2>2, <3>3
      <4>2. \A v \in Workers : InCheck(v)' => v = w
        BY <3>1, <4>1 DEF InCheck, Others
      <4>3. \A d \in Late : mails[d] = 0
        BY <1>1 DEF AlertInv, Late
      <4>4. \A d \in Documents : mails[d] <= 1
        BY <4>1 DEF AlertInv, Untold
      <4> QED  BY <2>1, <3>1, <4>2, <4>3, <4>4
    <3> QED  BY <2>1, <3>2, <3>3 DEF AlertInv, Untold
  <2> QED  BY <2>3, <2>4
<1>3. ASSUME NEW w \in Workers, MarkOverdue(w)
      PROVE  AlertInv'
  <2>1. /\ overdue' = overdue \cup todo[w] /\ mails' = mails /\ crossed' = crossed
    BY <1>3 DEF MarkOverdue, history
  <2>2. /\ at[w] = "mark" /\ at'[w] = "alert" /\ todo'[w] = todo[w] /\ Others(w)
    BY <1>3, MarkIs
  <2>3. \A v \in Workers : InCheck(v)' => InCheck(v) /\ todo'[v] = todo[v]
    BY <2>2 DEF InCheck, Checking, Others
  <2>4. Marked'
    BY <2>1, <2>2 DEF AlertInv, Marked, Others
  <2>5. Untold'
    BY <2>1, <2>3 DEF AlertInv, Untold
  <2> QED  BY <2>1, <2>4, <2>5 DEF AlertInv
<1>4. ASSUME NEW w \in Workers, Alert(w)
      PROVE  AlertInv'
  <2>1. overdue' = overdue /\ crossed' = crossed
    BY <1>4 DEF Alert, documents
  <2>2. at[w] = "alert" /\ todo[w] \subseteq Documents
    BY <1>4, AlertIs
  <2>3. PICK d \in todo[w] :
          /\ mails'[d] = mails[d] + 1
          /\ \A x \in Subjects : x # d => mails'[x] = mails[x]
          /\ \/ at'[w] = "idle" /\ todo'[w] = {} /\ todo[w] = {d}
             \/ at'[w] = "alert" /\ todo'[w] = todo[w] \ {d}
    BY <1>4, AlertIs
  <2>4. \A v \in Workers : v # w => at'[v] = at[v] /\ todo'[v] = todo[v]
    BY <1>4, AlertIs
  <2>5. d \in overdue
    BY <2>2, <2>3 DEF AlertInv, Marked
  <2>6. \A e \in Documents : mails'[e] > 0 => e \in overdue'
    BY <1>1, <2>1, <2>3, <2>5 DEF AlertInv
  <2>7. Marked'
    BY <2>1, <2>2, <2>3, <2>4 DEF AlertInv, Marked
  <2>8. ASSUME "deadlines" \notin crossed'
        PROVE  /\ \A v, u \in Workers : InCheck(v)' /\ InCheck(u)' => v = u
               /\ \A e \in Documents : mails'[e] <= 1
               /\ \A v \in Workers : InCheck(v)' => \A e \in todo'[v] : mails'[e] = 0
    <3>1. /\ \A v, u \in Workers : InCheck(v) /\ InCheck(u) => v = u
          /\ \A e \in Documents : mails[e] <= 1
          /\ \A v \in Workers : InCheck(v) => \A e \in todo[v] : mails[e] = 0
      BY <2>1, <2>8 DEF AlertInv, Untold
    <3>2. InCheck(w)
      BY <2>2 DEF InCheck, Checking
    <3>3. \A v \in Workers : InCheck(v)' => v = w
      BY <2>4, <3>1, <3>2 DEF InCheck
    <3>4. mails'[d] = 1 /\ d \in Documents
      <4>1. mails[d] = 0
        BY <3>1, <3>2
      <4> QED  BY <2>2, <2>3, <4>1
    <3>5. \A e \in Documents : mails'[e] <= 1
      <4>1. ASSUME NEW e \in Documents
            PROVE  mails'[e] <= 1
        <5>1. CASE e = d
          BY <3>4, <5>1
        <5>2. CASE e # d
          BY <1>1, <2>3, <3>1, <5>2
        <5> QED  BY <5>1, <5>2
      <4> QED  BY <4>1
    <3>6. \A e \in todo'[w] : e \in todo[w] /\ e # d
      BY <2>3
    <3>7. \A e \in todo'[w] : mails'[e] = 0
      BY <1>1, <2>2, <2>3, <3>1, <3>2, <3>6
    <3> QED  BY <3>3, <3>5, <3>7
  <2> QED  BY <2>6, <2>7, <2>8 DEF AlertInv, Untold
<1>5. ASSUME NEW w \in Workers, Remind(w) \/ Record(w) \/ Finish(w) \/ Die(w) \/ Refused(w)
      PROVE  AlertInv'
  <2>1. overdue' = overdue /\ mails' = mails
    BY <1>5 DEF Remind, Record, Finish, Die, Refused, documents, history
  <2>2. crossed \subseteq crossed'
    BY <1>5 DEF Remind, Record, Finish, Die, Refused, Takes, history
  <2>3. \A v \in Workers : InCheck(v)' => at'[v] = at[v] /\ todo'[v] = todo[v]
    <3>1. CASE Remind(w)
      BY <3>1, RemindIs DEF Others, jobs, InCheck, Checking
    <3>2. CASE Record(w)
      BY <3>2, RecordIs DEF Others, InCheck, Checking
    <3>3. CASE Finish(w) \/ Die(w)
      BY <3>3, LeavesIs DEF Finish, Die, Others, InCheck, Checking
    <3>4. CASE Refused(w)
      BY <3>4, OnwardIs DEF Refused, InCheck, Checking
    <3> QED  BY <1>5, <3>1, <3>2, <3>3, <3>4
  <2> QED  BY <2>1, <2>2, <2>3, AlertKept
<1>6. ASSUME NEW w \in Workers, Send(w)
      PROVE  AlertInv'
  <2>1. overdue' = overdue /\ crossed' = crossed
    BY <1>6 DEF Send, documents
  <2>2. \A d \in Documents : mails'[d] = mails[d]
    BY <1>1, <1>6, SendIs
  <2>3. \A v \in Workers : InCheck(v)' => at'[v] = at[v] /\ todo'[v] = todo[v]
    BY <1>6, OnwardIs DEF Send, InCheck, Checking
  <2> QED  BY <2>1, <2>2, <2>3, AlertKept
<1>7. CASE /\ overdue' = overdue /\ mails' = mails /\ crossed' = crossed
           /\ at' = at /\ todo' = todo
  BY <1>7, AlertKept
<1>8. \/ \E w \in Workers : \/ Remind(w) \/ Record(w) \/ Send(w) \/ Refused(w) \/ Finish(w)
                            \/ CheckDeadlines(w) \/ MarkOverdue(w) \/ Alert(w) \/ Die(w)
      \/ /\ overdue' = overdue /\ mails' = mails /\ crossed' = crossed
         /\ at' = at /\ todo' = todo
  BY DEF Next, Tick, Withdraw, Arrange, Expire, Archive, vars, documents, jobs, history
<1> QED  BY <1>2, <1>3, <1>4, <1>5, <1>6, <1>7, <1>8

(***************************************************************************)
(* Nobody is told that a document is overdue before the mark is committed, *)
(* nor twice, unless two checks are in progress at once: what a check has  *)
(* still to tell is not told yet, and what is told no check selects.       *)
(***************************************************************************)
THEOREM AlertsOnce == Spec => []AlertedOnce
<1>1. Init => AlertInv
  <2>1. ASSUME Init
        PROVE  \A w \in Workers : ~InCheck(w) /\ at[w] # "alert"
    BY <2>1 DEF Init, InCheck, Checking
  <2>2. ASSUME Init
        PROVE  \A d \in Documents : mails[d] = 0
    BY <2>2 DEF Init, Subjects
  <2> QED  BY <2>1, <2>2 DEF AlertInv, Marked, Untold
<1>2. Typed /\ AlertInv => AlertedOnce
  <2>1. ASSUME Typed, AlertInv, NEW d \in Documents, mails[d] > 1
        PROVE  "deadlines" \in crossed
    <3>1. mails[d] \in Nat
      <4>1. mails \in [Subjects -> 0 .. MaxMails] /\ d \in Subjects
        BY <2>1 DEF Typed, TypeOK, Subjects
      <4> QED  BY <4>1
    <3> QED  BY <2>1, <3>1 DEF AlertInv, Untold
  <2> QED  BY <2>1 DEF AlertInv, AlertedOnce
<1> QED  BY <1>1, <1>2, TypedAlways, AlertStep, PTL DEF Spec

\* Steps after which every document marked before is accounted for.
LEMMA OverdueKept ==
  ASSUME Typed, OverdueIsAlerted, [Next]_vars,
         overdue' = overdue, lost \subseteq lost',
         \A w \in Workers : InCheck(w) => \A d \in todo[w] :
           \/ InCheck(w)' /\ d \in todo'[w]
           \/ d \in lost' \/ mails'[d] > 0
  PROVE  OverdueIsAlerted'
<1>1. \A d \in overdue : mails[d] > 0 => mails'[d] > 0
  <2>1. overdue \subseteq Subjects
    BY DEF Typed, TypeOK, Subjects
  <2>2. \A d \in overdue : mails[d] \in Nat /\ mails'[d] \in Nat /\ mails'[d] >= mails[d]
    BY <2>1, MailsGrow
  <2> QED  BY <2>2
<1> QED  BY <1>1 DEF OverdueIsAlerted

LEMMA OverdueStep == Typed /\ OverdueIsAlerted /\ [Next]_vars => OverdueIsAlerted'
<1> SUFFICES ASSUME Typed, OverdueIsAlerted, [Next]_vars
             PROVE  OverdueIsAlerted'
  OBVIOUS
<1>1. ASSUME NEW w \in Workers, MarkOverdue(w)
      PROVE  OverdueIsAlerted'
  <2>1. overdue' = overdue \cup todo[w] /\ mails' = mails /\ lost' = lost
    BY <1>1 DEF MarkOverdue, history
  <2>2. InCheck(w)' /\ todo'[w] = todo[w]
    BY <1>1, MarkIs DEF InCheck, Checking
  <2>3. \A v \in Workers : InCheck(v) => InCheck(v)' /\ todo'[v] = todo[v]
    BY <1>1, <2>2, MarkIs DEF InCheck, Others
  <2> QED  BY <2>1, <2>2, <2>3 DEF OverdueIsAlerted
<1>2. ASSUME NEW w \in Workers, Alert(w)
      PROVE  OverdueIsAlerted'
  <2>1. overdue' = overdue /\ lost' = lost
    BY <1>2 DEF Alert, documents
  <2>2. at[w] = "alert" /\ todo[w] \subseteq Documents
    BY <1>2, AlertIs
  <2>3. PICK d \in todo[w] :
          /\ mails'[d] = mails[d] + 1
          /\ \/ at'[w] = "idle" /\ todo'[w] = {} /\ todo[w] = {d}
             \/ at'[w] = "alert" /\ todo'[w] = todo[w] \ {d}
    BY <1>2, AlertIs
  <2>4. mails'[d] > 0
    <3>1. mails[d] \in Nat
      BY <2>2, MailsGrow DEF Subjects
    <3> QED  BY <2>3, <3>1
  <2>5. \A e \in todo[w] : e = d \/ (InCheck(w)' /\ e \in todo'[w])
    BY <2>3 DEF InCheck, Checking
  <2>6. \A v \in Workers : v # w => at'[v] = at[v] /\ todo'[v] = todo[v]
    BY <1>2, AlertIs
  <2>7. \A v \in Workers : v # w => (InCheck(v)' <=> InCheck(v))
    BY <2>6 DEF InCheck
  <2> QED  BY <2>1, <2>4, <2>5, <2>6, <2>7, OverdueKept
<1>3. ASSUME NEW w \in Workers, Die(w)
      PROVE  OverdueIsAlerted'
  <2>1. overdue' = overdue /\ lost \subseteq lost' /\ todo[w] \subseteq lost'
    BY <1>3 DEF Die, documents
  <2>2. \A v \in Workers : v # w => at'[v] = at[v] /\ todo'[v] = todo[v]
    BY <1>3, LeavesIs DEF Die, Others
  <2> QED  BY <2>1, <2>2, OverdueKept DEF InCheck
<1>4. ASSUME NEW w \in Workers,
             \/ Remind(w) \/ Record(w) \/ Finish(w) \/ Refused(w) \/ Send(w) \/ CheckDeadlines(w)
      PROVE  OverdueIsAlerted'
  <2>1. overdue' = overdue /\ lost' = lost
    BY <1>4 DEF Remind, Record, Finish, Refused, Send, CheckDeadlines, documents, history
  <2>2. \A v \in Workers : InCheck(v) => InCheck(v)' /\ todo'[v] = todo[v]
    <3>1. CASE Remind(w)
      BY <3>1, RemindIs DEF Others, jobs, InCheck, Checking
    <3>2. CASE Record(w)
      BY <3>2, RecordIs DEF Others, InCheck, Checking
    <3>3. CASE Finish(w)
      <4>1. at[w] = "finish"
        BY <3>3 DEF Finish
      <4> QED  BY <3>3, <4>1, LeavesIs DEF Finish, Others, InCheck, Checking
    <3>4. CASE Refused(w) \/ Send(w)
      <4>1. at[w] = "send"
        BY <3>4 DEF Refused, Send
      <4> QED  BY <3>4, <4>1, OnwardIs DEF Refused, Send, InCheck, Checking
    <3>5. CASE CheckDeadlines(w)
      BY <3>5, CheckIs DEF Others, jobs, InCheck, Checking
    <3> QED  BY <1>4, <3>1, <3>2, <3>3, <3>4, <3>5
  <2> QED  BY <2>1, <2>2, OverdueKept
<1>5. CASE overdue' = overdue /\ lost' = lost /\ at' = at /\ todo' = todo
  BY <1>5, OverdueKept DEF InCheck
<1>6. \/ \E w \in Workers : \/ Remind(w) \/ Record(w) \/ Send(w) \/ Refused(w) \/ Finish(w)
                            \/ CheckDeadlines(w) \/ MarkOverdue(w) \/ Alert(w) \/ Die(w)
      \/ overdue' = overdue /\ lost' = lost /\ at' = at /\ todo' = todo
  BY DEF Next, Tick, Withdraw, Arrange, Expire, Archive, vars, documents, jobs, history
<1> QED  BY <1>1, <1>2, <1>3, <1>4, <1>5, <1>6

(***************************************************************************)
(* A document marked overdue has been alerted on, is about to be, or was   *)
(* in the hands of a check that died.                                      *)
(***************************************************************************)
THEOREM OverdueMeansAlerted == Spec => []OverdueIsAlerted
<1>1. Init => OverdueIsAlerted
  BY DEF Init, OverdueIsAlerted
<1> QED  BY <1>1, TypedAlways, OverdueStep, PTL DEF Spec

-----------------------------------------------------------------------------
(* One reminder *)

\* As long as no two runs are in progress at once, what is in the hands of the
\* run nobody was written to about, and who was written to is flagged, or is in
\* its session.
Fresh(a) ==
  /\ mails[a] <= 1
  /\ mails[a] > 0 => a \in flagged \/ \E w \in Workers : a \in sent[w]
  /\ \A w \in Workers : InRun(w) /\ a \in todo[w] => mails[a] = 0
  /\ \A w \in Workers : at[w] \in {"record", "send"} /\ cur[w] = a => mails[a] = 0

Lone == \A v, w \in Workers : InRun(v) /\ InRun(w) => v = w

Neat == \A w \in Workers :
  /\ InRun(w) => cur[w] \notin todo[w]
  /\ at[w] \notin {"record", "finish"} => sent[w] = {}

OnceInv ==
  /\ Neat
  /\ "reminders" \notin crossed => Lone /\ \A a \in Appointments \ lost : Fresh(a)

\* Steps that leave the runs and their mails alone.
LEMMA OnceKept ==
  ASSUME OnceInv,
         crossed \subseteq crossed', lost \subseteq lost', flagged' = flagged,
         \A a \in Appointments : mails'[a] = mails[a],
         \A w \in Workers :
           /\ InRun(w)' <=> InRun(w)
           /\ sent'[w] = sent[w]
           /\ InRun(w) => at'[w] = at[w] /\ todo'[w] = todo[w] /\ cur'[w] = cur[w]
  PROVE  OnceInv'
<1>1. Neat'
  <2>1. \A w \in Workers : at[w] \in {"record", "finish"} => InRun(w)
    BY DEF InRun, Running
  <2> QED  BY <2>1 DEF OnceInv, Neat
<1>2. \A w \in Workers : at'[w] \in {"record", "send"} => InRun(w)'
  BY DEF InRun, Running
<1>3. ASSUME "reminders" \notin crossed'
      PROVE  Lone' /\ \A a \in Appointments \ lost' : Fresh(a)'
  <2>1. Lone /\ \A a \in Appointments \ lost : Fresh(a)
    BY <1>3 DEF OnceInv
  <2>2. Lone'
    BY <2>1 DEF Lone
  <2>3. ASSUME NEW a \in Appointments \ lost'
        PROVE  Fresh(a)'
    <3>1. Fresh(a) /\ mails'[a] = mails[a]
      BY <2>1
    <3> QED  BY <1>2, <3>1 DEF Fresh
  <2> QED  BY <2>2, <2>3
<1> QED  BY <1>1, <1>3 DEF OnceInv

\* Steps of the only run.
LEMMA OnceByOne ==
  ASSUME OnceInv, NEW w \in Workers, InRun(w), Others(w),
         crossed' = crossed, lost \subseteq lost',
         InRun(w)' => cur'[w] \notin todo'[w],
         at'[w] \notin {"record", "finish"} => sent'[w] = {},
         \A a \in Appointments \ lost' : Lone /\ Fresh(a) =>
           /\ mails'[a] <= 1
           /\ mails'[a] > 0 => a \in flagged' \/ \E v \in Workers : a \in sent'[v]
           /\ InRun(w)' /\ a \in todo'[w] => mails'[a] = 0
           /\ at'[w] \in {"record", "send"} /\ cur'[w] = a => mails'[a] = 0
  PROVE  OnceInv'
<1>1. Neat'
  BY DEF OnceInv, Neat, Others, InRun
<1>2. ASSUME "reminders" \notin crossed'
      PROVE  Lone' /\ \A a \in Appointments \ lost' : Fresh(a)'
  <2>1. Lone /\ \A a \in Appointments \ lost : Fresh(a)
    BY <1>2 DEF OnceInv
  <2>2. \A v \in Workers : InRun(v)' => v = w
    BY <2>1 DEF Lone, Others, InRun
  <2>3. Lone'
    BY <2>2 DEF Lone
  <2>4. \A v \in Workers : at'[v] \in {"record", "send"} => InRun(v)'
    BY DEF InRun, Running
  <2>5. ASSUME NEW a \in Appointments \ lost'
        PROVE  Fresh(a)'
    BY <2>1, <2>2, <2>4 DEF Fresh
  <2> QED  BY <2>3, <2>5
<1> QED  BY <1>1, <1>2 DEF OnceInv

LEMMA OnceStep == Typed /\ OnceInv /\ [Next]_vars => OnceInv'
<1> SUFFICES ASSUME Typed, OnceInv, [Next]_vars
             PROVE  OnceInv'
  OBVIOUS
<1>1. /\ \A a \in Appointments : mails[a] \in Nat
      /\ \A w \in Workers : InRun(w) => todo[w] \subseteq Appointments
      /\ \A w \in Workers : InRun(w) <=> at[w] \in Running
  BY MailsGrow DEF Typed, TypeOK, JobsOK, Subjects, InRun
<1>2. ASSUME NEW w \in Workers, Remind(w)
      PROVE  OnceInv'
  <2>1. flagged' = flagged /\ mails' = mails /\ lost' = lost
    BY <1>2 DEF Remind, appointments
  <2>2. crossed' = IF \E v \in Workers : InRun(v) THEN crossed \cup {"reminders"} ELSE crossed
    BY <1>2 DEF Remind, Takes, In
  <2>3. CASE UNCHANGED jobs
    BY <2>1, <2>2, <2>3, OnceKept DEF jobs, InRun
  <2>4. CASE ~UNCHANGED jobs
    <3>1. /\ at[w] = "idle" /\ at'[w] = "record" /\ cur'[w] \in Selected
          /\ todo'[w] = Selected \ {cur'[w]} /\ sent'[w] = {} /\ Others(w)
      BY <1>2, <2>4, RemindIs
    <3>2. Neat'
      BY <3>1 DEF OnceInv, Neat, Others, InRun
    <3>3. ASSUME "reminders" \notin crossed'
          PROVE  Lone' /\ \A a \in Appointments \ lost' : Fresh(a)'
      <4>1. "reminders" \notin crossed /\ ~\E v \in Workers : InRun(v)
        BY <2>2, <3>3
      <4>2. Lone' /\ \A v \in Workers : v # w => ~InRun(v)'
        BY <3>1, <4>1 DEF Lone, InRun, Others
      <4>3. ASSUME NEW a \in Appointments \ lost
            PROVE  Fresh(a)'
        <5>1. Fresh(a) /\ \A v \in Workers : sent[v] = {}
          BY <4>1 DEF OnceInv, Neat, InRun, Running
        <5>2. mails[a] > 0 => a \in flagged
          BY <5>1 DEF Fresh
        <5>3. a \in Selected => mails[a] = 0
          BY <1>1, <5>2 DEF Selected
        <5>4. \A v \in Workers : v # w => at'[v] \notin {"record", "send"}
          BY <4>2 DEF InRun, Running
        <5> QED  BY <2>1, <3>1, <4>2, <5>1, <5>2, <5>3, <5>4 DEF Fresh
      <4> QED  BY <2>1, <4>2, <4>3
    <3> QED  BY <3>2, <3>3 DEF OnceInv
  <2> QED  BY <2>3, <2>4
<1>3. ASSUME NEW w \in Workers, Record(w)
      PROVE  OnceInv'
  <2>1. flagged' = flagged \cup sent[w] /\ mails' = mails /\ lost' = lost /\ crossed' = crossed
    BY <1>3 DEF Record, history
  <2>2. /\ at[w] = "record" /\ at'[w] = "send" /\ todo'[w] = todo[w]
        /\ cur'[w] = cur[w] /\ sent'[w] = {} /\ Others(w)
    BY <1>3, RecordIs
  <2>3. InRun(w) /\ InRun(w)'
    BY <2>2 DEF InRun, Running
  <2>4. cur'[w] \notin todo'[w]
    BY <2>2, <2>3 DEF OnceInv, Neat
  <2>5. \A a \in Appointments : a \in flagged \/ (\E v \in Workers : a \in sent[v]) =>
          a \in flagged' \/ \E v \in Workers : a \in sent'[v]
    BY <2>1, <2>2 DEF Others
  <2> QED  BY <2>1, <2>2, <2>3, <2>4, <2>5, OnceByOne DEF Fresh
<1>4. ASSUME NEW w \in Workers, Send(w)
      PROVE  OnceInv'
  <2>1. flagged' = flagged /\ lost' = lost /\ crossed' = crossed /\ at[w] = "send"
    BY <1>4 DEF Send, appointments
  <2>2. InRun(w)
    BY <2>1 DEF InRun, Running
  <2>3. cur[w] \in Appointments /\ mails'[cur[w]] = mails[cur[w]] + 1
        /\ \A a \in Appointments : a # cur[w] => mails'[a] = mails[a]
    BY <1>4, SendIs DEF Subjects
  <2>4. /\ sent'[w] = {cur[w]} /\ todo'[w] \subseteq todo[w]
        /\ \/ at'[w] = "finish" /\ todo'[w] = {} /\ cur'[w] = NoOne
           \/ at'[w] = "record" /\ cur'[w] \in todo[w] /\ todo'[w] = todo[w] \ {cur'[w]}
        /\ Others(w)
    BY <1>4, OnwardIs DEF Send, Others
  <2>5. InRun(w)' /\ cur'[w] \notin todo'[w] /\ cur[w] \notin todo[w]
    BY <2>2, <2>4 DEF OnceInv, Neat, InRun, Running
  <2>6. ASSUME NEW a \in Appointments \ lost', Lone, Fresh(a)
        PROVE  /\ mails'[a] <= 1
               /\ mails'[a] > 0 => a \in flagged' \/ \E v \in Workers : a \in sent'[v]
               /\ InRun(w)' /\ a \in todo'[w] => mails'[a] = 0
               /\ at'[w] \in {"record", "send"} /\ cur'[w] = a => mails'[a] = 0
    <3>1. CASE a = cur[w]
      <4>1. mails'[a] = 1
        <5>1. mails[a] = 0
          BY <2>1, <2>6, <3>1 DEF Fresh
        <5> QED  BY <2>3, <3>1, <5>1
      <4>2. a \in sent'[w] /\ a \notin todo[w]
        BY <2>4, <2>5, <3>1
      <4>3. ~(at'[w] \in {"record", "send"} /\ cur'[w] = a)
        BY <2>4, <4>2
      <4> QED  BY <2>4, <4>1, <4>2, <4>3
    <3>2. CASE a # cur[w]
      <4>1. mails'[a] = mails[a]
        BY <2>3, <3>2
      <4>2. ASSUME mails[a] > 0
            PROVE  a \in flagged' \/ \E v \in Workers : a \in sent'[v]
        <5>1. a \in flagged \/ \E v \in Workers : a \in sent[v]
          BY <2>6, <4>2 DEF Fresh
        <5>2. sent[w] = {}
          BY <2>1 DEF OnceInv, Neat
        <5> QED  BY <2>1, <2>4, <5>1, <5>2 DEF Others
      <4>3. /\ a \in todo[w] => mails[a] = 0
            /\ mails[a] <= 1
        BY <2>2, <2>6 DEF Fresh
      <4> QED  BY <2>4, <4>1, <4>2, <4>3
    <3> QED  BY <3>1, <3>2
  <2> QED  BY <2>1, <2>2, <2>4, <2>5, <2>6, OnceByOne
<1>5. ASSUME NEW w \in Workers, Refused(w)
      PROVE  OnceInv'
  <2>1. /\ flagged' = flagged /\ lost' = lost /\ crossed' = crossed /\ mails' = mails
        /\ at[w] = "send"
    BY <1>5 DEF Refused, appointments
  <2>2. InRun(w)
    BY <2>1 DEF InRun, Running
  <2>3. /\ sent'[w] = {} /\ todo'[w] \subseteq todo[w]
        /\ \/ at'[w] = "finish" /\ todo'[w] = {} /\ cur'[w] = NoOne
           \/ at'[w] = "record" /\ cur'[w] \in todo[w] /\ todo'[w] = todo[w] \ {cur'[w]}
        /\ Others(w)
    BY <1>5, OnwardIs DEF Refused, Others
  <2>4. InRun(w)' /\ cur'[w] \notin todo'[w] /\ sent[w] = {}
    BY <2>1, <2>3 DEF OnceInv, Neat, InRun, Running
  <2>5. ASSUME NEW a \in Appointments \ lost', Lone, Fresh(a)
        PROVE  /\ mails'[a] <= 1
               /\ mails'[a] > 0 => a \in flagged' \/ \E v \in Workers : a \in sent'[v]
               /\ InRun(w)' /\ a \in todo'[w] => mails'[a] = 0
               /\ at'[w] \in {"record", "send"} /\ cur'[w] = a => mails'[a] = 0
    BY <2>1, <2>2, <2>3, <2>4, <2>5 DEF Fresh, Others
  <2> QED  BY <2>1, <2>2, <2>3, <2>4, <2>5, OnceByOne
<1>6. ASSUME NEW w \in Workers, Finish(w)
      PROVE  OnceInv'
  <2>1. /\ flagged' = flagged \cup sent[w] /\ lost' = lost /\ crossed' = crossed
        /\ mails' = mails /\ at[w] = "finish"
    BY <1>6 DEF Finish, history
  <2>2. InRun(w)
    BY <2>1 DEF InRun, Running
  <2>3. at'[w] = "idle" /\ sent'[w] = {} /\ Others(w)
    BY <1>6, LeavesIs DEF Finish
  <2>4. ~InRun(w)'
    BY <2>3 DEF InRun, Running
  <2>5. \A a \in Appointments : a \in flagged \/ (\E v \in Workers : a \in sent[v]) =>
          a \in flagged' \/ \E v \in Workers : a \in sent'[v]
    BY <2>1, <2>3 DEF Others
  <2> QED  BY <2>1, <2>2, <2>3, <2>4, <2>5, OnceByOne DEF Fresh
<1>7. ASSUME NEW w \in Workers, Die(w)
      PROVE  OnceInv'
  <2>1. /\ flagged' = flagged /\ lost \subseteq lost' /\ crossed' = crossed /\ mails' = mails
        /\ at[w] # "idle"
    BY <1>7 DEF Die, Busy, appointments
  <2>2. at'[w] = "idle" /\ sent'[w] = {} /\ Others(w)
    BY <1>7, LeavesIs DEF Die
  <2>3. ~InRun(w)'
    BY <2>2 DEF InRun, Running
  <2>4. CASE InRun(w)
    <3>1. sent[w] \subseteq lost'
      BY <1>7 DEF Die, Typed, TypeOK, JobsOK
    <3>2. \A a \in Appointments \ lost' : a \in flagged \/ (\E v \in Workers : a \in sent[v]) =>
            a \in flagged' \/ \E v \in Workers : a \in sent'[v]
      BY <2>1, <2>2, <3>1 DEF Others
    <3> QED  BY <2>1, <2>2, <2>3, <2>4, <3>2, OnceByOne DEF Fresh
  <2>5. CASE ~InRun(w)
    <3>1. sent[w] = {}
      BY <2>5 DEF OnceInv, Neat, InRun, Running
    <3> QED  BY <2>1, <2>2, <2>3, <2>5, <3>1, OnceKept DEF Others, InRun
  <2> QED  BY <2>4, <2>5
<1>8. ASSUME NEW w \in Workers, CheckDeadlines(w) \/ MarkOverdue(w) \/ Alert(w)
      PROVE  OnceInv'
  <2>1. flagged' = flagged /\ lost' = lost /\ crossed \subseteq crossed'
    BY <1>8 DEF CheckDeadlines, MarkOverdue, Alert, Takes, appointments, history
  <2>2. \A a \in Appointments : mails'[a] = mails[a]
    <3>1. CASE Alert(w)
      <4>1. PICK d \in Documents : \A x \in Subjects : x # d => mails'[x] = mails[x]
        BY <3>1, AlertIs
      <4>2. \A a \in Appointments : a \in Subjects /\ a # d
        BY <4>1 DEF Subjects
      <4> QED  BY <4>1, <4>2
    <3> QED  BY <1>8, <3>1 DEF CheckDeadlines, MarkOverdue, history
  <2>3. CASE UNCHANGED jobs
    BY <2>1, <2>2, <2>3, OnceKept DEF jobs, InRun
  <2>4. CASE ~UNCHANGED jobs
    <3>1. at[w] \in {"idle", "mark", "alert"} /\ at'[w] \in {"idle", "mark", "alert"}
          /\ sent'[w] = {} /\ Others(w)
      BY <1>8, <2>4, CheckIs, MarkIs, AlertIs DEF Others
    <3>2. ~InRun(w) /\ ~InRun(w)' /\ sent[w] = {}
      BY <3>1 DEF OnceInv, Neat, InRun, Running
    <3> QED  BY <2>1, <2>2, <3>1, <3>2, OnceKept DEF Others, InRun
  <2> QED  BY <2>3, <2>4
<1>9. CASE /\ flagged' = flagged /\ lost' = lost /\ mails' = mails /\ crossed' = crossed
           /\ UNCHANGED jobs
  BY <1>9, OnceKept DEF jobs, InRun
<1>10. \/ \E w \in Workers : \/ Remind(w) \/ Record(w) \/ Send(w) \/ Refused(w) \/ Finish(w)
                             \/ CheckDeadlines(w) \/ MarkOverdue(w) \/ Alert(w) \/ Die(w)
       \/ /\ flagged' = flagged /\ lost' = lost /\ mails' = mails /\ crossed' = crossed
          /\ UNCHANGED jobs
  BY DEF Next, Tick, Withdraw, Arrange, Expire, Archive, vars, appointments, history
<1> QED  BY <1>2, <1>3, <1>4, <1>5, <1>6, <1>7, <1>8, <1>9, <1>10

(***************************************************************************)
(* A visitor is written to once, unless two runs were in progress at once  *)
(* or one died with the appointment: between the mail and the commit of    *)
(* the flag, the run that wrote is the only one.                           *)
(***************************************************************************)
THEOREM RemindersOnce == Spec => []RemindedOnce
<1>1. Init => OnceInv
  <2>1. ASSUME Init
        PROVE  /\ \A w \in Workers : at[w] = "idle" /\ ~InRun(w) /\ sent[w] = {}
               /\ \A a \in Appointments : mails[a] = 0
    BY <2>1 DEF Init, InRun, Running, Subjects
  <2> QED  BY <2>1 DEF OnceInv, Neat, Lone, Fresh
<1>2. Typed /\ OnceInv => RemindedOnce
  <2>1. ASSUME Typed, OnceInv, NEW a \in Appointments, mails[a] > 1,
               "reminders" \notin crossed, a \notin lost
        PROVE  FALSE
    <3>1. mails[a] \in Nat
      <4>1. mails \in [Subjects -> 0 .. MaxMails] /\ a \in Subjects
        BY <2>1 DEF Typed, TypeOK, Subjects
      <4> QED  BY <4>1
    <3>2. mails[a] <= 1
      BY <2>1 DEF OnceInv, Fresh
    <3> QED  BY <2>1, <3>1, <3>2
  <2> QED  BY <2>1 DEF RemindedOnce
<1> QED  BY <1>1, <1>2, TypedAlways, OnceStep, PTL DEF Spec

-----------------------------------------------------------------------------
(* In time *)

\* The one run that reaches a time of the next day is the one that is due now.
LEMMA OneWindow ==
  ASSUME NEW t \in Nat, NEW u \in Nat, NEW s \in Nat,
         Due("reminders", t), Due("reminders", u), InWindow(u, s), s \div Day = t \div Day + 1
  PROVE  InWindow(t, s)
<1>1. t % 48 = 18 /\ u % 48 = 18 /\ u + 47 <= s /\ s <= u + 49 /\ s \div 48 = t \div 48 + 1
  BY DEF Due, InWindow, Day, Hour
<1>2. t = u
  BY <1>1
<1> QED  BY <1>2

LEMMA Ahead ==
  ASSUME NEW t \in Nat, NEW s \in Nat, s \div Day = t \div Day + 1
  PROVE  t < s
BY DEF Day

InHand(w, a) ==
  \/ InRun(w) /\ a \in todo[w]
  \/ at[w] \in {"record", "send"} /\ cur[w] = a

\* The run that is due reaches a, or has it in hand.
Awaits(a) ==
  /\ Due("reminders", now) /\ start[a] \in NextDay(now)
  /\ \/ /\ queue["reminders"] > 0 /\ a \in confirmed \ flagged
        /\ \A w \in Workers : ~InRun(w)
     \/ \E w \in Workers : InHand(w, a)

\* Who is owed a mail gets it with the time there is.
Rightly(a) ==
  \A w \in Workers : at[w] \in {"record", "send"} /\ cur[w] = a => time[w] = start[a]

Served(a) == start[a] \in Reached => told[a] = start[a] \/ Awaits(a)

Done == \A w \in Workers : at[w] = "finish" => todo[w] = {}

OwedInv == Done /\ \A a \in owed : Rightly(a) /\ Served(a)

LEMMA DoneStep == Typed /\ Done /\ [Next]_vars => Done'
<1> SUFFICES ASSUME Typed, Done, [Next]_vars
             PROVE  Done'
  OBVIOUS
<1>1. ASSUME NEW w \in Workers, at'[w] = "finish" => todo'[w] = {},
             \A v \in Workers : v # w => at'[v] = at[v] /\ todo'[v] = todo[v]
      PROVE  Done'
  BY <1>1 DEF Done
<1>2. CASE UNCHANGED jobs
  BY <1>2 DEF Done, jobs
<1>3. ASSUME NEW w \in Workers, Send(w) \/ Refused(w)
      PROVE  Done'
  BY <1>1, <1>3, OnwardIs DEF Send, Refused
<1>4. ASSUME NEW w \in Workers, Alert(w)
      PROVE  Done'
  BY <1>1, <1>4, AlertIs
<1>5. ASSUME NEW w \in Workers, ~UNCHANGED jobs,
             \/ Remind(w) \/ Record(w) \/ Finish(w) \/ Die(w)
             \/ CheckDeadlines(w) \/ MarkOverdue(w)
      PROVE  Done'
  <2>1. at'[w] # "finish" /\ Others(w)
    BY <1>5, RemindIs, RecordIs, LeavesIs, CheckIs, MarkIs DEF Finish, Die
  <2> QED  BY <1>1, <2>1 DEF Others
<1>6. \/ \E w \in Workers : \/ Remind(w) \/ Record(w) \/ Send(w) \/ Refused(w) \/ Finish(w)
                            \/ CheckDeadlines(w) \/ MarkOverdue(w) \/ Alert(w) \/ Die(w)
      \/ UNCHANGED jobs
  BY DEF Next, Tick, Withdraw, Arrange, Expire, Archive, vars
<1> QED  BY <1>2, <1>3, <1>4, <1>5, <1>6

\* Steps other than Tick: it is enough to look at what they do to the mails and
\* to the hands.
LEMMA OwedKept ==
  ASSUME Typed, OwedInv, Done', now' = now, owed' \subseteq owed,
         \A a \in owed' :
           /\ start'[a] = start[a]
           /\ told'[a] = told[a] \/ told'[a] = start[a]
           /\ Rightly(a)'
           /\ Awaits(a) => told'[a] = start[a] \/ Awaits(a)'
  PROVE  OwedInv'
<1>1. ASSUME NEW a \in owed'
      PROVE  Rightly(a)' /\ Served(a)'
  <2>1. Served(a) /\ start'[a] = start[a]
    BY <1>1 DEF OwedInv
  <2>2. ASSUME start'[a] \in Reached
        PROVE  told'[a] = start'[a] \/ Awaits(a)'
    <3>1. told[a] = start[a] \/ Awaits(a)
      BY <2>1, <2>2 DEF Served
    <3> QED  BY <1>1, <2>1, <3>1
  <2>3. Served(a)'
    BY <2>2 DEF Served, Reached
  <2> QED  BY <1>1, <2>3
<1> QED  BY <1>1 DEF OwedInv

LEMMA OwedTick == Typed /\ OwedInv /\ Tick /\ Done' => OwedInv'
<1> SUFFICES ASSUME Typed, OwedInv, Tick, Done'
             PROVE  OwedInv'
  OBVIOUS
<1>1. PICK t \in Instants :
        /\ now' = t
        /\ queue' = [k \in Tasks |-> IF Due(k, t) THEN queue[k] + 1 ELSE queue[k]]
        /\ owed' = IF queue["reminders"] > 0 \/ \E w \in Workers : InRun(w) THEN {}
                   ELSE IF Due("reminders", t)
                     THEN owed \cup {a \in confirmed \ flagged : start[a] \in NextDay(t)}
                   ELSE owed
        /\ UNCHANGED <<appointments, documents, jobs, told, mails, crossed, lost>>
  BY DEF Tick
<1>2. ASSUME NEW a \in owed'
      PROVE  Rightly(a)' /\ Served(a)'
  <2>1. ~(queue["reminders"] > 0) /\ \A w \in Workers : ~InRun(w)
    BY <1>1, <1>2
  <2>2. \A w \in Workers : at[w] \notin {"record", "send"}
    BY <2>1 DEF InRun, Running
  <2>3. Rightly(a)'
    BY <1>1, <2>2 DEF Rightly, jobs
  <2>4. CASE a \in owed
    <3>1. ~Awaits(a)
      BY <2>1, <2>2 DEF Awaits, InHand
    <3>2. start[a] \in Reached => told[a] = start[a]
      BY <2>4, <3>1 DEF OwedInv, Served
    <3> QED  BY <1>1, <2>3, <3>2 DEF Served, Reached, appointments
  <2>5. CASE /\ Due("reminders", t)
             /\ a \in confirmed \ flagged /\ start[a] \in NextDay(t)
    <3>1. queue["reminders"] \in Nat /\ "reminders" \in Tasks
      BY DEF Typed, TypeOK, Tasks
    <3>2. queue'["reminders"] = queue["reminders"] + 1
      BY <1>1, <2>5, <3>1
    <3>3. queue'["reminders"] > 0
      BY <3>1, <3>2
    <3>4. start' = start /\ confirmed' = confirmed /\ flagged' = flagged /\ at' = at
      BY <1>1 DEF appointments, jobs
    <3>5. \A w \in Workers : ~InRun(w)'
      BY <2>1, <3>4 DEF InRun
    <3>6. Awaits(a)'
      BY <1>1, <2>5, <3>3, <3>4, <3>5 DEF Awaits, NextDay, Due
    <3> QED  BY <2>3, <3>6 DEF Served
  <2> QED  BY <1>1, <1>2, <2>4, <2>5
<1> QED  BY <1>2 DEF OwedInv

\* The run that is due selects those who are owed its mail, if it can reach them.
LEMMA OwedRemind ==
  ASSUME Typed, OwedInv, Done', NEW w \in Workers, Remind(w)
  PROVE  OwedInv'
<1>1. /\ UNCHANGED <<now, appointments, documents, told, mails, owed, lost>>
      /\ at[w] = "idle"
  BY RemindIs DEF Remind
<1>2. ASSUME NEW a \in owed', a \in Appointments, UNCHANGED jobs
      PROVE  Rightly(a)' /\ Served(a)'
  <2>1. Rightly(a) /\ Served(a)
    BY <1>1, <1>2 DEF OwedInv
  <2>2. ASSUME start[a] \in Reached, Awaits(a)
        PROVE  \E v \in Workers : InHand(v, a)
    <3>1. a \notin Selected
      <4>1. Selected = {}
        <5>1. CASE Selected = {}
          BY <5>1
        <5>2. ASSUME NEW b \in Selected, Becomes(w, "record", Selected \ {b}, b, start[b], {})
              PROVE  FALSE
          <6>1. at'[w] = "record"
            BY <5>2, BecomesIs DEF Typed, TypeOK
          <6> QED  BY <1>1, <1>2, <6>1 DEF jobs
        <5> QED  BY <5>1, <5>2 DEF Remind
      <4> QED  BY <4>1
    <3>2. start[a] \in Starts /\ start[a] \in Nat /\ start[a] # NoTime /\ now \in Nat
      BY <2>2 DEF Reached, Typed, TypeOK
    <3>3. PICK u \in Instants : Due("reminders", u) /\ InWindow(u, start[a])
      BY <2>2 DEF Reached
    <3>4. InWindow(now, start[a])
      BY <2>2, <3>2, <3>3, OneWindow DEF Awaits, NextDay
    <3>5. a \notin confirmed \ flagged
      BY <3>1, <3>2, <3>4 DEF Selected
    <3> QED  BY <2>2, <3>5 DEF Awaits
  <2>3. start' = start /\ told' = told /\ now' = now
    BY <1>1 DEF appointments
  <2>4. (\E v \in Workers : InHand(v, a)) => (\E v \in Workers : InHand(v, a)')
    BY <1>2 DEF InHand, InRun, jobs
  <2>5. Served(a)'
    BY <2>1, <2>2, <2>3, <2>4 DEF Served, Reached, Awaits, NextDay, Due
  <2>6. Rightly(a)'
    BY <1>2, <2>1, <2>3 DEF Rightly, jobs
  <2> QED  BY <2>5, <2>6
<1>3. ASSUME NEW a \in owed', a \in Appointments, ~UNCHANGED jobs
      PROVE  Rightly(a)' /\ Served(a)'
  <2>1. Rightly(a) /\ Served(a)
    BY <1>1, <1>3 DEF OwedInv
  <2>2. start' = start /\ told' = told /\ now' = now
    BY <1>1 DEF appointments
  <2>3. /\ at'[w] = "record" /\ cur'[w] \in Selected /\ todo'[w] = Selected \ {cur'[w]}
        /\ time'[w] = start[cur'[w]] /\ Others(w)
    BY <1>3, RemindIs
  <2>4. Rightly(a)'
    BY <2>1, <2>2, <2>3 DEF Rightly, Others
  <2>5. ASSUME start[a] \in Reached, Awaits(a)
        PROVE  \E v \in Workers : InHand(v, a)'
    <3>1. start[a] \in Starts /\ start[a] \in Nat /\ start[a] # NoTime /\ now \in Nat
      BY <2>5 DEF Reached, Typed, TypeOK
    <3>2. PICK u \in Instants : Due("reminders", u) /\ InWindow(u, start[a])
      BY <2>5 DEF Reached
    <3>3. InWindow(now, start[a])
      BY <2>5, <3>1, <3>2, OneWindow DEF Awaits, NextDay
    <3>4. CASE a \in confirmed \ flagged
      <4>1. a \in Selected
        BY <3>1, <3>3, <3>4 DEF Selected
      <4>2. InHand(w, a)'
        BY <2>3, <4>1 DEF InHand, InRun, Running
      <4> QED  BY <4>2
    <3>5. ASSUME NEW v \in Workers, InHand(v, a)
          PROVE  InHand(v, a)'
      <4>1. v # w
        BY <1>1, <3>5 DEF InHand, InRun, Running
      <4> QED  BY <2>3, <3>5, <4>1 DEF InHand, InRun, Others
    <3> QED  BY <2>5, <3>4, <3>5 DEF Awaits
  <2>6. Served(a)'
    BY <2>1, <2>2, <2>5 DEF Served, Reached, Awaits, NextDay, Due
  <2> QED  BY <2>4, <2>6
<1>4. owed' \subseteq Appointments
  BY <1>1 DEF Typed, TypeOK
<1> QED  BY <1>2, <1>3, <1>4 DEF OwedInv

\* Steps that neither take a run nor tell anybody: whom the run has in hand it
\* keeps in hand, or is not owed a mail any more.
LEMMA OwedQuiet ==
  ASSUME Typed, OwedInv, Done', now' = now, owed' \subseteq owed, told' = told,
         queue'["reminders"] = queue["reminders"],
         \A w \in Workers : InRun(w)' => InRun(w),
         \A a \in owed' :
           /\ start'[a] = start[a]
           /\ Rightly(a)'
           /\ (\A w \in Workers : ~InRun(w)) /\ a \in confirmed \ flagged =>
                a \in confirmed' \ flagged'
           /\ \A w \in Workers : InHand(w, a) => InHand(w, a)'
  PROVE  OwedInv'
<1>1. ASSUME NEW a \in owed', Awaits(a)
      PROVE  Awaits(a)'
  <2>1. Due("reminders", now)' /\ start'[a] \in NextDay(now)'
    BY <1>1 DEF Awaits, NextDay, Due
  <2>2. CASE \E w \in Workers : InHand(w, a)
    BY <1>1, <2>1, <2>2 DEF Awaits
  <2>3. CASE /\ queue["reminders"] > 0 /\ a \in confirmed \ flagged
             /\ \A w \in Workers : ~InRun(w)
    BY <1>1, <2>1, <2>3 DEF Awaits
  <2> QED  BY <1>1, <2>2, <2>3 DEF Awaits
<1> QED  BY <1>1, OwedKept

LEMMA OwedStep == Typed /\ OwedInv /\ [Next]_vars => OwedInv'
<1> SUFFICES ASSUME Typed, OwedInv, [Next]_vars
             PROVE  OwedInv'
  OBVIOUS
<1>1. Done'
  BY DoneStep DEF OwedInv
<1>2. \A a \in owed : Rightly(a)
  BY DEF OwedInv
<1>3. CASE Tick
  BY <1>1, <1>3, OwedTick
<1>4. ASSUME NEW b \in Appointments, Withdraw(b)
      PROVE  OwedInv'
  <2>1. /\ now' = now /\ owed' = owed \ {b} /\ told' = told /\ queue' = queue /\ start' = start
        /\ confirmed' = confirmed \ {b} /\ flagged' = flagged
        /\ at' = at /\ todo' = todo /\ cur' = cur /\ time' = time
    BY <1>4 DEF Withdraw, jobs
  <2> QED  BY <1>1, <1>2, <2>1, OwedQuiet DEF InRun, InHand, Rightly
<1>5. ASSUME NEW b \in Appointments, NEW s \in Starts, Arrange(b, s)
      PROVE  OwedInv'
  <2>1. /\ now' = now /\ owed' = owed \ {b} /\ told' = told /\ queue' = queue
        /\ confirmed' = confirmed \cup {b} /\ flagged' = flagged
        /\ at' = at /\ todo' = todo /\ cur' = cur /\ time' = time
    BY <1>5 DEF Arrange, jobs
  <2>2. \A a \in owed' : start'[a] = start[a]
    BY <1>5, <2>1 DEF Arrange, Typed, TypeOK
  <2> QED  BY <1>1, <1>2, <2>1, <2>2, OwedQuiet DEF InRun, InHand, Rightly
<1>6. ASSUME NEW w \in Workers, Remind(w)
      PROVE  OwedInv'
  BY <1>1, <1>6, OwedRemind
<1>7. ASSUME NEW w \in Workers, Record(w)
      PROVE  OwedInv'
  <2>1. /\ now' = now /\ owed' = owed /\ told' = told /\ queue' = queue /\ start' = start
        /\ confirmed' = confirmed
    BY <1>7 DEF Record, history
  <2>2. /\ at[w] = "record" /\ at'[w] = "send" /\ todo'[w] = todo[w]
        /\ cur'[w] = cur[w] /\ time'[w] = time[w] /\ Others(w)
    BY <1>7, RecordIs
  <2>3. InRun(w) /\ InRun(w)'
    BY <2>2 DEF InRun, Running
  <2>4. \A v \in Workers : InRun(v)' => InRun(v)
    BY <2>2, <2>3 DEF Others, InRun
  <2>5. ASSUME NEW a \in owed
        PROVE  Rightly(a)' /\ \A v \in Workers : InHand(v, a) => InHand(v, a)'
    <3>1. Rightly(a)'
      BY <1>2, <2>1, <2>2, <2>5 DEF Rightly, Others
    <3>2. \A v \in Workers : InHand(v, a) => InHand(v, a)'
      BY <2>2, <2>3 DEF InHand, InRun, Others
    <3> QED  BY <3>1, <3>2
  <2> QED  BY <1>1, <2>1, <2>3, <2>4, <2>5, OwedQuiet
<1>8. ASSUME NEW w \in Workers, Send(w)
      PROVE  OwedInv'
  <2>1. /\ now' = now /\ owed' = owed /\ start' = start /\ at[w] = "send"
    BY <1>8 DEF Send, appointments
  <2>2. InRun(w)
    BY <2>1 DEF InRun, Running
  <2>3. /\ told'[cur[w]] = time[w]
        /\ \A a \in Appointments : a # cur[w] => told'[a] = told[a]
    BY <1>8, SendIs
  <2>4. /\ \/ at'[w] = "finish" /\ todo[w] = {}
           \/ at'[w] = "record" /\ todo'[w] = todo[w] \ {cur'[w]} /\ time'[w] = start[cur'[w]]
        /\ Others(w)
    BY <1>8, OnwardIs DEF Send, Others
  <2>5. ASSUME NEW a \in owed
        PROVE  /\ told'[a] = told[a] \/ told'[a] = start[a]
               /\ Rightly(a)'
               /\ Awaits(a) => told'[a] = start[a] \/ Awaits(a)'
    <3>1. a = cur[w] => told'[a] = start[a]
      BY <1>2, <2>1, <2>3, <2>5 DEF Rightly
    <3>2. a # cur[w] => told'[a] = told[a]
      BY <2>3, <2>5 DEF Typed, TypeOK
    <3>3. Rightly(a)'
      BY <1>2, <2>1, <2>4, <2>5 DEF Rightly, Others
    <3>4. ASSUME NEW v \in Workers, InHand(v, a), a # cur[w]
          PROVE  InHand(v, a)'
      <4>1. CASE v = w
        <5>1. a \in todo[w]
          BY <3>4, <4>1 DEF InHand
        <5>2. at'[w] = "record" /\ todo'[w] = todo[w] \ {cur'[w]}
          BY <2>4, <5>1
        <5> QED  BY <4>1, <5>1, <5>2 DEF InHand, InRun, Running
      <4>2. CASE v # w
        BY <2>4, <3>4, <4>2 DEF InHand, InRun, Others
      <4> QED  BY <4>1, <4>2
    <3>5. Awaits(a) /\ a # cur[w] => Awaits(a)'
      BY <2>1, <2>2, <3>4 DEF Awaits, NextDay, Due
    <3> QED  BY <3>1, <3>2, <3>3, <3>5
  <2> QED  BY <1>1, <2>1, <2>5, OwedKept
<1>9. ASSUME NEW w \in Workers, Refused(w)
      PROVE  OwedInv'
  <2>1. /\ now' = now /\ owed' = owed \ {cur[w]} /\ told' = told /\ queue' = queue
        /\ start' = start /\ confirmed' = confirmed /\ flagged' = flagged /\ at[w] = "send"
    BY <1>9 DEF Refused, appointments
  <2>2. /\ \/ at'[w] = "finish" /\ todo[w] = {}
           \/ at'[w] = "record" /\ todo'[w] = todo[w] \ {cur'[w]} /\ time'[w] = start[cur'[w]]
        /\ Others(w)
    BY <1>9, OnwardIs DEF Refused, Others
  <2>3. \A v \in Workers : InRun(v)' => InRun(v)
    BY <2>1, <2>2 DEF InRun, Running, Others
  <2>4. ASSUME NEW a \in owed, a # cur[w]
        PROVE  Rightly(a)' /\ \A v \in Workers : InHand(v, a) => InHand(v, a)'
    <3>1. Rightly(a)'
      BY <1>2, <2>1, <2>2, <2>4 DEF Rightly, Others
    <3>2. InHand(w, a) => InHand(w, a)'
      <4>1. ASSUME InHand(w, a)
            PROVE  InHand(w, a)'
        <5>1. a \in todo[w]
          BY <2>4, <4>1 DEF InHand
        <5>2. at'[w] = "record" /\ todo'[w] = todo[w] \ {cur'[w]}
          BY <2>2, <5>1
        <5> QED  BY <5>1, <5>2 DEF InHand, InRun, Running
      <4> QED  BY <4>1
    <3>3. \A v \in Workers : v # w /\ InHand(v, a) => InHand(v, a)'
      BY <2>2 DEF InHand, InRun, Others
    <3> QED  BY <3>1, <3>2, <3>3
  <2> QED  BY <1>1, <2>1, <2>3, <2>4, OwedQuiet
<1>10. ASSUME NEW w \in Workers, Finish(w)
       PROVE  OwedInv'
  <2>1. /\ now' = now /\ owed' = owed /\ told' = told /\ queue' = queue
        /\ start' = start /\ confirmed' = confirmed /\ at[w] = "finish"
    BY <1>10 DEF Finish, history
  <2>2. at'[w] = "idle" /\ Others(w)
    BY <1>10, LeavesIs DEF Finish
  <2>3. InRun(w) /\ \A v \in Workers : InRun(v)' => InRun(v)
    BY <2>1, <2>2 DEF InRun, Running, Others
  <2>4. todo[w] = {}
    BY <2>1 DEF OwedInv, Done
  <2>5. ASSUME NEW a \in owed
        PROVE  Rightly(a)' /\ \A v \in Workers : InHand(v, a) => InHand(v, a)'
    <3>1. Rightly(a)'
      BY <1>2, <2>1, <2>2, <2>5 DEF Rightly, Others
    <3>2. ~InHand(w, a)
      BY <2>1, <2>4 DEF InHand
    <3>3. \A v \in Workers : v # w /\ InHand(v, a) => InHand(v, a)'
      BY <2>2 DEF InHand, InRun, Others
    <3> QED  BY <3>1, <3>2, <3>3
  <2> QED  BY <1>1, <2>1, <2>3, <2>5, OwedQuiet
<1>11. ASSUME NEW w \in Workers, Die(w)
       PROVE  OwedInv'
  <2>1. /\ now' = now /\ told' = told /\ queue' = queue
        /\ owed' = owed \ (todo[w] \cup ((sent[w] \cup {cur[w]}) \ {NoOne}))
        /\ start' = start /\ confirmed' = confirmed /\ flagged' = flagged
    BY <1>11 DEF Die, appointments
  <2>2. at'[w] = "idle" /\ Others(w)
    BY <1>11, LeavesIs DEF Die
  <2>3. \A v \in Workers : InRun(v)' => InRun(v)
    BY <2>2 DEF InRun, Running, Others
  <2>4. ASSUME NEW a \in owed'
        PROVE  Rightly(a)' /\ \A v \in Workers : InHand(v, a) => InHand(v, a)'
    <3>1. Rightly(a)'
      BY <1>2, <2>1, <2>2, <2>4 DEF Rightly, Others
    <3>2. a \in Appointments /\ a # NoOne
      BY <2>1, <2>4 DEF Typed, TypeOK
    <3>3. ~InHand(w, a)
      BY <2>1, <2>4, <3>2 DEF InHand
    <3>4. \A v \in Workers : v # w /\ InHand(v, a) => InHand(v, a)'
      BY <2>2 DEF InHand, InRun, Others
    <3> QED  BY <3>1, <3>3, <3>4
  <2> QED  BY <1>1, <2>1, <2>3, <2>4, OwedQuiet
<1>12. ASSUME NEW w \in Workers, CheckDeadlines(w) \/ MarkOverdue(w) \/ Alert(w)
       PROVE  OwedInv'
  <2>1. /\ now' = now /\ owed' = owed /\ told' = told
        /\ start' = start /\ confirmed' = confirmed /\ flagged' = flagged
    BY <1>12 DEF CheckDeadlines, MarkOverdue, Alert, appointments, history
  <2>2. queue'["reminders"] = queue["reminders"]
    BY <1>12 DEF CheckDeadlines, MarkOverdue, Alert, Takes, Typed, TypeOK, Tasks
  <2>3. CASE UNCHANGED jobs
    BY <1>1, <1>2, <2>1, <2>2, <2>3, OwedQuiet DEF jobs, InRun, InHand, Rightly
  <2>4. CASE ~UNCHANGED jobs
    <3>1. at[w] \in {"idle", "mark", "alert"} /\ at'[w] \in {"idle", "mark", "alert"}
          /\ Others(w)
      BY <1>12, <2>4, CheckIs, MarkIs, AlertIs DEF Others
    <3>2. ~InRun(w) /\ ~InRun(w)'
      BY <3>1 DEF InRun, Running
    <3>3. \A v \in Workers : InRun(v)' => InRun(v)
      BY <3>1, <3>2 DEF InRun, Others
    <3>4. ASSUME NEW a \in owed
          PROVE  Rightly(a)' /\ \A v \in Workers : InHand(v, a) => InHand(v, a)'
      <4>1. Rightly(a)'
        BY <1>2, <2>1, <3>1, <3>4 DEF Rightly, Others
      <4>2. \A v \in Workers : InHand(v, a) => InHand(v, a)'
        BY <3>1, <3>2 DEF InHand, InRun, Others
      <4> QED  BY <4>1, <4>2
    <3> QED  BY <1>1, <2>1, <2>2, <3>3, <3>4, OwedQuiet
  <2> QED  BY <2>3, <2>4
<1>13. CASE UNCHANGED <<now, appointments, queue, jobs, told, owed>>
  BY <1>1, <1>2, <1>13, OwedQuiet DEF appointments, jobs, InRun, InHand, Rightly
<1>14. \/ Tick
       \/ \E b \in Appointments : Withdraw(b) \/ \E s \in Starts : Arrange(b, s)
       \/ \E w \in Workers : \/ Remind(w) \/ Record(w) \/ Send(w) \/ Refused(w) \/ Finish(w)
                             \/ CheckDeadlines(w) \/ MarkOverdue(w) \/ Alert(w) \/ Die(w)
       \/ UNCHANGED <<now, appointments, queue, jobs, told, owed>>
  BY DEF Next, Expire, Archive, vars, history
<1> QED
  BY <1>3, <1>4, <1>5, <1>6, <1>7, <1>8, <1>9, <1>10, <1>11, <1>12, <1>13, <1>14

(***************************************************************************)
(* Who is owed a mail about a time a run reaches has it when that time     *)
(* comes: between the run being due and the mail, the run waits with       *)
(* nothing in its way, or has the appointment in hand; and it is due a day *)
(* ahead.                                                                  *)
(***************************************************************************)
THEOREM RemindersInTime == Spec => []RemindedInTime
<1>1. Init => OwedInv
  BY DEF Init, OwedInv, Done
<1>2. Typed /\ OwedInv => RemindedInTime
  <2>1. ASSUME Typed, OwedInv, NEW a \in owed, start[a] \in Reached, now >= start[a]
        PROVE  told[a] = start[a]
    <3>1. told[a] = start[a] \/ Awaits(a)
      BY <2>1 DEF OwedInv, Served
    <3>2. start[a] \in Nat /\ now \in Nat
      BY <2>1 DEF Reached, Typed, TypeOK
    <3>3. ~Awaits(a)
      <4>1. ~(start[a] \div Day = now \div Day + 1)
        BY <2>1, <3>2, Ahead
      <4> QED  BY <4>1 DEF Awaits, NextDay
    <3> QED  BY <3>1, <3>3
  <2> QED  BY <2>1 DEF RemindedInTime
<1> QED  BY <1>1, <1>2, TypedAlways, OwedStep, PTL DEF Spec
=============================================================================
