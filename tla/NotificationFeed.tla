-------------------------- MODULE NotificationFeed --------------------------
(***************************************************************************)
(* What the bell promises: in-app notifications are rows that come up and  *)
(* are read, and each browser tab lists the newest of them, as they were   *)
(* at some moment: never what was not stored, and never an older state     *)
(* than it listed before.                                                  *)
(***************************************************************************)
EXTENDS Naturals, FiniteSets

CONSTANTS
  Notes,  \* the notifications of a user
  Tabs,   \* the browser tabs in which the user is signed in
  Limit   \* the length of a list (the bell asks for 40)

ASSUME FeedAssumption == IsFiniteSet(Notes) /\ Limit \in Nat \ {0}

VARIABLES
  rows,  \* how far each notification has come
  upto,  \* those created no later than it, itself included; none before it is
  shown  \* how far it has come in the list of each tab

vars == <<rows, upto, shown>>

Absent == 0
Unread == 1
Read == 2
Level == Absent .. Read

Blank == [n \in Notes |-> Absent]

AtMost(f, g) == \A n \in Notes : f[n] <= g[n]

Created == {n \in Notes : upto[n] # {}}

\* Those of the rows f that a list puts before n.
Before(f, n) == {m \in Notes \ {n} : f[m] # Absent /\ n \in upto[m]}

\* The list of the rows f.
Newest(f) == [n \in Notes |-> IF Cardinality(Before(f, n)) < Limit THEN f[n] ELSE Absent]

Init ==
  /\ rows = Blank
  /\ upto = [n \in Notes |-> {}]
  /\ shown = [t \in Tabs |-> Blank]

\* A notification takes its time of creation, and is committed later.
Create(n) ==
  /\ upto[n] = {}
  /\ upto' = [upto EXCEPT ![n] = Created \cup {n}]
  /\ UNCHANGED <<rows, shown>>

Post(n) ==
  /\ rows[n] = Absent /\ n \in Created
  /\ rows' = [rows EXCEPT ![n] = Unread]
  /\ UNCHANGED <<upto, shown>>

MarkRead(N) ==
  /\ rows' = [n \in Notes |-> IF n \in N /\ rows[n] = Unread THEN Read ELSE rows[n]]
  /\ UNCHANGED <<upto, shown>>

\* A list of rows that are no older than those listed so far.
Refresh(t) ==
  /\ \E past \in [Notes -> Level] :
       /\ AtMost(shown[t], past) /\ AtMost(past, rows)
       /\ shown' = [shown EXCEPT ![t] = Newest(past)]
  /\ UNCHANGED <<rows, upto>>

Next ==
  \/ \E n \in Notes : Create(n) \/ Post(n)
  \/ \E N \in SUBSET Notes : MarkRead(N)
  \/ \E t \in Tabs : Refresh(t)

Spec == Init /\ [][Next]_vars
=============================================================================
