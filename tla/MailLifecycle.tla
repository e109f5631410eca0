---------------------------- MODULE MailLifecycle ---------------------------
(***************************************************************************)
(* What the mail workflow promises, without sessions, columns or tasks: a  *)
(* document is registered once, then moves along the edges of its          *)
(* direction, each move on record and each archiving dated, and may be     *)
(* redirected or removed for good.                                         *)
(***************************************************************************)
CONSTANTS
  Docs,       \* document ids
  Direction,  \* the directions of mail
  Edges(_, _) \* the edges offered for a direction and a status

VARIABLE docs  \* for each document its place, and what can be seen of it

Document(place, dir) ==
  [place |-> place, status |-> "received", direction |-> dir,
   recorded |-> "received", dated |-> FALSE]

Absent == Document("absent", "inbound")
Removed == Document("purged", "inbound")

Init == docs = [d \in Docs |-> Absent]

Register(d) ==
  /\ docs[d] = Absent
  /\ \E dir \in Direction : docs' = [docs EXCEPT ![d] = Document("present", dir)]

Move(d) ==
  /\ docs[d].place = "present"
  /\ \E e \in Edges(docs[d].direction, docs[d].status) :
       docs' = [docs EXCEPT ![d] = [@ EXCEPT !.status = e.to, !.recorded = e.to,
                                             !.dated = e.to = "archived"]]

Redirect(d) ==
  /\ docs[d].place = "present"
  /\ \E dir \in Direction : docs' = [docs EXCEPT ![d].direction = dir]

Remove(d) ==
  /\ docs[d].place = "present"
  /\ docs' = [docs EXCEPT ![d] = Removed]

Next == \E d \in Docs : Register(d) \/ Move(d) \/ Redirect(d) \/ Remove(d)

Spec == Init /\ [][Next]_docs
=============================================================================
