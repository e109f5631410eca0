------------------------------ MODULE MailDesk ------------------------------
(***************************************************************************)
(* Who can bring a document where.  One document is moved by users of the  *)
(* roles the application ships with, each step being what a role may do:   *)
(* take an edge the engine offers it, set another direction with PUT, or   *)
(* ask for the executive archive.  OCR may route the document, once.       *)
(* Requests run one after the other here; MailWorkflow is the module about *)
(* their interleavings.                                                    *)
(***************************************************************************)
EXTENDS MailTransitions, Naturals

VARIABLES
  stored,     \* are the migrations' definitions in the database?
  direction,  \* MailDocument.direction
  status,     \* MailDocument.status
  hands,      \* history: the roles that have moved the document so far
  redirected, \* history: has its direction been changed since the upload?
  ocr,        \* has OCR still to run?
  last        \* history: the last request served

vars == <<stored, direction, status, hands, redirected, ocr, last>>

Roles == DOMAIN DefaultRole

\* mail.update, the permission PUT /mail/{id} asks for.
Editors == {"master", "director", "admin", "secretary", "analyst",
            "receptionist"}

Definition(d) == IF stored THEN StoredEdges[d] ELSE {}

\* What GET /mail/{id}/available-actions answers to a user of the role.
Available(role) ==
  {e \in Transitions(Definition(direction), direction, status) :
     UserMay(role, e.action)}

Init ==
  /\ stored \in BOOLEAN
  /\ direction \in Direction
  /\ status = "received"
  /\ hands = {}
  /\ redirected = FALSE
  /\ ocr = "due"
  /\ last = "upload"

Take(role) ==
  \E e \in Available(role) :
    /\ status' = e.to
    /\ hands' = hands \cup {role}
    /\ last' = "transition"
    /\ UNCHANGED <<stored, direction, redirected, ocr>>

Redirect(role) ==
  /\ role \in Editors
  /\ direction' \in Direction \ {direction}
  /\ redirected' = TRUE
  /\ hands' = hands \cup {role}
  /\ last' = "update"
  /\ UNCHANGED <<stored, status, ocr>>

\* The direction's short cut.  The name WorkflowHistory is by then that of the
\* schema, whose validation raises: the assignments are never committed.
ExecutiveArchive(role) ==
  /\ role \in {"master", "director"}
  /\ status # "archived"
  /\ last' = "executive_archive"
  /\ UNCHANGED <<stored, direction, status, hands, redirected, ocr>>

\* Mutant: the status under its former name.
AutoRouteInReview ==
  /\ ocr = "due"
  /\ ocr' = "done"
  /\ status' = "in_review"
  /\ UNCHANGED <<stored, direction, hands, redirected, last>>

AutoRoute ==
  /\ ocr = "due"
  /\ ocr' = "done"
  /\ status' = "in_treatment"
  /\ UNCHANGED <<stored, direction, hands, redirected, last>>

Next ==
  \/ \E role \in Roles : Take(role)
  \/ \E role \in Roles : Redirect(role)
  \/ \E role \in Roles : ExecutiveArchive(role)
  \/ AutoRoute

Spec == Init /\ [][Next]_vars

TypeOK ==
  /\ stored \in BOOLEAN
  /\ direction \in Direction
  /\ status \in Status
  /\ hands \subseteq Roles
  /\ redirected \in BOOLEAN
  /\ ocr \in {"due", "done"}
  /\ last \in {"upload", "transition", "update", "executive_archive"}

-----------------------------------------------------------------------------
Hierarchy == {"master", "director", "admin"}
Decisions == {"approve", "reject", "director_forward_dg"}

(***************************************************************************)
(* A document is approved, rejected, closed or archived only if somebody   *)
(* of the hierarchy has acted on it, however many secretaries, analysts,   *)
(* receptionists and archivists take turns, change its direction or let    *)
(* OCR route it ("pas valider/rejeter (DG)", permissions.py).              *)
(***************************************************************************)
OnlyHierarchyDecides ==
  status \in {"approved", "rejected", "closed", "archived"} =>
    hands \cap Hierarchy # {}

(***************************************************************************)
(* Whatever is not a decision can be done without the hierarchy: each      *)
(* edge offered for the document is open to an operational role.           *)
(***************************************************************************)
ClerksCanWork ==
  \A e \in Transitions(Definition(direction), direction, status) :
    e.action \notin Decisions =>
      \E role \in Roles \ Hierarchy : UserMay(role, e.action)

(***************************************************************************)
(* The engine answers the same with and without the stored definitions     *)
(* ("même logique que le seed Alembic", mail_workflow_engine.py): the      *)
(* three migrations together yield the fallback table.                     *)
(***************************************************************************)
SeedMatchesFallback ==
  Transitions(StoredEdges[direction], direction, status)
    = Transitions({}, direction, status)

(***************************************************************************)
(* No dead end: whatever was done to the document, it can still be brought *)
(* to archived by edges of its direction alone.  A change of direction may *)
(* leave it in a status its new direction does not know; then one more     *)
(* change brings it back on a path.                                        *)
(***************************************************************************)
Table(b, d) == IF b THEN StoredEdges[d] ELSE {}

\* S and the statuses from which one edge leads into it; then two edges, four ...
Within1(b, d, S) ==
  S \cup {s \in Status : \E e \in Transitions(Table(b, d), d, s) : e.to \in S}
Within2(b, d, S) == Within1(b, d, Within1(b, d, S))
Within4(b, d, S) == Within2(b, d, Within2(b, d, S))
Within8(b, d, S) == Within4(b, d, Within4(b, d, S))

\* There are eleven statuses, so no way to archived is longer than ten edges.
BroughtToArchive(b, d) == Within4(b, d, Within8(b, d, {"archived"}))

ArchiveReachable ==
  \E d \in (IF redirected THEN Direction ELSE {direction}) :
    status \in BroughtToArchive(stored, d)

(***************************************************************************)
(* mail.py says of the endpoint "Archivage direct par la direction (sans   *)
(* enchaîner les étapes workflow)": a request that the guards let through  *)
(* archives the document.                                                  *)
(***************************************************************************)
ExecutiveArchiveArchives == last = "executive_archive" => status = "archived"
=============================================================================
