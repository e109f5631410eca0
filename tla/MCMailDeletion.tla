--------------------------- MODULE MCMailDeletion ---------------------------
(***************************************************************************)
(* MailDeletion with a history variable that tells the runs in which one   *)
(* request follows the other and none dies from the rest.                  *)
(***************************************************************************)
EXTENDS MailDeletion

VARIABLE calm

calmVars == <<vars, calm>>

\* The deletion requests that were made or are being made.
Made == {r \in Requests : requests[r].status # "none" \/ \E s \in Sessions : session[s].req = r}

CalmInit == Init /\ calm = TRUE

CalmNext ==
  \/ \E s \in Sessions :
       /\ Arrive(s) \/ Proceed(s)
       /\ calm' = (calm /\ \A t \in Sessions \ {s} : session[t] = Idle)
  \/ \E s \in Sessions :
       /\ Fail(s) \/ DeadlockVictim(s)
       /\ calm' = FALSE

CalmSpec == CalmInit /\ [][CalmNext]_calmVars

Fairness ==
  /\ \A s \in Sessions : SF_vars(Proceed(s))
  /\ WF_vars(\E s \in Sessions : DeadlockVictim(s))

\* Bounds for TLC: a second deletion request only while it is calm, and one
\* file at a time that was refused.
BoundedNext ==
  /\ CalmNext
  /\ calm' \/ Cardinality(Made') <= 1
  /\ Cardinality(refused') <= 1

BoundedSpec == CalmInit /\ [][BoundedNext]_calmVars /\ Fairness

\* While it is calm storage and database agree between requests: what purges,
\* bulk deletions and signatures unlink and save is what they delete and insert,
\* but for the files that storage refuses to delete.
CalmStorage == calm => StorageMatchesRows
=============================================================================
