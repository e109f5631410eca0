--------------------------- MODULE MailTransitions ---------------------------
(***************************************************************************)
(* The transition tables of the mail workflow: the ones written in         *)
(* mail_workflow_engine.py (used when no active definition is stored), and *)
(* the ones the Alembic migrations store in workflow_transitions.  A table *)
(* is a set of edges for each direction of mail.  Labels are left out; a   *)
(* permission key is kept, for it decides who may take the edge.           *)
(***************************************************************************)
EXTENDS FiniteSets, Sequences

Status == {"received", "indexed", "assigned", "in_treatment",
           "pending_director", "pending_validation", "on_hold", "approved",
           "rejected", "closed", "archived"}

Direction == {"inbound", "outbound", "internal"}

Edge(from, action, to) == [from |-> from, action |-> action, to |-> to]

(***************************************************************************)
(* The table built at import time, (status, action) -> status.             *)
(***************************************************************************)
FallbackEdges ==
  [inbound |->
     {Edge("received", "index_document", "indexed"),
      Edge("indexed", "assign", "assigned"),
      Edge("assigned", "start_treatment", "in_treatment"),
      Edge("in_treatment", "submit_to_director", "pending_director"),
      Edge("pending_director", "director_forward_dg", "pending_validation"),
      Edge("pending_director", "request_changes", "in_treatment"),
      Edge("pending_director", "reject", "rejected"),
      Edge("in_treatment", "hold", "on_hold"),
      Edge("on_hold", "resume", "in_treatment"),
      Edge("pending_validation", "approve", "approved"),
      Edge("pending_validation", "reject", "rejected"),
      Edge("pending_validation", "request_changes", "in_treatment"),
      Edge("approved", "close", "closed"),
      Edge("closed", "archive", "archived"),
      Edge("rejected", "archive", "archived"),
      Edge("archived", "restore", "closed")},
   outbound |->
     {Edge("received", "start_treatment", "in_treatment"),
      Edge("in_treatment", "submit_validation", "pending_validation"),
      Edge("pending_validation", "approve", "approved"),
      Edge("approved", "archive", "archived")},
   internal |->
     {Edge("received", "assign", "assigned"),
      Edge("assigned", "start_treatment", "in_treatment"),
      Edge("in_treatment", "approve", "approved"),
      Edge("approved", "archive", "archived")}]

(***************************************************************************)
(* The list of actions of each direction, with their only target.          *)
(***************************************************************************)
FallbackActions ==
  [inbound |->
     {<<"index_document", "indexed">>, <<"assign", "assigned">>,
      <<"start_treatment", "in_treatment">>,
      <<"submit_to_director", "pending_director">>,
      <<"director_forward_dg", "pending_validation">>,
      <<"hold", "on_hold">>, <<"resume", "in_treatment">>,
      <<"approve", "approved">>, <<"reject", "rejected">>,
      <<"request_changes", "in_treatment">>, <<"close", "closed">>,
      <<"archive", "archived">>, <<"restore", "closed">>},
   outbound |->
     {<<"start_treatment", "in_treatment">>,
      <<"submit_validation", "pending_validation">>,
      <<"approve", "approved">>, <<"archive", "archived">>},
   internal |->
     {<<"assign", "assigned">>, <<"start_treatment", "in_treatment">>,
      <<"approve", "approved">>, <<"archive", "archived">>}]

\* The permission an action asks for.  Every entry of both tables names one
\* key per action (the fallback adds mail.workflow.all, which UserMay grants).
PermissionOf ==
  [index_document |-> "index", assign |-> "assign", start_treatment |-> "treat",
   submit_to_director |-> "submit_to_director",
   director_forward_dg |-> "escalate_to_dg",
   submit_validation |-> "submit_validation", hold |-> "hold",
   resume |-> "resume", approve |-> "approve", reject |-> "reject",
   request_changes |-> "request_changes", close |-> "close",
   archive |-> "archive", restore |-> "restore"]

RequiresAssignee(action) == action = "assign"

(***************************************************************************)
(* The edges the migrations store, in the order Alembic runs them:         *)
(* ged_enrichment_v1 seeds the three definitions, workflow_gecor_inbound_  *)
(* closed puts the closed status before archived, mail_workflow_pending_   *)
(* director inserts the direction's opinion before the DG's.  The last two *)
(* touch the inbound definition only.                                      *)
(***************************************************************************)
SeededEdges ==
  [inbound |->
     {Edge("received", "index_document", "indexed"),
      Edge("indexed", "assign", "assigned"),
      Edge("assigned", "start_treatment", "in_treatment"),
      Edge("in_treatment", "submit_validation", "pending_validation"),
      Edge("in_treatment", "hold", "on_hold"),
      Edge("on_hold", "resume", "in_treatment"),
      Edge("pending_validation", "approve", "approved"),
      Edge("pending_validation", "reject", "rejected"),
      Edge("pending_validation", "request_changes", "in_treatment"),
      Edge("approved", "archive", "archived"),
      Edge("rejected", "archive", "archived")},
   outbound |->
     {Edge("received", "start_treatment", "in_treatment"),
      Edge("in_treatment", "submit_validation", "pending_validation"),
      Edge("pending_validation", "approve", "approved"),
      Edge("approved", "archive", "archived")},
   internal |->
     {Edge("received", "assign", "assigned"),
      Edge("assigned", "start_treatment", "in_treatment"),
      Edge("in_treatment", "approve", "approved"),
      Edge("approved", "archive", "archived")}]

AddClosed(edges) ==
  (edges \ {Edge("approved", "archive", "archived")})
    \cup {Edge("approved", "close", "closed"),
          Edge("closed", "archive", "archived"),
          Edge("archived", "restore", "closed")}

\* Mutant: the direction cannot reject.
AddPendingDirectorNoReject(edges) ==
  (edges \ {Edge("in_treatment", "submit_validation", "pending_validation")})
    \cup {Edge("in_treatment", "submit_to_director", "pending_director"),
          Edge("pending_director", "director_forward_dg", "pending_validation"),
          Edge("pending_director", "request_changes", "in_treatment")}

AddPendingDirector(edges) ==
  (edges \ {Edge("in_treatment", "submit_validation", "pending_validation")})
    \cup {Edge("in_treatment", "submit_to_director", "pending_director"),
          Edge("pending_director", "director_forward_dg", "pending_validation"),
          Edge("pending_director", "request_changes", "in_treatment"),
          Edge("pending_director", "reject", "rejected")}

StoredEdges ==
  [SeededEdges EXCEPT !.inbound = AddPendingDirector(AddClosed(@))]

(***************************************************************************)
(* What the engine offers for a document.  definition is the set of edges  *)
(* of the active definition, {} when there is none.  The stored edges of   *)
(* the status win; when there is none FOR THAT STATUS, the fallback's are  *)
(* used, of which only those listed with the same target count.            *)
(***************************************************************************)
FromDefinition(definition, status) ==
  {e \in definition : e.from = status /\ e.to \in Status}

\* Mutant: the list of the inbound actions serves every direction.
FromFallbackInbound(direction, status) ==
  {e \in FallbackEdges[direction] :
     /\ e.from = status
     /\ <<e.action, e.to>> \in FallbackActions.inbound}

FromFallback(direction, status) ==
  {e \in FallbackEdges[direction] :
     /\ e.from = status
     /\ <<e.action, e.to>> \in FallbackActions[direction]}

Transitions(definition, direction, status) ==
  IF FromDefinition(definition, status) # {}
    THEN FromDefinition(definition, status)
    ELSE FromFallback(direction, status)

(***************************************************************************)
(* The mail.workflow permissions of the roles the application ships with,  *)
(* and the test the engine makes before it takes an edge.                  *)
(***************************************************************************)
MailKeys == {"index", "assign", "treat", "submit_validation",
             "submit_to_director", "escalate_to_dg", "approve", "reject",
             "hold", "resume", "request_changes", "close", "archive",
             "restore"}

DefaultRole ==
  [master |-> MailKeys \cup {"all"},
   director |-> {"all"},
   admin |-> {"all"},
   secretary |-> {"index", "assign", "treat", "hold", "resume",
                  "request_changes", "close"},
   analyst |-> {"treat", "submit_validation", "submit_to_director", "hold",
                "resume", "request_changes"},
   receptionist |-> {"index", "assign"},
   archivist |-> {"archive", "restore"},
   guest |-> {}]

\* Mutants: any workflow permission will do; a permission added later that the
\* stored roles were never given.
UserMayAnyKey(role, action) == DefaultRole[role] # {}

UserMayUnseeded(role, action) ==
  \/ role = "master"
  \/ "all" \in DefaultRole[role]
  \/ PermissionOf[action] \in DefaultRole[role] \ {"submit_to_director"}

UserMay(role, action) ==
  \/ role = "master"
  \/ "all" \in DefaultRole[role]
  \/ PermissionOf[action] \in DefaultRole[role]
=============================================================================
