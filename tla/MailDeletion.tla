---------------------------- MODULE MailDeletion ----------------------------
(***************************************************************************)
(* How mail leaves the system: direct and bulk deletion, deletion requests *)
(* with their approval or refusal, and the purge itself, which removes the *)
(* files at once and the rows with the transaction.  Uploads and signatures*)
(* are here for the files and rows they add in between.                    *)
(*                                                                         *)
(* Each session serves one request; a step of this module is what it does  *)
(* between two points at which another worker may run.  A failed request   *)
(* rolls its transaction back, but a file that was unlinked stays so; and  *)
(* a file that storage refuses to delete stays while its row goes.         *)
(***************************************************************************)
EXTENDS Naturals, FiniteSets

CONSTANTS
  Docs,      \* document ids; a document and its file share the name
  Sigs,      \* signatures, and their image files
  Requests,  \* deletion requests
  Sessions,  \* the database sessions of the API workers
  None,      \* no document, no signature, no request
  MayFail    \* may requests die on the way (crash, lost connection)?

ASSUME NoneAssumption ==
  /\ None \notin Docs \cup Sigs \cup Requests
  /\ Docs \cap Sigs = {}
  /\ MayFail \in BOOLEAN

VARIABLES
  rows,     \* mail_documents: absent, present or purged
  signed,   \* signatures: the document of each row, None without row
  requests, \* deletion_requests
  files,    \* the files in storage
  refused,  \* history: those of them that storage refused to delete
  session

storage == <<files, refused>>
vars == <<rows, signed, requests, storage, session>>

\* todo: documents still to purge; doc: the one whose files are gone and whose
\* row is next; held: its signatures when it was read; cut: the rows deleted
\* in the open transaction, which are locked until it ends.
Idle == [op |-> "idle", doc |-> None, sig |-> None, req |-> None,
         todo |-> {}, held |-> {}, cut |-> {}]

Purging == {"delete", "approve"}

SignaturesOf(d) == {g \in Sigs : signed[g] = d}
PendingFor(d) == {r \in Requests : requests[r].status = "pending" /\ requests[r].doc = d}

\* The files that nobody has asked storage in vain to delete.
Wanted == files \ refused

\* A transaction that deletes or refers to the row of d waits for another one
\* that has deleted it and is still open.
Blocked(s, d) == \E t \in Sessions \ {s} : d \in session[t].cut

TypeOK ==
  /\ rows \in [Docs -> {"absent", "present", "purged"}]
  /\ signed \in [Sigs -> Docs \cup {None}]
  /\ requests \in [Requests -> [status : {"none", "pending", "approved", "rejected"},
                                doc : Docs \cup {None}]]
  /\ files \subseteq Docs \cup Sigs
  /\ refused \subseteq files
  /\ session \in [Sessions ->
       [op : {"idle", "upload", "sign", "ask", "reject"} \cup Purging,
        doc : Docs \cup {None}, sig : Sigs \cup {None}, req : Requests \cup {None},
        todo : SUBSET Docs, held : SUBSET Sigs, cut : SUBSET Docs]]

Init ==
  /\ rows = [d \in Docs |-> "absent"]
  /\ signed = [g \in Sigs |-> None]
  /\ requests = [r \in Requests |-> [status |-> "none", doc |-> None]]
  /\ files = {}
  /\ refused = {}
  /\ session = [s \in Sessions |-> Idle]

Serve(s, request) ==
  /\ session[s] = Idle
  /\ session' = [session EXCEPT ![s] = request]

Answer(s) == session' = [session EXCEPT ![s] = Idle]

-----------------------------------------------------------------------------
(* Files and rows that are added: in both cases the file comes first *)

SaveUpload(s, d) ==
  /\ rows[d] = "absent" /\ d \notin files
  /\ Serve(s, [Idle EXCEPT !.op = "upload", !.doc = d])
  /\ files' = files \cup {d} /\ UNCHANGED refused
  /\ UNCHANGED <<rows, signed, requests>>

InsertUpload(s) ==
  /\ session[s].op = "upload"
  /\ rows' = [rows EXCEPT ![session[s].doc] = "present"]
  /\ Answer(s)
  /\ UNCHANGED <<signed, requests, storage>>

SaveSignature(s, d, g) ==
  /\ rows[d] = "present"
  /\ signed[g] = None /\ g \notin files
  /\ \A t \in Sessions : session[t].sig # g
  /\ Serve(s, [Idle EXCEPT !.op = "sign", !.doc = d, !.sig = g])
  /\ files' = files \cup {g} /\ UNCHANGED refused
  /\ UNCHANGED <<rows, signed, requests>>

\* Mutant: no foreign key.
InsertSignatureUnchecked(s) ==
  /\ session[s].op = "sign"
  /\ signed' = [signed EXCEPT ![session[s].sig] = session[s].doc]
  /\ Answer(s)
  /\ UNCHANGED <<rows, requests, storage>>

\* The foreign key lets the row in only while the document is there.
InsertSignature(s) ==
  LET d == session[s].doc IN
  /\ session[s].op = "sign"
  /\ ~Blocked(s, d)
  /\ signed' = [signed EXCEPT ![session[s].sig] =
                  IF rows[d] = "present" THEN d ELSE @]
  /\ Answer(s)
  /\ UNCHANGED <<rows, requests, storage>>

-----------------------------------------------------------------------------
(* Deletion requests *)

\* POST /mail/{id}/deletion-request, up to the search for a pending one ...
Ask(s, d, r) ==
  /\ rows[d] = "present"
  /\ PendingFor(d) = {}
  /\ requests[r].status = "none" /\ \A t \in Sessions : session[t].req # r
  /\ Serve(s, [Idle EXCEPT !.op = "ask", !.doc = d, !.req = r])
  /\ UNCHANGED <<rows, signed, requests, storage>>

\* ... and the insert; target_id is no foreign key.
InsertRequest(s) ==
  /\ session[s].op = "ask"
  /\ requests' = [requests EXCEPT ![session[s].req] =
                    [status |-> "pending", doc |-> session[s].doc]]
  /\ Answer(s)
  /\ UNCHANGED <<rows, signed, storage>>

\* POST /deletion-requests/{id}/approve and /reject check the request first.
Approve(s, r) ==
  /\ requests[r].status = "pending"
  /\ Serve(s, [Idle EXCEPT !.op = "approve", !.req = r, !.todo = {requests[r].doc}])
  /\ UNCHANGED <<rows, signed, requests, storage>>

Reject(s, r) ==
  /\ requests[r].status = "pending"
  /\ Serve(s, [Idle EXCEPT !.op = "reject", !.req = r])
  /\ UNCHANGED <<rows, signed, requests, storage>>

\* Mutant: a status nobody knows.
CommitRefused(s) ==
  /\ session[s].op = "reject"
  /\ requests' = [requests EXCEPT ![session[s].req].status = "refused"]
  /\ Answer(s)
  /\ UNCHANGED <<rows, signed, storage>>

\* The UPDATE names the row by its id alone.
CommitReject(s) ==
  /\ session[s].op = "reject"
  /\ requests' = [requests EXCEPT ![session[s].req].status = "rejected"]
  /\ Answer(s)
  /\ UNCHANGED <<rows, signed, storage>>

-----------------------------------------------------------------------------
(* The purge *)

\* DELETE /mail/{id} (one document) or POST /mail/bulk-delete.
Delete(s, D) ==
  /\ D # {}
  /\ Serve(s, [Idle EXCEPT !.op = "delete", !.todo = D])
  /\ UNCHANGED <<rows, signed, requests, storage>>

\* Mutant: the loop does not get past an id without row.
MissingStuck(s, d) ==
  /\ session[s].op \in Purging /\ session[s].doc = None
  /\ d \in session[s].todo
  /\ rows[d] # "present"
  /\ UNCHANGED vars

\* An id without row is skipped; an approval ends there with 404.
Missing(s, d) ==
  /\ session[s].op \in Purging /\ session[s].doc = None
  /\ d \in session[s].todo
  /\ rows[d] # "present"
  /\ IF session[s].op = "approve"
       THEN Answer(s)
       ELSE session' = [session EXCEPT ![s].todo = @ \ {d}]
  /\ UNCHANGED <<rows, signed, requests, storage>>

\* delete_file on the files F, those of kept in vain.
Unlinked(F, kept) ==
  /\ files' = files \ (F \ kept)
  /\ refused' = (refused \ F) \cup kept

\* Mutant: the images of the signatures are forgotten.
UnlinkDocument(s, d) ==
  /\ session[s].op \in Purging /\ session[s].doc = None
  /\ d \in session[s].todo
  /\ rows[d] = "present"
  /\ \E kept \in SUBSET ({d} \cap files) : Unlinked({d}, kept)
  /\ session' = [session EXCEPT ![s] =
                   [session[s] EXCEPT !.doc = d, !.held = SignaturesOf(d)]]
  /\ UNCHANGED <<rows, signed, requests>>

\* purge_mail_document reads the document with its signatures and has all their
\* files deleted, one by one.  What storage raises is passed over.  (The files of
\* doc.versions would go too, but nothing in the program creates a version.)
Unlink(s, d) ==
  LET F == SignaturesOf(d) \cup {d} IN
  /\ session[s].op \in Purging /\ session[s].doc = None
  /\ d \in session[s].todo
  /\ rows[d] = "present"
  /\ \E kept \in SUBSET (F \cap files) : Unlinked(F, kept)
  /\ session' = [session EXCEPT ![s] =
                   [session[s] EXCEPT !.doc = d, !.held = SignaturesOf(d)]]
  /\ UNCHANGED <<rows, signed, requests>>

\* Mutant: a failing flush is ignored.
FlushRowsIgnoring(s) ==
  LET d == session[s].doc
      deletes == rows[d] = "present" /\ SignaturesOf(d) \subseteq session[s].held
  IN
  /\ session[s].op \in Purging /\ d # None
  /\ ~Blocked(s, d)
  /\ session' = [session EXCEPT ![s] =
       [session[s] EXCEPT !.todo = @ \ {d}, !.cut = IF deletes THEN @ \cup {d} ELSE @,
                          !.doc = None, !.held = {}]]
  /\ UNCHANGED <<rows, signed, requests, storage>>

\* The flush deletes the rows that were read.  A row that has gone since is
\* only worth a warning to SQLAlchemy; another signature that has come since
\* breaks the foreign key, and the transaction fails.
FlushRows(s) ==
  LET d == session[s].doc
      found == {e \in {d} : rows[e] = "present"}
  IN
  /\ session[s].op \in Purging /\ d # None
  /\ ~Blocked(s, d)
  /\ IF SignaturesOf(d) \subseteq session[s].held
       THEN session' = [session EXCEPT ![s] =
              [session[s] EXCEPT !.todo = @ \ {d}, !.cut = @ \cup found,
                                 !.doc = None, !.held = {}]]
       ELSE Answer(s)
  /\ UNCHANGED <<rows, signed, requests, storage>>

CommitPurge(s) ==
  LET cut == session[s].cut IN
  /\ session[s].op \in Purging /\ session[s].doc = None
  /\ session[s].todo = {}
  /\ rows' = [d \in Docs |-> IF d \in cut THEN "purged" ELSE rows[d]]
  /\ signed' = [g \in Sigs |-> IF signed[g] \in cut THEN None ELSE signed[g]]
  /\ requests' = IF session[s].op = "approve"
                   THEN [requests EXCEPT ![session[s].req].status = "approved"]
                   ELSE requests
  /\ Answer(s)
  /\ UNCHANGED storage

-----------------------------------------------------------------------------
(* Failure: the transaction is rolled back *)

Fail(s) ==
  /\ MayFail
  /\ session[s] # Idle
  /\ Answer(s)
  /\ UNCHANGED <<rows, signed, requests, storage>>

\* Two purges that wait for each other: PostgreSQL aborts one of them.
WaitsFor(s, t) ==
  /\ session[s].op \in Purging
  /\ session[s].doc \in session[t].cut

DeadlockVictim(s) ==
  /\ \E t \in Sessions \ {s} : WaitsFor(s, t) /\ WaitsFor(t, s)
  /\ Answer(s)
  /\ UNCHANGED <<rows, signed, requests, storage>>

-----------------------------------------------------------------------------
Arrive(s) ==
  \/ \E d \in Docs : SaveUpload(s, d) \/ \E r \in Requests : Ask(s, d, r)
  \/ \E d \in Docs, g \in Sigs : SaveSignature(s, d, g)
  \/ \E r \in Requests : Approve(s, r) \/ Reject(s, r)
  \/ \E D \in SUBSET Docs : Delete(s, D)

Proceed(s) ==
  \/ InsertUpload(s)
  \/ InsertSignature(s)
  \/ InsertRequest(s)
  \/ CommitReject(s)
  \/ \E d \in Docs : Missing(s, d) \/ Unlink(s, d)
  \/ FlushRows(s)
  \/ CommitPurge(s)

Next == \E s \in Sessions : Arrive(s) \/ Proceed(s) \/ Fail(s) \/ DeadlockVictim(s)

Spec == Init /\ [][Next]_vars

-----------------------------------------------------------------------------
(* Properties, whatever fails and whoever interferes *)

(***************************************************************************)
(* An approved request has done its work: its document is gone.  Approval  *)
(* and purge are one transaction, whatever else deletes the document.      *)
(***************************************************************************)
ApprovedMeansGone ==
  \A r \in Requests : requests[r].status = "approved" => rows[requests[r].doc] = "purged"

(***************************************************************************)
(* A purged document leaves no signature row behind, and no file but one   *)
(* that storage refused to delete: not in what order unlinking, uploads,   *)
(* signatures and rollbacks come, but a refusal alone makes an orphan.     *)
(***************************************************************************)
PurgedLeavesRefused ==
  \A d \in Docs : rows[d] = "purged" =>
    d \notin Wanted /\ SignaturesOf(d) = {}

(***************************************************************************)
(* Purges end, those too that delete the same documents in crossed orders. *)
(***************************************************************************)
PurgesEnd ==
  \A s \in Sessions : session[s].op \in Purging ~> session[s].op \notin Purging

-----------------------------------------------------------------------------
(* Properties of one session at a time, without failures *)

Settled == \A s \in Sessions : session[s] = Idle

(***************************************************************************)
(* Between requests storage and database agree: each document and each     *)
(* signature has its file, and the only other files are those storage      *)
(* refused to delete, none of which has a row any more.                    *)
(***************************************************************************)
Tabled == {d \in Docs : rows[d] = "present"} \cup {g \in Sigs : signed[g] # None}

StorageMatchesRows == Settled => Wanted = Tabled
=============================================================================
