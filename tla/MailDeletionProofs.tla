------------------------- MODULE MailDeletionProofs -------------------------
(***************************************************************************)
(* What holds of deletion whoever interferes and whatever fails, for any   *)
(* number of documents, signatures, requests and sessions; and what holds  *)
(* as long as one request follows the other.                               *)
(***************************************************************************)
EXTENDS MCMailDeletion, TLAPS

USE NoneAssumption DEF Wanted, storage

Work == [op : {"idle", "upload", "sign", "ask", "reject"} \cup Purging,
         doc : Docs \cup {None}, sig : Sigs \cup {None}, req : Requests \cup {None},
         todo : SUBSET Docs, held : SUBSET Sigs, cut : SUBSET Docs]

\* The row and the file of a document an upload has saved: it alone brings them.
UploadsKnow ==
  \A s \in Sessions : session[s].op = "upload" =>
    /\ session[s].doc \in Docs
    /\ rows[session[s].doc] = "absent" /\ session[s].doc \in files
    /\ \A t \in Sessions : t # s /\ session[t].op = "upload" =>
         session[t].doc # session[s].doc

SignaturesKnow ==
  \A s \in Sessions : session[s].op = "sign" => session[s].doc \in Docs /\ session[s].sig \in Sigs

\* A request that is being made is known to its maker only.
AskersKnow ==
  \A s \in Sessions : session[s].op = "ask" =>
    /\ session[s].doc \in Docs /\ session[s].req \in Requests
    /\ requests[session[s].req].status = "none"
    /\ \A t \in Sessions : t # s => session[t].req # session[s].req

MadeHaveDocument == \A r \in Requests : requests[r].status # "none" => requests[r].doc \in Docs

\* A decision is about a request that was made.
DecidersKnow ==
  \A s \in Sessions : session[s].op \in {"approve", "reject"} =>
    session[s].req \in Requests /\ requests[session[s].req].status # "none"

\* Neither what a purge has unlinked nor what it has deleted gets a file again.
PurgesKnow ==
  \A s \in Sessions :
    /\ session[s].op \in Purging /\ session[s].doc # None =>
         rows[session[s].doc] # "absent" /\ session[s].doc \notin Wanted
    /\ \A d \in session[s].cut : rows[d] # "absent" /\ d \notin Wanted

\* An approval still has the document of its request before it, has deleted its
\* row, or found it deleted by another.
ApprovalsKnow ==
  \A s \in Sessions : session[s].op = "approve" =>
    LET d == requests[session[s].req].doc IN
    d \in session[s].todo \cup session[s].cut \/ rows[d] = "purged"

IInv ==
  /\ TypeOK
  /\ UploadsKnow
  /\ SignaturesKnow
  /\ AskersKnow
  /\ MadeHaveDocument
  /\ DecidersKnow
  /\ PurgesKnow
  /\ ApprovalsKnow
  /\ ApprovedMeansGone
  /\ PurgedLeavesRefused

-----------------------------------------------------------------------------
(* Sessions *)

\* A step of session s leaves the others alone.
LEMMA SessionIs ==
  ASSUME TypeOK, NEW s \in Sessions, NEW x \in Work,
         session' = [session EXCEPT ![s] = x]
  PROVE  /\ session' \in [Sessions -> Work]
         /\ session'[s] = x
         /\ \A t \in Sessions : t # s => session'[t] = session[t]
BY DEF TypeOK, Work

LEMMA SessionTyped ==
  ASSUME TypeOK
  PROVE  session \in [Sessions -> Work]
BY DEF TypeOK, Work

LEMMA IdleIs ==
  /\ Idle \in Work
  /\ Idle.op = "idle" /\ Idle.doc = None /\ Idle.req = None /\ Idle.sig = None
  /\ Idle.todo = {} /\ Idle.held = {} /\ Idle.cut = {}
BY DEF Idle, Work

\* What a session that answers forgets disturbs nothing.
LEMMA AnswerQuiet ==
  ASSUME IInv, NEW s \in Sessions, Answer(s), UNCHANGED <<rows, signed, requests, storage>>
  PROVE  IInv'
<1>1. /\ session' \in [Sessions -> Work]
      /\ session'[s] = Idle
      /\ \A t \in Sessions : t # s => session'[t] = session[t]
  BY SessionIs, IdleIs DEF IInv, Answer
<1>2. session'[s].op = "idle" /\ session'[s].req = None /\ session'[s].cut = {}
  BY <1>1, IdleIs
<1>3. TypeOK'
  BY <1>1 DEF IInv, TypeOK, Work
<1>4. UploadsKnow' /\ SignaturesKnow' /\ DecidersKnow'
  BY <1>1, <1>2 DEF IInv, UploadsKnow, SignaturesKnow, DecidersKnow
<1>5. AskersKnow'
  BY <1>1, <1>2 DEF IInv, AskersKnow
<1>6. MadeHaveDocument' /\ ApprovedMeansGone' /\ PurgedLeavesRefused'
  BY DEF IInv, MadeHaveDocument, ApprovedMeansGone, PurgedLeavesRefused, SignaturesOf
<1>7. PurgesKnow'
  BY <1>1, <1>2 DEF IInv, PurgesKnow, Purging
<1>8. ApprovalsKnow'
  BY <1>1, <1>2 DEF IInv, ApprovalsKnow
<1> QED  BY <1>3, <1>4, <1>5, <1>6, <1>7, <1>8 DEF IInv

\* A request that begins in session s with the work x.
LEMMA ServeIs ==
  ASSUME TypeOK, NEW s \in Sessions, NEW x \in Work, Serve(s, x)
  PROVE  /\ session[s] = Idle
         /\ session' \in [Sessions -> Work]
         /\ session'[s] = x
         /\ \A t \in Sessions : t # s => session'[t] = session[t]
BY SessionIs DEF Serve

LEMMA AnswerIs ==
  ASSUME TypeOK, NEW s \in Sessions, Answer(s)
  PROVE  /\ session' \in [Sessions -> Work]
         /\ session'[s] = Idle /\ session'[s].op = "idle" /\ session'[s].req = None
         /\ session'[s].cut = {}
         /\ \A t \in Sessions : t # s => session'[t] = session[t]
<1>1. /\ session' \in [Sessions -> Work]
      /\ session'[s] = Idle
      /\ \A t \in Sessions : t # s => session'[t] = session[t]
  BY SessionIs, IdleIs DEF Answer
<1> QED  BY <1>1, IdleIs

-----------------------------------------------------------------------------
(* Uploads and signatures *)

LEMMA SaveUploadKeeps ==
  ASSUME IInv, NEW s \in Sessions, NEW d \in Docs, SaveUpload(s, d)
  PROVE  IInv'
<1> DEFINE x == [Idle EXCEPT !.op = "upload", !.doc = d]
<1>1. /\ x \in Work
      /\ x.op = "upload" /\ x.doc = d /\ x.req = None /\ x.cut = {}
  BY DEF Idle, Work
<1>2. /\ session' \in [Sessions -> Work]
      /\ session'[s] = x
      /\ \A t \in Sessions : t # s => session'[t] = session[t]
  BY <1>1, ServeIs DEF IInv, SaveUpload
<1> HIDE DEF x
<1>3. /\ rows[d] = "absent" /\ d \notin files /\ files' = files \cup {d}
      /\ UNCHANGED <<rows, signed, requests, refused>>
  BY DEF SaveUpload
<1>4. TypeOK'
  BY <1>2, <1>3 DEF IInv, TypeOK, Work
<1>5. UploadsKnow'
  BY <1>1, <1>2, <1>3 DEF IInv, UploadsKnow
<1>6. SignaturesKnow' /\ DecidersKnow' /\ MadeHaveDocument' /\ ApprovedMeansGone'
  BY <1>1, <1>2, <1>3 DEF IInv, SignaturesKnow, DecidersKnow, MadeHaveDocument, ApprovedMeansGone
<1>7. AskersKnow'
  BY <1>1, <1>2, <1>3 DEF IInv, AskersKnow
<1>8. PurgesKnow'
  BY <1>1, <1>2, <1>3 DEF IInv, PurgesKnow, Purging
<1>9. ApprovalsKnow'
  BY <1>1, <1>2, <1>3 DEF IInv, ApprovalsKnow
<1>10. PurgedLeavesRefused'
  BY <1>3 DEF IInv, PurgedLeavesRefused, SignaturesOf
<1> QED  BY <1>4, <1>5, <1>6, <1>7, <1>8, <1>9, <1>10 DEF IInv

LEMMA InsertUploadKeeps ==
  ASSUME IInv, NEW s \in Sessions, InsertUpload(s)
  PROVE  IInv'
<1> DEFINE d == session[s].doc
<1>1. /\ d \in Docs /\ rows[d] = "absent"
      /\ \A t \in Sessions : t # s /\ session[t].op = "upload" => session[t].doc # d
  BY DEF IInv, UploadsKnow, InsertUpload
<1>2. /\ rows' \in [Docs -> {"absent", "present", "purged"}]
      /\ rows'[d] = "present" /\ \A e \in Docs : e # d => rows'[e] = rows[e]
      /\ UNCHANGED <<signed, requests, storage>>
  BY <1>1 DEF IInv, TypeOK, InsertUpload
<1>3. /\ session' \in [Sessions -> Work]
      /\ session'[s].op = "idle" /\ session'[s].req = None /\ session'[s].cut = {}
      /\ \A t \in Sessions : t # s => session'[t] = session[t]
  BY AnswerIs DEF IInv, InsertUpload
<1> HIDE DEF d
<1>4. TypeOK'
  BY <1>2, <1>3 DEF IInv, TypeOK, Work
<1>5. UploadsKnow'
  BY <1>1, <1>2, <1>3 DEF IInv, UploadsKnow
<1>6. SignaturesKnow' /\ DecidersKnow' /\ MadeHaveDocument'
  BY <1>2, <1>3 DEF IInv, SignaturesKnow, DecidersKnow, MadeHaveDocument
<1>7. AskersKnow'
  BY <1>2, <1>3 DEF IInv, AskersKnow
<1>8. PurgesKnow'
  <2>1. \A t \in Sessions : session[t].doc \in Docs \cup {None} /\ session[t].cut \subseteq Docs
    BY SessionTyped DEF IInv, Work
  <2> QED  BY <2>1, <1>2, <1>3 DEF IInv, PurgesKnow, Purging
<1>9. ApprovalsKnow'
  <2>1. \A t \in Sessions : session[t].op = "approve" => requests[session[t].req].doc \in Docs
    BY DEF IInv, DecidersKnow, MadeHaveDocument
  <2> QED  BY <2>1, <1>1, <1>2, <1>3 DEF IInv, ApprovalsKnow
<1>10. ApprovedMeansGone'
  BY <1>1, <1>2 DEF IInv, ApprovedMeansGone, MadeHaveDocument
<1>11. PurgedLeavesRefused'
  BY <1>1, <1>2 DEF IInv, PurgedLeavesRefused, SignaturesOf
<1> QED  BY <1>4, <1>5, <1>6, <1>7, <1>8, <1>9, <1>10, <1>11 DEF IInv

LEMMA SaveSignatureKeeps ==
  ASSUME IInv, NEW s \in Sessions, NEW d \in Docs, NEW g \in Sigs, SaveSignature(s, d, g)
  PROVE  IInv'
<1> DEFINE x == [Idle EXCEPT !.op = "sign", !.doc = d, !.sig = g]
<1>1. /\ x \in Work
      /\ x.op = "sign" /\ x.doc = d /\ x.sig = g /\ x.req = None /\ x.cut = {}
  BY DEF Idle, Work
<1>2. /\ session' \in [Sessions -> Work]
      /\ session'[s] = x
      /\ \A t \in Sessions : t # s => session'[t] = session[t]
  BY <1>1, ServeIs DEF IInv, SaveSignature
<1> HIDE DEF x
<1>3. /\ files' = files \cup {g} /\ g \notin Docs
      /\ UNCHANGED <<rows, signed, requests, refused>>
  BY DEF SaveSignature
<1>4. TypeOK'
  BY <1>2, <1>3 DEF IInv, TypeOK, Work
<1>5. UploadsKnow' /\ SignaturesKnow'
  BY <1>1, <1>2, <1>3 DEF IInv, UploadsKnow, SignaturesKnow
<1>6. DecidersKnow' /\ MadeHaveDocument' /\ ApprovedMeansGone'
  BY <1>1, <1>2, <1>3 DEF IInv, DecidersKnow, MadeHaveDocument, ApprovedMeansGone
<1>7. AskersKnow'
  BY <1>1, <1>2, <1>3 DEF IInv, AskersKnow
<1>8. PurgesKnow'
  <2>1. \A t \in Sessions : session[t].doc \in Docs \cup {None} /\ session[t].cut \subseteq Docs
    BY SessionTyped DEF IInv, Work
  <2> QED  BY <2>1, <1>1, <1>2, <1>3 DEF IInv, PurgesKnow, Purging
<1>9. ApprovalsKnow'
  BY <1>1, <1>2, <1>3 DEF IInv, ApprovalsKnow
<1>10. PurgedLeavesRefused'
  BY <1>3 DEF IInv, PurgedLeavesRefused, SignaturesOf
<1> QED  BY <1>4, <1>5, <1>6, <1>7, <1>8, <1>9, <1>10 DEF IInv

LEMMA InsertSignatureKeeps ==
  ASSUME IInv, NEW s \in Sessions, InsertSignature(s)
  PROVE  IInv'
<1> DEFINE d == session[s].doc
           g == session[s].sig
<1>1. d \in Docs /\ g \in Sigs
  BY DEF IInv, SignaturesKnow, InsertSignature
<1>2. /\ signed' \in [Sigs -> Docs \cup {None}]
      /\ \A h \in Sigs : signed'[h] # signed[h] => signed'[h] = d /\ rows[d] = "present"
      /\ UNCHANGED <<rows, requests, storage>>
  <2>1. PICK e : /\ signed' = [signed EXCEPT ![g] = e]
                 /\ e # signed[g] => e = d /\ rows[d] = "present"
    BY DEF InsertSignature
  <2>2. signed \in [Sigs -> Docs \cup {None}]
    BY DEF IInv, TypeOK
  <2>3. UNCHANGED <<rows, requests, storage>>
    BY DEF InsertSignature
  <2> HIDE DEF d, g
  <2> QED  BY <1>1, <2>1, <2>2, <2>3
<1>3. /\ session' \in [Sessions -> Work]
      /\ session'[s].op = "idle" /\ session'[s].req = None /\ session'[s].cut = {}
      /\ \A t \in Sessions : t # s => session'[t] = session[t]
  BY AnswerIs DEF IInv, InsertSignature
<1> HIDE DEF d, g
<1>4. TypeOK'
  BY <1>2, <1>3 DEF IInv, TypeOK, Work
<1>5. UploadsKnow' /\ SignaturesKnow' /\ DecidersKnow'
  BY <1>2, <1>3 DEF IInv, UploadsKnow, SignaturesKnow, DecidersKnow
<1>6. MadeHaveDocument' /\ ApprovedMeansGone'
  BY <1>2 DEF IInv, MadeHaveDocument, ApprovedMeansGone
<1>7. AskersKnow'
  BY <1>2, <1>3 DEF IInv, AskersKnow
<1>8. PurgesKnow' /\ ApprovalsKnow'
  BY <1>2, <1>3 DEF IInv, PurgesKnow, ApprovalsKnow, Purging
<1>9. PurgedLeavesRefused'
  BY <1>2 DEF IInv, PurgedLeavesRefused, SignaturesOf
<1> QED  BY <1>4, <1>5, <1>6, <1>7, <1>8, <1>9 DEF IInv

-----------------------------------------------------------------------------
(* Deletion requests *)

LEMMA AskKeeps ==
  ASSUME IInv, NEW s \in Sessions, NEW d \in Docs, NEW r \in Requests, Ask(s, d, r)
  PROVE  IInv'
<1> DEFINE x == [Idle EXCEPT !.op = "ask", !.doc = d, !.req = r]
<1>1. /\ x \in Work
      /\ x.op = "ask" /\ x.doc = d /\ x.req = r /\ x.cut = {}
  BY DEF Idle, Work
<1>2. /\ session' \in [Sessions -> Work]
      /\ session'[s] = x
      /\ \A t \in Sessions : t # s => session'[t] = session[t]
  BY <1>1, ServeIs DEF IInv, Ask
<1> HIDE DEF x
<1>3. /\ requests[r].status = "none" /\ \A t \in Sessions : session[t].req # r
      /\ UNCHANGED <<rows, signed, requests, storage>>
  BY DEF Ask
<1>4. TypeOK'
  BY <1>2, <1>3 DEF IInv, TypeOK, Work
<1>5. UploadsKnow' /\ SignaturesKnow' /\ DecidersKnow'
  BY <1>1, <1>2, <1>3 DEF IInv, UploadsKnow, SignaturesKnow, DecidersKnow
<1>6. MadeHaveDocument' /\ ApprovedMeansGone' /\ PurgedLeavesRefused'
  BY <1>3 DEF IInv, MadeHaveDocument, ApprovedMeansGone, PurgedLeavesRefused, SignaturesOf
<1>7. AskersKnow'
  BY <1>1, <1>2, <1>3 DEF IInv, AskersKnow
<1>8. PurgesKnow'
  BY <1>1, <1>2, <1>3 DEF IInv, PurgesKnow, Purging
<1>9. ApprovalsKnow'
  BY <1>1, <1>2, <1>3 DEF IInv, ApprovalsKnow
<1> QED  BY <1>4, <1>5, <1>6, <1>7, <1>8, <1>9 DEF IInv

LEMMA InsertRequestKeeps ==
  ASSUME IInv, NEW s \in Sessions, InsertRequest(s)
  PROVE  IInv'
<1> DEFINE r == session[s].req
           d == session[s].doc
<1>1. /\ d \in Docs /\ r \in Requests /\ requests[r].status = "none"
      /\ \A t \in Sessions : t # s => session[t].req # r
  BY DEF IInv, AskersKnow, InsertRequest
<1>2. /\ requests'[r].status = "pending" /\ requests'[r].doc = d
      /\ \A q \in Requests : q # r => requests'[q] = requests[q]
      /\ requests' \in [Requests -> [status : {"none", "pending", "approved", "rejected"},
                                     doc : Docs \cup {None}]]
      /\ UNCHANGED <<rows, signed, storage>>
  BY <1>1 DEF IInv, TypeOK, InsertRequest
<1>3. /\ session' \in [Sessions -> Work]
      /\ session'[s].op = "idle" /\ session'[s].req = None /\ session'[s].cut = {}
      /\ \A t \in Sessions : t # s => session'[t] = session[t]
  BY AnswerIs DEF IInv, InsertRequest
<1> HIDE DEF r, d
<1>4. TypeOK'
  BY <1>2, <1>3 DEF IInv, TypeOK, Work
<1>5. UploadsKnow' /\ SignaturesKnow'
  BY <1>2, <1>3 DEF IInv, UploadsKnow, SignaturesKnow
<1>6. MadeHaveDocument' /\ ApprovedMeansGone'
  BY <1>1, <1>2 DEF IInv, MadeHaveDocument, ApprovedMeansGone
<1>7. DecidersKnow'
  BY <1>1, <1>2, <1>3 DEF IInv, DecidersKnow
<1>8. AskersKnow'
  BY <1>1, <1>2, <1>3 DEF IInv, AskersKnow
<1>9. PurgesKnow'
  BY <1>2, <1>3 DEF IInv, PurgesKnow, Purging
<1>10. ApprovalsKnow'
  BY <1>1, <1>2, <1>3 DEF IInv, ApprovalsKnow, DecidersKnow
<1>11. PurgedLeavesRefused'
  BY <1>2 DEF IInv, PurgedLeavesRefused, SignaturesOf
<1> QED  BY <1>4, <1>5, <1>6, <1>7, <1>8, <1>9, <1>10, <1>11 DEF IInv

LEMMA ApproveKeeps ==
  ASSUME IInv, NEW s \in Sessions, NEW r \in Requests, Approve(s, r)
  PROVE  IInv'
<1> DEFINE x == [Idle EXCEPT !.op = "approve", !.req = r, !.todo = {requests[r].doc}]
<1>0. requests[r].status # "none" /\ requests[r].doc \in Docs
  BY DEF IInv, MadeHaveDocument, Approve
<1>1. /\ x \in Work
      /\ x.op = "approve" /\ x.doc = None /\ x.req = r /\ x.cut = {}
      /\ x.todo = {requests[r].doc}
  BY <1>0 DEF Idle, Work, Purging
<1>2. /\ session' \in [Sessions -> Work]
      /\ session'[s] = x
      /\ \A t \in Sessions : t # s => session'[t] = session[t]
  BY <1>1, ServeIs DEF IInv, Approve
<1> HIDE DEF x
<1>3. UNCHANGED <<rows, signed, requests, storage>>
  BY DEF Approve
<1>4. TypeOK'
  BY <1>2, <1>3 DEF IInv, TypeOK, Work
<1>5. UploadsKnow' /\ SignaturesKnow' /\ DecidersKnow'
  BY <1>0, <1>1, <1>2, <1>3 DEF IInv, UploadsKnow, SignaturesKnow, DecidersKnow
<1>6. MadeHaveDocument' /\ ApprovedMeansGone' /\ PurgedLeavesRefused'
  BY <1>3 DEF IInv, MadeHaveDocument, ApprovedMeansGone, PurgedLeavesRefused, SignaturesOf
<1>7. AskersKnow'
  BY <1>0, <1>1, <1>2, <1>3 DEF IInv, AskersKnow
<1>8. PurgesKnow'
  BY <1>1, <1>2, <1>3 DEF IInv, PurgesKnow, Purging
<1>9. ApprovalsKnow'
  BY <1>1, <1>2, <1>3 DEF IInv, ApprovalsKnow
<1> QED  BY <1>4, <1>5, <1>6, <1>7, <1>8, <1>9 DEF IInv

LEMMA RejectKeeps ==
  ASSUME IInv, NEW s \in Sessions, NEW r \in Requests, Reject(s, r)
  PROVE  IInv'
<1> DEFINE x == [Idle EXCEPT !.op = "reject", !.req = r]
<1>1. /\ x \in Work
      /\ x.op = "reject" /\ x.req = r /\ x.cut = {}
  BY DEF Idle, Work
<1>2. /\ session' \in [Sessions -> Work]
      /\ session'[s] = x
      /\ \A t \in Sessions : t # s => session'[t] = session[t]
  BY <1>1, ServeIs DEF IInv, Reject
<1> HIDE DEF x
<1>3. /\ requests[r].status # "none"
      /\ UNCHANGED <<rows, signed, requests, storage>>
  BY DEF Reject
<1>4. TypeOK'
  BY <1>2, <1>3 DEF IInv, TypeOK, Work
<1>5. UploadsKnow' /\ SignaturesKnow' /\ DecidersKnow'
  BY <1>1, <1>2, <1>3 DEF IInv, UploadsKnow, SignaturesKnow, DecidersKnow
<1>6. MadeHaveDocument' /\ ApprovedMeansGone' /\ PurgedLeavesRefused'
  BY <1>3 DEF IInv, MadeHaveDocument, ApprovedMeansGone, PurgedLeavesRefused, SignaturesOf
<1>7. AskersKnow'
  BY <1>1, <1>2, <1>3 DEF IInv, AskersKnow
<1>8. PurgesKnow'
  BY <1>1, <1>2, <1>3 DEF IInv, PurgesKnow, Purging
<1>9. ApprovalsKnow'
  BY <1>1, <1>2, <1>3 DEF IInv, ApprovalsKnow
<1> QED  BY <1>4, <1>5, <1>6, <1>7, <1>8, <1>9 DEF IInv

LEMMA CommitRejectKeeps ==
  ASSUME IInv, NEW s \in Sessions, CommitReject(s)
  PROVE  IInv'
<1> DEFINE r == session[s].req
<1>1. r \in Requests /\ requests[r].status # "none"
  BY DEF IInv, DecidersKnow, CommitReject
<1>2. /\ requests' \in [Requests -> [status : {"none", "pending", "approved", "rejected"},
                                     doc : Docs \cup {None}]]
      /\ requests'[r].status = "rejected" /\ requests'[r].doc = requests[r].doc
      /\ \A q \in Requests : q # r => requests'[q] = requests[q]
      /\ UNCHANGED <<rows, signed, storage>>
  BY <1>1 DEF IInv, TypeOK, CommitReject
<1>3. /\ session' \in [Sessions -> Work]
      /\ session'[s].op = "idle" /\ session'[s].req = None /\ session'[s].cut = {}
      /\ \A t \in Sessions : t # s => session'[t] = session[t]
  BY AnswerIs DEF IInv, CommitReject
<1> HIDE DEF r
<1>4. TypeOK'
  BY <1>2, <1>3 DEF IInv, TypeOK, Work
<1>5. UploadsKnow' /\ SignaturesKnow'
  BY <1>2, <1>3 DEF IInv, UploadsKnow, SignaturesKnow
<1>6. MadeHaveDocument' /\ ApprovedMeansGone'
  BY <1>1, <1>2 DEF IInv, MadeHaveDocument, ApprovedMeansGone
<1>7. DecidersKnow'
  BY <1>1, <1>2, <1>3 DEF IInv, DecidersKnow
<1>8. AskersKnow'
  BY <1>1, <1>2, <1>3 DEF IInv, AskersKnow
<1>9. PurgesKnow'
  BY <1>2, <1>3 DEF IInv, PurgesKnow, Purging
<1>10. ApprovalsKnow'
  BY <1>1, <1>2, <1>3 DEF IInv, ApprovalsKnow, DecidersKnow
<1>11. PurgedLeavesRefused'
  BY <1>2 DEF IInv, PurgedLeavesRefused, SignaturesOf
<1> QED  BY <1>4, <1>5, <1>6, <1>7, <1>8, <1>9, <1>10, <1>11 DEF IInv
-----------------------------------------------------------------------------
(* The purge *)

LEMMA DeleteKeeps ==
  ASSUME IInv, NEW s \in Sessions, NEW D \in SUBSET Docs, Delete(s, D)
  PROVE  IInv'
<1> DEFINE x == [Idle EXCEPT !.op = "delete", !.todo = D]
<1>1. /\ x \in Work
      /\ x.op = "delete" /\ x.doc = None /\ x.req = None /\ x.cut = {}
  BY DEF Idle, Work, Purging
<1>2. /\ session' \in [Sessions -> Work]
      /\ session'[s] = x
      /\ \A t \in Sessions : t # s => session'[t] = session[t]
  BY <1>1, ServeIs DEF IInv, Delete
<1> HIDE DEF x
<1>3. UNCHANGED <<rows, signed, requests, storage>>
  BY DEF Delete
<1>4. TypeOK'
  BY <1>2, <1>3 DEF IInv, TypeOK, Work
<1>5. UploadsKnow' /\ SignaturesKnow' /\ DecidersKnow'
  BY <1>1, <1>2, <1>3 DEF IInv, UploadsKnow, SignaturesKnow, DecidersKnow
<1>6. MadeHaveDocument' /\ ApprovedMeansGone' /\ PurgedLeavesRefused'
  BY <1>3 DEF IInv, MadeHaveDocument, ApprovedMeansGone, PurgedLeavesRefused, SignaturesOf
<1>7. AskersKnow'
  BY <1>1, <1>2, <1>3 DEF IInv, AskersKnow
<1>8. PurgesKnow'
  BY <1>1, <1>2, <1>3 DEF IInv, PurgesKnow, Purging
<1>9. ApprovalsKnow'
  BY <1>1, <1>2, <1>3 DEF IInv, ApprovalsKnow
<1> QED  BY <1>4, <1>5, <1>6, <1>7, <1>8, <1>9 DEF IInv

\* A purge that goes on: the request and the kind of the work stay.
LEMMA PurgeGoesOn ==
  ASSUME IInv, NEW s \in Sessions, session[s].op \in Purging,
         NEW x \in Work, x.op = session[s].op, x.req = session[s].req,
         session' = [session EXCEPT ![s] = x],
         UNCHANGED <<rows, signed, requests>>,
         \A d \in Docs : rows[d] = "absent" => (d \in files' <=> d \in files),
         files' \subseteq files, Wanted' \subseteq Wanted, refused' \subseteq files',
         x.doc # None => rows[x.doc] # "absent" /\ x.doc \notin Wanted',
         \A d \in x.cut : rows[d] # "absent" /\ d \notin Wanted',
         x.op = "approve" =>
           \/ requests[x.req].doc \in x.todo \cup x.cut
           \/ rows[requests[x.req].doc] = "purged"
  PROVE  IInv'
<1>2. /\ session' \in [Sessions -> Work]
      /\ session'[s] = x
      /\ \A t \in Sessions : t # s => session'[t] = session[t]
  BY SessionIs DEF IInv
<1>3. x.op \notin {"upload", "sign", "ask", "reject"}
  BY DEF Purging
<1>4. TypeOK'
  BY <1>2 DEF IInv, TypeOK, Work
<1>5. UploadsKnow' /\ SignaturesKnow' /\ DecidersKnow'
  BY <1>2, <1>3 DEF IInv, UploadsKnow, SignaturesKnow, DecidersKnow
<1>6. MadeHaveDocument' /\ ApprovedMeansGone' /\ PurgedLeavesRefused'
  BY DEF IInv, MadeHaveDocument, ApprovedMeansGone, PurgedLeavesRefused, SignaturesOf
<1>7. AskersKnow'
  BY <1>2, <1>3 DEF IInv, AskersKnow
<1>8. PurgesKnow'
  BY <1>2 DEF IInv, PurgesKnow, Purging
<1>9. ApprovalsKnow'
  BY <1>2 DEF IInv, ApprovalsKnow
<1> QED  BY <1>4, <1>5, <1>6, <1>7, <1>8, <1>9 DEF IInv

LEMMA MissingKeeps ==
  ASSUME IInv, NEW s \in Sessions, NEW d \in Docs, Missing(s, d)
  PROVE  IInv'
<1>1. UNCHANGED <<rows, signed, requests, storage>>
  BY DEF Missing
<1>2. CASE session[s].op = "approve"
  BY <1>1, <1>2, AnswerQuiet DEF Missing
<1>3. CASE session[s].op # "approve"
  <2> DEFINE x == [session[s] EXCEPT !.todo = session[s].todo \ {d}]
  <2>1. session[s] \in Work
    BY SessionTyped DEF IInv
  <2>2. /\ x \in Work
        /\ x.op = session[s].op /\ x.req = session[s].req
        /\ x.doc = session[s].doc /\ x.cut = session[s].cut
    BY <2>1 DEF Work
  <2>3. session' = [session EXCEPT ![s] = x] /\ session[s].op \in Purging
    BY <1>3 DEF Missing
  <2> HIDE DEF x
  <2>4. /\ x.doc # None => rows[x.doc] # "absent" /\ x.doc \notin Wanted'
        /\ \A e \in x.cut : rows[e] # "absent" /\ e \notin Wanted'
    BY <1>1, <2>2, <2>3 DEF IInv, PurgesKnow
  <2>5. refused' \subseteq files'
    BY <1>1 DEF IInv, TypeOK
  <2> QED  BY <1>1, <1>3, <2>2, <2>3, <2>4, <2>5, PurgeGoesOn
<1> QED  BY <1>2, <1>3

\* Whatever storage refuses, the files of F are no longer wanted.
LEMMA UnlinkedIs ==
  ASSUME NEW F, NEW kept \in SUBSET (F \cap files), refused \subseteq files, Unlinked(F, kept)
  PROVE  /\ Wanted' = Wanted \ F
         /\ files' \subseteq files /\ files \ F \subseteq files'
         /\ refused' \subseteq files'
BY DEF Unlinked

LEMMA UnlinkKeeps ==
  ASSUME IInv, NEW s \in Sessions, NEW d \in Docs, Unlink(s, d)
  PROVE  IInv'
<1> DEFINE x == [session[s] EXCEPT !.doc = d, !.held = SignaturesOf(d)]
<1>1. session[s] \in Work
  BY SessionTyped DEF IInv
<1>2. /\ x \in Work
      /\ x.op = session[s].op /\ x.req = session[s].req
      /\ x.doc = d /\ x.cut = session[s].cut /\ x.todo = session[s].todo
  BY <1>1 DEF Work, SignaturesOf
<1>3. session' = [session EXCEPT ![s] = x] /\ session[s].op \in Purging
  BY DEF Unlink
<1> HIDE DEF x
<1>4. /\ rows[d] = "present"
      /\ UNCHANGED <<rows, signed, requests>>
  BY DEF Unlink
<1>5. /\ \A e \in Docs : rows[e] = "absent" => (e \in files' <=> e \in files)
      /\ files' \subseteq files /\ refused' \subseteq files'
      /\ Wanted' = Wanted \ (SignaturesOf(d) \cup {d})
  BY <1>4, UnlinkedIs DEF IInv, TypeOK, Unlink, SignaturesOf
<1>6. /\ x.doc # None => rows[x.doc] # "absent" /\ x.doc \notin Wanted'
      /\ \A e \in x.cut : rows[e] # "absent" /\ e \notin Wanted'
  BY <1>2, <1>4, <1>5 DEF IInv, PurgesKnow
<1>7. x.op = "approve" =>
        \/ requests[x.req].doc \in x.todo \cup x.cut
        \/ rows[requests[x.req].doc] = "purged"
  BY <1>2 DEF IInv, ApprovalsKnow
<1> QED  BY <1>2, <1>3, <1>4, <1>5, <1>6, <1>7, PurgeGoesOn

LEMMA FlushRowsKeeps ==
  ASSUME IInv, NEW s \in Sessions, FlushRows(s)
  PROVE  IInv'
<1> DEFINE d == session[s].doc
           found == {e \in {d} : rows[e] = "present"}
<1>1. session[s] \in Work
  BY SessionTyped DEF IInv
<1>2. /\ session[s].op \in Purging /\ d \in Docs
      /\ UNCHANGED <<rows, signed, requests, storage>>
  BY <1>1 DEF FlushRows, Work
<1>3. rows[d] # "absent" /\ d \notin Wanted
  BY <1>2 DEF IInv, PurgesKnow
<1>4. CASE SignaturesOf(d) \subseteq session[s].held
  <2> DEFINE x == [session[s] EXCEPT !.todo = session[s].todo \ {d},
                                     !.cut = session[s].cut \cup found,
                                     !.doc = None, !.held = {}]
  <2>1. /\ x \in Work
        /\ x.op = session[s].op /\ x.req = session[s].req /\ x.doc = None
        /\ x.cut = session[s].cut \cup found /\ x.todo = session[s].todo \ {d}
    BY <1>1, <1>2 DEF Work
  <2>2. session' = [session EXCEPT ![s] = x]
    BY <1>4 DEF FlushRows
  <2> HIDE DEF x
  <2>3. \A e \in x.cut : rows[e] # "absent" /\ e \notin Wanted'
    BY <1>2, <1>3, <2>1 DEF IInv, PurgesKnow
  <2>4. rows[d] = "present" \/ rows[d] = "purged"
    BY <1>2, <1>3 DEF IInv, TypeOK
  <2>5. x.op = "approve" =>
          \/ requests[x.req].doc \in x.todo \cup x.cut
          \/ rows[requests[x.req].doc] = "purged"
    BY <2>1, <2>4 DEF IInv, ApprovalsKnow
  <2>6. refused' \subseteq files'
    BY <1>2 DEF IInv, TypeOK
  <2> QED  BY <1>2, <2>1, <2>2, <2>3, <2>5, <2>6, PurgeGoesOn
<1>5. CASE ~(SignaturesOf(d) \subseteq session[s].held)
  BY <1>2, <1>5, AnswerQuiet DEF FlushRows
<1> QED  BY <1>4, <1>5

LEMMA CommitPurgeKeeps ==
  ASSUME IInv, NEW s \in Sessions, CommitPurge(s)
  PROVE  IInv'
<1> DEFINE cut == session[s].cut
           r == session[s].req
<1>1. cut \subseteq Docs /\ \A d \in cut : rows[d] # "absent" /\ d \notin Wanted
  BY SessionTyped DEF IInv, Work, PurgesKnow
<1>2. /\ session' \in [Sessions -> Work]
      /\ session'[s].op = "idle" /\ session'[s].req = None /\ session'[s].cut = {}
      /\ \A t \in Sessions : t # s => session'[t] = session[t]
  BY AnswerIs DEF IInv, CommitPurge
<1>3. /\ rows' \in [Docs -> {"absent", "present", "purged"}]
      /\ \A d \in Docs : rows'[d] = IF d \in cut THEN "purged" ELSE rows[d]
      /\ signed' \in [Sigs -> Docs \cup {None}]
      /\ \A g \in Sigs : signed'[g] = IF signed[g] \in cut THEN None ELSE signed[g]
      /\ UNCHANGED storage
  BY DEF IInv, TypeOK, CommitPurge
<1>4. \A t \in Sessions : session[t].doc \in Docs \cup {None} /\ session[t].cut \subseteq Docs
  BY SessionTyped DEF IInv, Work
\* Only the request that is approved changes, and its document is gone.
<1>5. /\ requests' \in [Requests -> [status : {"none", "pending", "approved", "rejected"},
                                     doc : Docs \cup {None}]]
      /\ \A q \in Requests :
           /\ requests'[q].doc = requests[q].doc
           /\ \/ requests'[q].status = requests[q].status
              \/ /\ requests[q].status # "none" /\ requests'[q].status = "approved"
                 /\ rows'[requests[q].doc] = "purged"
  <2>1. CASE session[s].op = "approve"
    <3>1. /\ requests' = [requests EXCEPT ![r].status = "approved"]
          /\ session[s].todo = {}
      BY <2>1 DEF CommitPurge
    <3>2. r \in Requests /\ requests[r].status # "none" /\ requests[r].doc \in Docs
      BY <2>1 DEF IInv, DecidersKnow, MadeHaveDocument
    <3>3. rows'[requests[r].doc] = "purged"
      BY <2>1, <3>1, <3>2, <1>3 DEF IInv, ApprovalsKnow
    <3> HIDE DEF r
    <3> QED  BY <3>1, <3>2, <3>3 DEF IInv, TypeOK
  <2>2. CASE session[s].op # "approve"
    BY <2>2 DEF IInv, TypeOK, CommitPurge
  <2> QED  BY <2>1, <2>2
<1> HIDE DEF cut, r
<1>6. TypeOK'
  BY <1>2, <1>3, <1>5 DEF IInv, TypeOK, Work
<1>7. UploadsKnow' /\ SignaturesKnow'
  BY <1>1, <1>2, <1>3 DEF IInv, UploadsKnow, SignaturesKnow
<1>8. MadeHaveDocument'
  BY <1>5 DEF IInv, MadeHaveDocument
<1>9. DecidersKnow'
  BY <1>2, <1>5 DEF IInv, DecidersKnow
<1>10. AskersKnow'
  BY <1>2, <1>5 DEF IInv, AskersKnow
<1>11. PurgesKnow'
  BY <1>2, <1>3, <1>4 DEF IInv, PurgesKnow, Purging
<1>12. ApprovalsKnow'
  <2>1. \A t \in Sessions : session[t].op = "approve" =>
          session[t].req \in Requests /\ requests[session[t].req].doc \in Docs
    BY DEF IInv, DecidersKnow, MadeHaveDocument
  <2> QED  BY <2>1, <1>2, <1>3, <1>5 DEF IInv, ApprovalsKnow
<1>13. ApprovedMeansGone'
  <2>1. \A q \in Requests : requests[q].status = "approved" => requests[q].doc \in Docs
    BY DEF IInv, MadeHaveDocument
  <2> QED  BY <2>1, <1>3, <1>5 DEF IInv, ApprovedMeansGone
<1>14. PurgedLeavesRefused'
  BY <1>1, <1>3 DEF IInv, PurgedLeavesRefused, SignaturesOf
<1> QED  BY <1>6, <1>7, <1>8, <1>9, <1>10, <1>11, <1>12, <1>13, <1>14 DEF IInv

-----------------------------------------------------------------------------
(* The specification *)

LEMMA IInvInit == Init => IInv
<1> SUFFICES ASSUME Init PROVE IInv
  OBVIOUS
<1>1. \A s \in Sessions : session[s] = Idle /\ session[s].op = "idle" /\ session[s].cut = {}
  BY IdleIs DEF Init
<1>2. TypeOK
  BY IdleIs DEF Init, TypeOK, Work
<1>3. UploadsKnow /\ SignaturesKnow /\ AskersKnow /\ DecidersKnow /\ PurgesKnow /\ ApprovalsKnow
  BY <1>1 DEF UploadsKnow, SignaturesKnow, AskersKnow, DecidersKnow, PurgesKnow, ApprovalsKnow, Purging
<1>4. MadeHaveDocument /\ ApprovedMeansGone /\ PurgedLeavesRefused
  BY DEF Init, MadeHaveDocument, ApprovedMeansGone, PurgedLeavesRefused
<1> QED  BY <1>2, <1>3, <1>4 DEF IInv

LEMMA ArriveKeeps ==
  ASSUME IInv, NEW s \in Sessions, Arrive(s)
  PROVE  IInv'
<1>1. CASE \E d \in Docs : SaveUpload(s, d)
  BY <1>1, SaveUploadKeeps
<1>2. CASE \E d \in Docs, r \in Requests : Ask(s, d, r)
  BY <1>2, AskKeeps
<1>3. CASE \E d \in Docs, g \in Sigs : SaveSignature(s, d, g)
  BY <1>3, SaveSignatureKeeps
<1>4. CASE \E r \in Requests : Approve(s, r)
  BY <1>4, ApproveKeeps
<1>5. CASE \E r \in Requests : Reject(s, r)
  BY <1>5, RejectKeeps
<1>6. CASE \E D \in SUBSET Docs : Delete(s, D)
  BY <1>6, DeleteKeeps
<1> QED  BY <1>1, <1>2, <1>3, <1>4, <1>5, <1>6 DEF Arrive

LEMMA ProceedKeeps ==
  ASSUME IInv, NEW s \in Sessions, Proceed(s)
  PROVE  IInv'
<1>1. CASE InsertUpload(s) \/ InsertSignature(s) \/ InsertRequest(s)
  BY <1>1, InsertUploadKeeps, InsertSignatureKeeps, InsertRequestKeeps
<1>2. CASE CommitReject(s)
  BY <1>2, CommitRejectKeeps
<1>3. CASE \E d \in Docs : Missing(s, d) \/ Unlink(s, d)
  BY <1>3, MissingKeeps, UnlinkKeeps
<1>4. CASE FlushRows(s) \/ CommitPurge(s)
  BY <1>4, FlushRowsKeeps, CommitPurgeKeeps
<1> QED  BY <1>1, <1>2, <1>3, <1>4 DEF Proceed

LEMMA IInvStep == IInv /\ [Next]_vars => IInv'
<1> SUFFICES ASSUME IInv, [Next]_vars PROVE IInv'
  OBVIOUS
<1>1. CASE UNCHANGED vars
  BY <1>1 DEF vars, IInv, TypeOK, UploadsKnow, SignaturesKnow, AskersKnow, MadeHaveDocument,
              DecidersKnow, PurgesKnow, ApprovalsKnow, ApprovedMeansGone,
              PurgedLeavesRefused, SignaturesOf
<1>2. ASSUME NEW s \in Sessions, Arrive(s) PROVE IInv'
  BY <1>2, ArriveKeeps
<1>3. ASSUME NEW s \in Sessions, Proceed(s) PROVE IInv'
  BY <1>3, ProceedKeeps
<1>4. ASSUME NEW s \in Sessions, Fail(s) \/ DeadlockVictim(s) PROVE IInv'
  BY <1>4, AnswerQuiet DEF Fail, DeadlockVictim
<1> QED  BY <1>1, <1>2, <1>3, <1>4 DEF Next

LEMMA IInvAlways == Spec => []IInv
BY IInvInit, IInvStep, PTL DEF Spec

(***************************************************************************)
(* Rows, signatures, requests, files and the work of the sessions stay     *)
(* what the tables and the storage can hold.                               *)
(***************************************************************************)
THEOREM TypeCorrect == Spec => []TypeOK
<1>1. IInv => TypeOK
  BY DEF IInv
<1> QED  BY <1>1, IInvAlways, PTL

(***************************************************************************)
(* However many sessions decide on a request, delete its document directly *)
(* or die at it: an approved request has its document gone.                *)
(***************************************************************************)
THEOREM ApprovedAlwaysGone == Spec => []ApprovedMeansGone
<1>1. IInv => ApprovedMeansGone
  BY DEF IInv
<1> QED  BY <1>1, IInvAlways, PTL

(***************************************************************************)
(* However purges, uploads and signatures interleave and fail: a document  *)
(* whose purge was committed has no signature row, and its file only if    *)
(* storage refused to delete it.                                           *)
(***************************************************************************)
THEOREM PurgedLeavesOnlyRefused == Spec => []PurgedLeavesRefused
<1>1. IInv => PurgedLeavesRefused
  BY DEF IInv
<1> QED  BY <1>1, IInvAlways, PTL

-----------------------------------------------------------------------------
(***************************************************************************)
(* One request at a time.  While session s is the only one at work, the    *)
(* wanted files differ from what the tables speak of by what s has saved   *)
(* and not yet inserted, and by what it has unlinked and not yet deleted.  *)
(***************************************************************************)
Adding(s) ==
  CASE session[s].op = "upload" -> {session[s].doc}
    [] session[s].op = "sign"   -> {session[s].sig}
    [] OTHER                    -> {}

Removing(s) ==
  IF session[s].op \in Purging THEN session[s].cut \cup ({session[s].doc} \ {None}) ELSE {}

WithSignatures(D) == D \cup {g \in Sigs : signed[g] \in D}

OnlyOwnChanges(s) == Wanted = (Tabled \cup Adding(s)) \ WithSignatures(Removing(s))

SigningKnows(s) ==
  session[s].op = "sign" => rows[session[s].doc] = "present" /\ signed[session[s].sig] = None

\* What is removed is still in the tables, every signature of the document was
\* read, and an approval has one document and nothing behind it.
PurgingKnows(s) ==
  session[s].op \in Purging =>
    /\ \A d \in Removing(s) : rows[d] = "present"
    /\ session[s].doc # None =>
         session[s].doc \in session[s].todo /\ session[s].held = SignaturesOf(session[s].doc)
    /\ session[s].op = "approve" =>
         /\ \A d, e \in session[s].todo : d = e
         /\ session[s].todo # {} => session[s].cut = {}

Own(s) == OnlyOwnChanges(s) /\ SigningKnows(s) /\ PurgingKnows(s)

Alone(s) == \A t \in Sessions : t # s => session[t] = Idle

Quiet ==
  /\ StorageMatchesRows
  /\ \A s \in Sessions : Alone(s) => Own(s)

LEMMA IdleOwn ==
  ASSUME NEW s \in Sessions, session[s] = Idle
  PROVE  Own(s) <=> Wanted = Tabled
<1>1. /\ session[s].op = "idle" /\ Adding(s) = {} /\ Removing(s) = {}
      /\ "idle" \notin Purging
  BY IdleIs DEF Adding, Removing, Purging
<1>2. WithSignatures({}) = {}
  BY DEF WithSignatures
<1> QED  BY <1>1, <1>2 DEF Own, OnlyOwnChanges, SigningKnows, PurgingKnows

LEMMA IdleOwnNext ==
  ASSUME NEW s \in Sessions, session'[s] = Idle
  PROVE  Own(s)' <=> Wanted' = Tabled'
<1>1. /\ session'[s].op = "idle" /\ Adding(s)' = {} /\ Removing(s)' = {}
      /\ "idle" \notin Purging
  BY IdleIs DEF Adding, Removing, Purging
<1>2. WithSignatures({})' = {}
  BY DEF WithSignatures
<1>3. WithSignatures(Removing(s))' = {}
  BY <1>1 DEF WithSignatures
<1> QED  BY <1>1, <1>3 DEF Own, OnlyOwnChanges, SigningKnows, PurgingKnows

\* Nobody else is at work after the step of s, so s alone has to answer for it.
LEMMA QuietFrom ==
  ASSUME NEW s \in Sessions, Alone(s)', Own(s)'
  PROVE  Quiet'
<1>1. ASSUME session'[s] = Idle PROVE Wanted' = Tabled'
  BY <1>1, IdleOwnNext
<1>2. StorageMatchesRows'
  BY <1>1 DEF StorageMatchesRows, Settled, Tabled
<1>3. ASSUME NEW t \in Sessions, Alone(t)' PROVE Own(t)'
  <2>1. CASE t = s
    BY <2>1
  <2>2. CASE t # s
    BY <1>1, <1>3, <2>2, IdleOwnNext DEF Alone
  <2> QED  BY <2>1, <2>2
<1> QED  BY <1>2, <1>3 DEF Quiet

LEMMA ArriveQuiet ==
  ASSUME IInv, NEW s \in Sessions, Alone(s), Own(s), Arrive(s)
  PROVE  Own(s)'
<1>1. session[s] = Idle
  BY DEF Arrive, Serve, SaveUpload, SaveSignature, Ask, Approve, Reject, Delete
<1>2. Wanted = Tabled
  BY <1>1, IdleOwn
<1>3. ASSUME NEW x \in Work, session'[s] = x, x.op \in {"ask", "reject", "approve", "delete"},
             x.doc \in Docs => x.op = "ask", x.cut = {},
             x.op = "approve" => \E d : x.todo = {d},
             UNCHANGED <<rows, signed, storage>>
      PROVE  Own(s)'
  <2>1. Adding(s)' = {} /\ Removing(s)' = {}
    BY <1>3 DEF Adding, Removing, Purging, Work
  <2>2. Tabled' = Tabled /\ WithSignatures(Removing(s))' = {}
    BY <1>3, <2>1 DEF Tabled, WithSignatures
  <2>3. OnlyOwnChanges(s)'
    BY <1>2, <1>3, <2>1, <2>2 DEF OnlyOwnChanges
  <2>4. SigningKnows(s)' /\ PurgingKnows(s)'
    BY <1>3, <2>1 DEF SigningKnows, PurgingKnows, Purging, Work
  <2> QED  BY <2>3, <2>4 DEF Own
<1>4. ASSUME NEW d \in Docs, SaveUpload(s, d) PROVE Own(s)'
  <2> DEFINE x == [Idle EXCEPT !.op = "upload", !.doc = d]
  <2>1. x \in Work /\ x.op = "upload" /\ x.doc = d
    BY DEF Idle, Work
  <2>2. session'[s] = x
    BY <1>4, <2>1, ServeIs DEF IInv, SaveUpload
  <2> HIDE DEF x
  <2>3. Wanted' = Wanted \cup {d} /\ UNCHANGED <<rows, signed>>
    BY <1>4 DEF SaveUpload, IInv, TypeOK
  <2>4. Adding(s)' = {d} /\ WithSignatures(Removing(s))' = {}
    BY <2>1, <2>2 DEF Adding, Removing, WithSignatures, Purging
  <2>5. OnlyOwnChanges(s)'
    BY <1>2, <2>3, <2>4 DEF OnlyOwnChanges, Tabled
  <2>6. SigningKnows(s)' /\ PurgingKnows(s)'
    BY <2>1, <2>2 DEF SigningKnows, PurgingKnows, Purging
  <2> QED  BY <2>5, <2>6 DEF Own
<1>5. ASSUME NEW d \in Docs, NEW g \in Sigs, SaveSignature(s, d, g) PROVE Own(s)'
  <2> DEFINE x == [Idle EXCEPT !.op = "sign", !.doc = d, !.sig = g]
  <2>1. x \in Work /\ x.op = "sign" /\ x.doc = d /\ x.sig = g
    BY DEF Idle, Work
  <2>2. session'[s] = x
    BY <1>5, <2>1, ServeIs DEF IInv, SaveSignature
  <2> HIDE DEF x
  <2>3. /\ Wanted' = Wanted \cup {g} /\ UNCHANGED <<rows, signed>>
        /\ rows[d] = "present" /\ signed[g] = None
    BY <1>5 DEF SaveSignature, IInv, TypeOK
  <2>4. Adding(s)' = {g} /\ WithSignatures(Removing(s))' = {}
    BY <2>1, <2>2 DEF Adding, Removing, WithSignatures, Purging
  <2>5. OnlyOwnChanges(s)'
    BY <1>2, <2>3, <2>4 DEF OnlyOwnChanges, Tabled
  <2>6. SigningKnows(s)' /\ PurgingKnows(s)'
    BY <2>1, <2>2, <2>3 DEF SigningKnows, PurgingKnows, Purging
  <2> QED  BY <2>5, <2>6 DEF Own
<1>6. ASSUME NEW d \in Docs, NEW r \in Requests, Ask(s, d, r) PROVE Own(s)'
  <2> DEFINE x == [Idle EXCEPT !.op = "ask", !.doc = d, !.req = r]
  <2>1. x \in Work /\ x.op = "ask" /\ x.cut = {}
    BY DEF Idle, Work
  <2>2. session'[s] = x /\ UNCHANGED <<rows, signed, storage>>
    BY <1>6, <2>1, ServeIs DEF IInv, Ask
  <2> HIDE DEF x
  <2> QED  BY <1>3, <2>1, <2>2
<1>7. ASSUME NEW r \in Requests, Approve(s, r) PROVE Own(s)'
  <2> DEFINE x == [Idle EXCEPT !.op = "approve", !.req = r, !.todo = {requests[r].doc}]
  <2>1. requests[r].doc \in Docs
    BY <1>7 DEF IInv, MadeHaveDocument, Approve
  <2>2. /\ x \in Work /\ x.op = "approve" /\ x.doc = None /\ x.cut = {}
        /\ x.todo = {requests[r].doc}
    BY <2>1 DEF Idle, Work, Purging
  <2>3. session'[s] = x /\ UNCHANGED <<rows, signed, storage>>
    BY <1>7, <2>2, ServeIs DEF IInv, Approve
  <2> HIDE DEF x
  <2> QED  BY <1>3, <2>2, <2>3
<1>8. ASSUME NEW r \in Requests, Reject(s, r) PROVE Own(s)'
  <2> DEFINE x == [Idle EXCEPT !.op = "reject", !.req = r]
  <2>1. x \in Work /\ x.op = "reject" /\ x.doc = None /\ x.cut = {}
    BY DEF Idle, Work
  <2>2. session'[s] = x /\ UNCHANGED <<rows, signed, storage>>
    BY <1>8, <2>1, ServeIs DEF IInv, Reject
  <2> HIDE DEF x
  <2> QED  BY <1>3, <2>1, <2>2
<1>9. ASSUME NEW D \in SUBSET Docs, Delete(s, D) PROVE Own(s)'
  <2> DEFINE x == [Idle EXCEPT !.op = "delete", !.todo = D]
  <2>1. x \in Work /\ x.op = "delete" /\ x.doc = None /\ x.cut = {}
    BY DEF Idle, Work, Purging
  <2>2. session'[s] = x /\ UNCHANGED <<rows, signed, storage>>
    BY <1>9, <2>1, ServeIs DEF IInv, Delete
  <2> HIDE DEF x
  <2> QED  BY <1>3, <2>1, <2>2
<1> QED  BY <1>4, <1>5, <1>6, <1>7, <1>8, <1>9 DEF Arrive

\* What was saved is inserted.
LEMMA InsertQuiet ==
  ASSUME IInv, NEW s \in Sessions, Alone(s), Own(s), InsertUpload(s) \/ InsertSignature(s)
  PROVE  Own(s)'
<1>1. session'[s] = Idle /\ Wanted' = Wanted /\ Wanted = (Tabled \cup Adding(s)) \ WithSignatures(Removing(s))
  BY AnswerIs DEF IInv, InsertUpload, InsertSignature, Own, OnlyOwnChanges
<1>2. Removing(s) = {} /\ WithSignatures({}) = {}
  BY DEF InsertUpload, InsertSignature, Removing, WithSignatures, Purging
<1>3. Wanted = Tabled \cup Adding(s)
  BY <1>1, <1>2
<1>4. CASE InsertUpload(s)
  <2> DEFINE d == session[s].doc
  <2>1. /\ d \in Docs /\ Adding(s) = {d}
        /\ rows' = [rows EXCEPT ![d] = "present"] /\ signed' = signed
    BY <1>4 DEF IInv, UploadsKnow, InsertUpload, Adding
  <2>2. rows \in [Docs -> {"absent", "present", "purged"}]
    BY DEF IInv, TypeOK
  <2>3. Tabled' = Tabled \cup {d}
    BY <2>1, <2>2 DEF Tabled
  <2> QED  BY <1>1, <1>3, <2>1, <2>3, IdleOwnNext
<1>5. CASE InsertSignature(s)
  <2> DEFINE d == session[s].doc
             g == session[s].sig
  <2>1. /\ d \in Docs /\ g \in Sigs /\ Adding(s) = {g} /\ d # None
        /\ rows[d] = "present" /\ rows' = rows
    BY <1>5 DEF IInv, SignaturesKnow, InsertSignature, Adding, Own, SigningKnows
  <2>2. signed' = [signed EXCEPT ![g] = d] /\ signed \in [Sigs -> Docs \cup {None}]
    BY <1>5, <2>1 DEF InsertSignature, IInv, TypeOK
  <2>3. Tabled' = Tabled \cup {g}
    BY <2>1, <2>2 DEF Tabled
  <2> QED  BY <1>1, <1>3, <2>1, <2>3, IdleOwnNext
<1> QED  BY <1>4, <1>5

\* An answer of a session that has neither saved nor removed anything.
LEMMA AnswerOwn ==
  ASSUME IInv, NEW s \in Sessions, Own(s), Answer(s), Adding(s) = {}, Removing(s) = {},
         UNCHANGED <<rows, signed, storage>>
  PROVE  Own(s)'
<1>1. session'[s] = Idle
  BY AnswerIs DEF IInv
<1>2. WithSignatures({}) = {} /\ Tabled' = Tabled
  BY DEF WithSignatures, Tabled
<1> QED  BY <1>1, <1>2, IdleOwnNext DEF Own, OnlyOwnChanges

LEMMA DecisionQuiet ==
  ASSUME IInv, NEW s \in Sessions, Own(s), InsertRequest(s) \/ CommitReject(s)
  PROVE  Own(s)'
<1>1. Adding(s) = {} /\ Removing(s) = {}
  BY DEF InsertRequest, CommitReject, Adding, Removing, Purging
<1> QED  BY <1>1, AnswerOwn DEF InsertRequest, CommitReject

\* A purge that goes on is still at what it does not bring back.
LEMMA PurgingOwn ==
  ASSUME IInv, NEW s \in Sessions, session[s].op \in Purging, PurgingKnows(s),
         NEW x \in Work, session'[s] = x, x.op = session[s].op, rows' = rows, signed' = signed,
         \A d \in x.cut \cup ({x.doc} \ {None}) : rows[d] = "present",
         Wanted' = Tabled \ WithSignatures(x.cut \cup ({x.doc} \ {None})),
         x.doc # None => x.doc \in x.todo /\ x.held = SignaturesOf(x.doc),
         x.todo \subseteq session[s].todo,
         x.op = "approve" /\ x.todo # {} => x.cut = {}
  PROVE  Own(s)'
<1>1. /\ Removing(s)' = x.cut \cup ({x.doc} \ {None}) /\ Adding(s)' = {}
      /\ Tabled' = Tabled
  BY DEF Removing, Adding, Purging, Tabled
<1>2. WithSignatures(Removing(s))' = WithSignatures(x.cut \cup ({x.doc} \ {None}))
  BY <1>1 DEF WithSignatures
<1>3. OnlyOwnChanges(s)'
  BY <1>1, <1>2 DEF OnlyOwnChanges
<1>4. SigningKnows(s)'
  BY DEF SigningKnows, Purging
<1>5. SignaturesOf(x.doc)' = SignaturesOf(x.doc)
  BY DEF SignaturesOf
<1>6. PurgingKnows(s)'
  BY <1>1, <1>5 DEF PurgingKnows, SignaturesOf
<1> QED  BY <1>3, <1>4, <1>6 DEF Own

LEMMA MissingQuiet ==
  ASSUME IInv, NEW s \in Sessions, NEW d \in Docs, Own(s), Missing(s, d)
  PROVE  Own(s)'
<1>1. /\ session[s].op \in Purging /\ session[s].doc = None /\ d \in session[s].todo
      /\ UNCHANGED <<rows, signed, requests, storage>>
      /\ PurgingKnows(s)
  BY DEF Missing, Own
<1>2. Adding(s) = {} /\ Removing(s) = session[s].cut
  BY <1>1 DEF Adding, Removing, Purging
<1>3. CASE session[s].op = "approve"
  <2>1. Removing(s) = {} /\ Answer(s)
    BY <1>1, <1>2, <1>3 DEF PurgingKnows, Missing
  <2> QED  BY <1>1, <1>2, <2>1, AnswerOwn
<1>4. CASE session[s].op # "approve"
  <2> DEFINE x == [session[s] EXCEPT !.todo = session[s].todo \ {d}]
  <2>1. /\ x \in Work /\ x.op = session[s].op /\ x.doc = None /\ x.cut = session[s].cut
        /\ x.todo = session[s].todo \ {d}
    BY <1>1, SessionTyped DEF IInv, Work
  <2>2. session'[s] = x
    BY <1>4, <2>1, SessionIs DEF Missing, IInv
  <2> HIDE DEF x
  <2>3. Wanted' = Tabled \ WithSignatures(x.cut \cup ({x.doc} \ {None}))
    BY <1>1, <1>2, <2>1 DEF Own, OnlyOwnChanges
  <2> QED  BY <1>1, <1>2, <1>4, <2>1, <2>2, <2>3, PurgingOwn DEF PurgingKnows
<1> QED  BY <1>3, <1>4

LEMMA UnlinkQuiet ==
  ASSUME IInv, NEW s \in Sessions, NEW d \in Docs, Own(s), Unlink(s, d)
  PROVE  Own(s)'
<1>1. /\ session[s].op \in Purging /\ session[s].doc = None /\ d \in session[s].todo
      /\ rows[d] = "present" /\ d # None
      /\ Wanted' = Wanted \ (SignaturesOf(d) \cup {d})
      /\ UNCHANGED <<rows, signed, requests>>
      /\ PurgingKnows(s)
  BY UnlinkedIs DEF IInv, TypeOK, Unlink, Own
<1>2. Adding(s) = {} /\ Removing(s) = session[s].cut
  BY <1>1 DEF Adding, Removing, Purging
<1> DEFINE x == [session[s] EXCEPT !.doc = d, !.held = SignaturesOf(d)]
<1>3. /\ x \in Work /\ x.op = session[s].op /\ x.doc = d /\ x.cut = session[s].cut
      /\ x.todo = session[s].todo /\ x.held = SignaturesOf(d)
  <2>1. session[s] \in Work /\ SignaturesOf(d) \in SUBSET Sigs
    BY SessionTyped DEF IInv, SignaturesOf
  <2> QED  BY <2>1 DEF Work
<1>4. session'[s] = x
  BY <1>3, SessionIs DEF Unlink, IInv
<1> HIDE DEF x
<1>5. Wanted = Tabled \ WithSignatures(session[s].cut)
  BY <1>2 DEF Own, OnlyOwnChanges
<1>6. WithSignatures(session[s].cut \cup {d}) =
        WithSignatures(session[s].cut) \cup (SignaturesOf(d) \cup {d})
  BY DEF WithSignatures, SignaturesOf
<1>7. x.cut \cup ({x.doc} \ {None}) = session[s].cut \cup {d}
  BY <1>1, <1>3
<1>8. Wanted' = Tabled \ WithSignatures(x.cut \cup ({x.doc} \ {None}))
  BY <1>1, <1>5, <1>6, <1>7
<1>9. \A e \in session[s].cut : rows[e] = "present"
  BY <1>1, <1>2 DEF PurgingKnows
<1> QED  BY <1>1, <1>3, <1>4, <1>7, <1>8, <1>9, PurgingOwn DEF PurgingKnows

LEMMA FlushQuiet ==
  ASSUME IInv, NEW s \in Sessions, Own(s), FlushRows(s)
  PROVE  Own(s)'
<1> DEFINE d == session[s].doc
<1>1. /\ session[s].op \in Purging /\ d # None
      /\ UNCHANGED <<rows, signed, requests, storage>>
      /\ PurgingKnows(s)
  BY DEF FlushRows, Own
<1>2. /\ session[s] \in Work /\ d \in Docs
      /\ Adding(s) = {} /\ Removing(s) = session[s].cut \cup {d}
  BY <1>1, SessionTyped DEF IInv, Work, Adding, Removing, Purging
<1>3. rows[d] = "present" /\ d \in session[s].todo /\ session[s].held = SignaturesOf(d)
  BY <1>1, <1>2 DEF PurgingKnows
<1> DEFINE x == [session[s] EXCEPT !.todo = session[s].todo \ {d},
                                   !.cut = session[s].cut \cup {d},
                                   !.doc = None, !.held = {}]
<1>4. /\ x \in Work /\ x.op = session[s].op /\ x.doc = None
      /\ x.cut = session[s].cut \cup {d} /\ x.todo = session[s].todo \ {d}
  BY <1>2 DEF Work
<1>5. session'[s] = x
  <2>1. {e \in {d} : rows[e] = "present"} = {d}
    BY <1>3
  <2>2. session' = [session EXCEPT ![s] = x]
    BY <1>3, <2>1 DEF FlushRows
  <2> QED  BY <1>4, <2>2, SessionIs DEF IInv
<1> HIDE DEF x
<1>6. Wanted' = Tabled \ WithSignatures(x.cut \cup ({x.doc} \ {None}))
  <2>1. x.cut \cup ({x.doc} \ {None}) = Removing(s)
    BY <1>2, <1>4
  <2> QED  BY <1>1, <1>2, <2>1 DEF Own, OnlyOwnChanges
<1>7. x.op = "approve" => x.todo = {}
  BY <1>1, <1>3, <1>4 DEF PurgingKnows
<1>8. \A e \in x.cut \cup ({x.doc} \ {None}) : rows[e] = "present"
  BY <1>1, <1>2, <1>4 DEF PurgingKnows
<1> QED  BY <1>1, <1>4, <1>5, <1>6, <1>7, <1>8, PurgingOwn

LEMMA CommitQuiet ==
  ASSUME IInv, NEW s \in Sessions, Own(s), CommitPurge(s)
  PROVE  Own(s)'
<1> DEFINE cut == session[s].cut
<1>1. /\ session[s].op \in Purging /\ session[s].doc = None
      /\ cut \subseteq Docs /\ None \notin cut
      /\ Wanted' = Wanted
      /\ rows' = [d \in Docs |-> IF d \in cut THEN "purged" ELSE rows[d]]
      /\ signed' = [g \in Sigs |-> IF signed[g] \in cut THEN None ELSE signed[g]]
  BY SessionTyped DEF IInv, Work, CommitPurge
<1>2. Adding(s) = {} /\ Removing(s) = cut
  BY <1>1 DEF Adding, Removing, Purging
<1>3. session'[s] = Idle
  BY AnswerIs DEF IInv, CommitPurge
<1>4. Wanted = Tabled \ WithSignatures(cut)
  BY <1>2 DEF Own, OnlyOwnChanges
<1> HIDE DEF cut
<1>5. Tabled' = Tabled \ WithSignatures(cut)
  <2>1. \A d \in Docs : rows'[d] = IF d \in cut THEN "purged" ELSE rows[d]
    BY <1>1
  <2>2. \A g \in Sigs : signed'[g] = IF signed[g] \in cut THEN None ELSE signed[g]
    BY <1>1
  <2> QED  BY <1>1, <2>1, <2>2 DEF Tabled, WithSignatures
<1> QED  BY <1>1, <1>3, <1>4, <1>5, IdleOwnNext

LEMMA ProceedQuiet ==
  ASSUME IInv, NEW s \in Sessions, Alone(s), Own(s), Proceed(s)
  PROVE  Own(s)'
<1>1. CASE InsertUpload(s) \/ InsertSignature(s)
  BY <1>1, InsertQuiet
<1>2. CASE InsertRequest(s) \/ CommitReject(s)
  BY <1>2, DecisionQuiet
<1>3. CASE \E d \in Docs : Missing(s, d) \/ Unlink(s, d)
  BY <1>3, MissingQuiet, UnlinkQuiet
<1>4. CASE FlushRows(s) \/ CommitPurge(s)
  BY <1>4, FlushQuiet, CommitQuiet
<1> QED  BY <1>1, <1>2, <1>3, <1>4 DEF Proceed

\* A step of s leaves the other sessions where they are.
LEMMA OnlyOneMoves ==
  ASSUME NEW s \in Sessions, Arrive(s) \/ Proceed(s), NEW t \in Sessions, t # s, TypeOK
  PROVE  session'[t] = session[t]
<1>1. session' = [session EXCEPT ![s] = session'[s]]
  BY DEF Arrive, Proceed, Serve, SaveUpload, SaveSignature, Ask, Approve, Reject, Delete,
         Answer, InsertUpload, InsertSignature, InsertRequest, CommitReject, Missing, Unlink,
         FlushRows, CommitPurge, TypeOK
<1> QED  BY <1>1 DEF TypeOK

CalmInv == IInv /\ (calm => Quiet)

LEMMA CalmInvStep == CalmInv /\ [CalmNext]_calmVars => CalmInv'
<1> SUFFICES ASSUME CalmInv, [CalmNext]_calmVars PROVE CalmInv'
  OBVIOUS
<1>1. [Next]_vars
  BY DEF CalmNext, calmVars, Next
<1>2. IInv'
  BY <1>1, IInvStep DEF CalmInv
<1>3. CASE UNCHANGED calmVars
  <2>1. ASSUME Quiet PROVE Quiet'
    BY <1>3, <2>1 DEF calmVars, vars, Quiet, StorageMatchesRows, Settled, Alone, Own,
       OnlyOwnChanges, SigningKnows, PurgingKnows, Tabled, Adding, Removing, WithSignatures,
       SignaturesOf
  <2> QED  BY <1>2, <1>3, <2>1 DEF CalmInv, calmVars
<1>4. ASSUME NEW s \in Sessions, Arrive(s) \/ Proceed(s),
             calm' = (calm /\ \A t \in Sessions \ {s} : session[t] = Idle)
      PROVE  CalmInv'
  <2> SUFFICES ASSUME calm' PROVE Quiet'
    BY <1>2 DEF CalmInv
  <2>1. Alone(s) /\ Own(s)
    BY <1>4 DEF CalmInv, Quiet, Alone
  <2>2. Own(s)'
    BY <1>4, <2>1, ArriveQuiet, ProceedQuiet DEF CalmInv
  <2>3. Alone(s)'
    BY <1>4, <2>1, OnlyOneMoves DEF Alone, CalmInv, IInv
  <2> QED  BY <2>2, <2>3, QuietFrom
<1>5. CASE calm' = FALSE
  BY <1>2, <1>5 DEF CalmInv
<1> QED  BY <1>3, <1>4, <1>5 DEF CalmNext

(***************************************************************************)
(* As long as one request follows the other and none dies, storage and     *)
(* tables agree between requests, for any number of documents and whatever *)
(* is uploaded, signed, asked for, decided, deleted in bulk or purged.     *)
(***************************************************************************)
THEOREM CalmStorageMatches == CalmSpec => []CalmStorage
<1>1. CalmInit => CalmInv
  <2> SUFFICES ASSUME CalmInit PROVE CalmInv
    OBVIOUS
  <2>1. IInv
    BY IInvInit DEF CalmInit
  <2>2. Wanted = Tabled /\ \A s \in Sessions : session[s] = Idle
    BY DEF CalmInit, Init, Tabled
  <2>3. \A s \in Sessions : Own(s)
    BY <2>2, IdleOwn
  <2>4. StorageMatchesRows
    BY <2>2 DEF StorageMatchesRows, Tabled
  <2> QED  BY <2>1, <2>3, <2>4 DEF CalmInv, Quiet
<1>2. CalmInv => CalmStorage
  BY DEF CalmInv, CalmStorage, Quiet
<1> QED  BY <1>1, <1>2, CalmInvStep, PTL DEF CalmSpec

(***************************************************************************)
(* One worker whose requests never die keeps storage and tables together   *)
(* for good: what breaks them apart is an interleaving or a failure.       *)
(***************************************************************************)
THEOREM SerialStorageMatches ==
  ASSUME \A s, t \in Sessions : s = t, MayFail = FALSE
  PROVE  Spec => []StorageMatchesRows
<1>1. Init => IInv /\ Quiet
  <2> SUFFICES ASSUME Init PROVE Quiet
    BY IInvInit
  <2>1. Wanted = Tabled /\ \A s \in Sessions : session[s] = Idle
    BY DEF Init, Tabled
  <2>2. \A s \in Sessions : Own(s)
    BY <2>1, IdleOwn
  <2> QED  BY <2>1, <2>2 DEF Quiet, StorageMatchesRows, Tabled
<1>2. IInv /\ Quiet /\ [Next]_vars => (IInv /\ Quiet)'
  <2> SUFFICES ASSUME IInv, Quiet, [Next]_vars PROVE Quiet'
    BY IInvStep
  <2>1. CASE UNCHANGED vars
    BY <2>1 DEF vars, Quiet, StorageMatchesRows, Settled, Alone, Own, OnlyOwnChanges,
       SigningKnows, PurgingKnows, Tabled, Adding, Removing, WithSignatures, SignaturesOf
  <2>2. ASSUME NEW s \in Sessions, Arrive(s) \/ Proceed(s) PROVE Quiet'
    <3>1. Alone(s) /\ Alone(s)' /\ Own(s)
      BY DEF Alone, Quiet
    <3>2. Own(s)'
      BY <2>2, <3>1, ArriveQuiet, ProceedQuiet
    <3> QED  BY <3>1, <3>2, QuietFrom
  <2>3. ASSUME NEW s \in Sessions, Fail(s) \/ DeadlockVictim(s) PROVE FALSE
    BY <2>3 DEF Fail, DeadlockVictim
  <2> QED  BY <2>1, <2>2, <2>3 DEF Next
<1>3. Quiet => StorageMatchesRows
  BY DEF Quiet
<1> QED  BY <1>1, <1>2, <1>3, PTL DEF Spec
=============================================================================
