------------------------- MODULE MailWorkflowProofs -------------------------
(***************************************************************************)
(* Proofs about MailWorkflow, for every set of documents, users and        *)
(* sessions, and every stored definition without self-loops.               *)
(***************************************************************************)
EXTENDS MailWorkflow, TLAPS

(***************************************************************************)
(* What the engine offers is a status of its own, and another one.         *)
(***************************************************************************)
LEMMA EdgeTarget ==
  ASSUME NEW dir \in Direction, NEW st, NEW e \in Edges(dir, st)
  PROVE  e.to \in Status /\ e.to # st
<1>1. CASE e \in FromDefinition(Definitions[dir], st)
  <2>1. e \in Definitions[dir] /\ e.from = st /\ e.to \in Status
    BY <1>1 DEF FromDefinition
  <2> QED  BY <2>1, DefinitionsAssumption
<1>2. CASE e \in FromFallback(dir, st)
  <2>1. e \in FallbackEdges[dir] /\ e.from = st
    BY <1>2 DEF FromFallback
  <2>2. \A f \in FallbackEdges[dir] : f.to \in Status /\ f.to # f.from
    BY DEF FallbackEdges, Direction, Edge, Status
  <2> QED  BY <2>1, <2>2
<1> QED  BY <1>1, <1>2 DEF Edges, Transitions

(***************************************************************************)
(* Rows stay rows.                                                         *)
(***************************************************************************)
LEMMA PickType ==
  ASSUME NEW S, NEW cur \in S, NEW seen, NEW new \in S
  PROVE  Pick(cur, seen, new) \in S
BY DEF Pick

LEMMA FlushType ==
  ASSUME NEW cur \in Row, NEW seen, NEW new \in Row
  PROVE  Flush(cur, seen, new) \in Row
BY DEF Flush, Pick, Row

LEMMA MovedType ==
  ASSUME NEW cur \in Row, NEW seen \in Row, NEW e, e.to \in Status,
         NEW who \in Users \cup {NoUser}
  PROVE  Moved(cur, seen, e, who) \in Row
<1> DEFINE new == [seen EXCEPT
                     !.status = e.to,
                     !.assignee = IF who = NoUser THEN @ ELSE who,
                     !.dated = IF e.to = "archived" THEN TRUE
                               ELSE IF seen.status = "archived" THEN FALSE ELSE @]
<1>1. new \in Row
  BY DEF Row
<1>2. Flush(cur, seen, new) \in Row
  BY <1>1, FlushType
<1> HIDE DEF new
<1>3. [Flush(cur, seen, new) EXCEPT
         !.dated = IF e.to = "archived" THEN TRUE ELSE @] \in Row
  BY <1>2 DEF Row
<1> QED  BY <1>3 DEF Moved, new

LEMMA LoggedType ==
  ASSUME NEW t \in Trail, NEW from \in Status, NEW to \in Status,
         NEW moved \in Status
  PROVE  Logged(t, from, to, moved) \in Trail
BY DEF Logged, Trail

LEMMA CommitType ==
  ASSUME TypeOK, NEW s \in Sessions, Busy(s), NEW r \in Row, NEW t \in Trail,
         Commit(s, r, t)
  PROVE  TypeOK'
<1>1. session[s].doc \in Docs
  BY DEF TypeOK, Busy
<1>2. Idle \in [doc : Docs \cup {NoDoc}, seen : Row]
  BY DEF Idle, Blank, NewRow, Row, Status, Direction
<1> QED  BY <1>1, <1>2 DEF TypeOK, Commit

LEMMA BlankType ==
  /\ \A dir \in Direction : NewRow(dir) \in Row
  /\ Blank \in Row
  /\ NewTrail \in Trail
  /\ Idle \in [doc : Docs \cup {NoDoc}, seen : Row]
BY DEF NewRow, Blank, NewTrail, Idle, Row, Trail, Status, Direction

LEMMA TaskType ==
  ASSUME NEW t \in [phase : {"none", "queued", "running", "done", "failed", "lost"},
                    tries : 0 .. MaxRetries, seen : Status]
  PROVE  Retried(t) \in [phase : {"none", "queued", "running", "done", "failed", "lost"},
                         tries : 0 .. MaxRetries, seen : Status]
BY IdsAssumption DEF Retried, Ended, Status

(***************************************************************************)
(* Applying an edge is a commit of a row and of a history.                 *)
(***************************************************************************)
LEMMA ApplyType ==
  ASSUME TypeOK, NEW s \in Sessions, Busy(s), NEW who \in Users \cup {NoUser},
         NEW e \in Edges(session[s].seen.direction, session[s].seen.status),
         Apply(s, e, who)
  PROVE  TypeOK'
<1> DEFINE d == session[s].doc
<1> DEFINE seen == session[s].seen
<1>1. d \in Docs /\ seen \in Row /\ row[d] \in Row /\ trail[d] \in Trail
  BY DEF TypeOK, Busy
<1>2. seen.status \in Status /\ seen.direction \in Direction
  BY <1>1 DEF Row
<1>3. e.to \in Status
  BY <1>2, EdgeTarget
<1>4. Moved(row[d], seen, e, who) \in Row
  BY <1>1, <1>3, MovedType
<1>5. Logged(trail[d], seen.status, e.to, e.to) \in Trail
  BY <1>1, <1>2, <1>3, LoggedType
<1> QED  BY <1>4, <1>5, CommitType DEF Apply

(***************************************************************************)
(* The type invariant.                                                     *)
(***************************************************************************)
LEMMA TypeStep ==
  ASSUME TypeOK, [Next]_vars
  PROVE  TypeOK'
<1>1. ASSUME NEW s \in Sessions, NEW d \in Docs, Open(s, d)
      PROVE  TypeOK'
  BY <1>1 DEF TypeOK, Open
<1>2. ASSUME NEW s \in Sessions, Refuse(s)
      PROVE  TypeOK'
  BY <1>2, BlankType DEF TypeOK, Refuse
<1>3. ASSUME NEW s \in Sessions, NEW who \in Users \cup {NoUser}, Transition(s, who)
      PROVE  TypeOK'
  BY <1>3, ApplyType DEF Transition
<1>4. ASSUME NEW s \in Sessions, NEW who \in Users, Assign(s, who)
      PROVE  TypeOK'
  <2> DEFINE d == session[s].doc
  <2> DEFINE seen == session[s].seen
  <2>1. Busy(s) /\ d \in Docs /\ seen \in Row /\ row[d] \in Row /\ trail[d] \in Trail
    BY <1>4 DEF TypeOK, Busy, Assign
  <2>2. [seen EXCEPT !.assignee = who] \in Row
    BY <2>1 DEF Row
  <2>3. Flush(row[d], seen, [seen EXCEPT !.assignee = who]) \in Row
    BY <2>1, <2>2, FlushType
  <2>4. Logged(trail[d], seen.status, seen.status, trail[d].moved) \in Trail
    BY <2>1, LoggedType DEF Row, Trail
  <2> QED  BY <1>4, <2>1, <2>3, <2>4, ApplyType, CommitType DEF Assign
<1>5. ASSUME NEW s \in Sessions, NEW dir \in Direction,
             NEW who \in Users \cup {NoUser}, Update(s, dir, who)
      PROVE  TypeOK'
  <2> DEFINE d == session[s].doc
  <2> DEFINE seen == session[s].seen
  <2>1. Busy(s) /\ d \in Docs /\ seen \in Row /\ row[d] \in Row /\ trail[d] \in Trail
    BY <1>5 DEF TypeOK, Busy, Update
  <2>2. [seen EXCEPT !.direction = dir, !.assignee = who] \in Row
    BY <2>1 DEF Row
  <2>3. Flush(row[d], seen, [seen EXCEPT !.direction = dir, !.assignee = who]) \in Row
    BY <2>1, <2>2, FlushType
  <2> QED  BY <1>5, <2>1, <2>3, CommitType DEF Update
<1>6. ASSUME NEW s \in Sessions, Purge(s)
      PROVE  TypeOK'
  BY <1>6, BlankType DEF TypeOK, Purge, Busy
<1>7. ASSUME NEW d \in Docs, NEW dir \in Direction, Upload(d, dir)
      PROVE  TypeOK'
  BY <1>7, BlankType, IdsAssumption DEF TypeOK, Upload, NoTask, Status
<1>8. ASSUME NEW d \in Docs, OcrTask(d)
      PROVE  TypeOK'
  <2>1. CASE OcrStart(d)
    <3>1. row[d].status \in Status
      BY DEF TypeOK, Row
    <3>2. Retried(ocr[d]) \in [phase : {"none", "queued", "running", "done", "failed", "lost"},
                               tries : 0 .. MaxRetries, seen : Status]
      BY TaskType DEF TypeOK
    <3> QED  BY <2>1, <3>1, <3>2 DEF TypeOK, OcrStart
  <2>2. CASE OcrFinish(d)
    <3>1. \A hit \in KeywordHits :
            (IF hit THEN Pick(row[d].status, ocr[d].seen, "in_treatment")
                    ELSE row[d].status) \in Status
      BY DEF TypeOK, Row, Pick, Status
    <3>2. PICK hit \in KeywordHits :
            row' = [row EXCEPT ![d].status =
                      IF hit THEN Pick(@, ocr[d].seen, "in_treatment") ELSE @]
      BY <2>2 DEF OcrFinish
    <3>3. row' \in [Docs -> Row]
      <4> DEFINE st == IF hit THEN Pick(row[d].status, ocr[d].seen, "in_treatment")
                              ELSE row[d].status
      <4>1. st \in Status
        BY <3>1
      <4>2. row' = [row EXCEPT ![d] = [@ EXCEPT !.status = st]]
        BY <3>2
      <4> HIDE DEF st
      <4> QED  BY <4>1, <4>2 DEF TypeOK, Row
    <3>4. /\ ocr' = [ocr EXCEPT ![d] = Ended("done")]
          /\ UNCHANGED <<table, trail, session>>
      BY <2>2 DEF OcrFinish
    <3>5. ocr' \in [Docs -> [phase : {"none", "queued", "running", "done", "failed", "lost"},
                             tries : 0 .. MaxRetries, seen : Status]]
      BY <3>4, IdsAssumption DEF TypeOK, Ended, Status
    <3> QED  BY <3>3, <3>4, <3>5 DEF TypeOK
  <2>3. CASE OcrFail(d)
    BY <2>3, TaskType DEF TypeOK, OcrFail
  <2>4. CASE OcrLost(d)
    BY <2>4, IdsAssumption DEF TypeOK, OcrLost, Ended, Status
  <2> QED  BY <1>8, <2>1, <2>2, <2>3, <2>4 DEF OcrTask
<1>9. ASSUME UNCHANGED vars
      PROVE  TypeOK'
  BY <1>9 DEF TypeOK, vars
<1> QED
  BY <1>1, <1>2, <1>3, <1>4, <1>5, <1>6, <1>7, <1>8, <1>9 DEF Next, Handler

LEMMA TypeInit == Init => TypeOK
BY BlankType, IdsAssumption DEF Init, TypeOK, NoTask, Status

(***************************************************************************)
(* Whatever the sessions and the OCR worker do to each other, the tables   *)
(* and the sessions hold values of their types.                            *)
(***************************************************************************)
THEOREM TypeCorrect == Spec => []TypeOK
BY TypeInit, TypeStep, PTL DEF Spec

-----------------------------------------------------------------------------
(***************************************************************************)
(* ArchivedHasDate and HistoryExplainsStatus under every interleaving.     *)
(*                                                                         *)
(* With the types both are inductive, because of what an UPDATE carries:   *)
(* that of a transition always carries the status it moves to (an edge is  *)
(* no self-loop) and, if that is archived, the date; that of the others    *)
(* carries neither.                                                        *)
(***************************************************************************)
LEMMA MovedCarriesStatus ==
  ASSUME NEW cur \in Row, NEW seen \in Row, NEW who \in Users \cup {NoUser},
         NEW e, e.to \in Status, e.to # seen.status
  PROVE  /\ Moved(cur, seen, e, who).status = e.to
         /\ e.to = "archived" => Moved(cur, seen, e, who).dated = TRUE
<1> DEFINE new == [seen EXCEPT
                     !.status = e.to,
                     !.assignee = IF who = NoUser THEN @ ELSE who,
                     !.dated = IF e.to = "archived" THEN TRUE
                               ELSE IF seen.status = "archived" THEN FALSE ELSE @]
<1>1. new \in Row /\ new.status = e.to
  BY DEF Row
<1> HIDE DEF new
<1>2. Flush(cur, seen, new) \in Row /\ Flush(cur, seen, new).status = e.to
  BY <1>1, FlushType DEF Flush, Pick
<1> DEFINE flushed == Flush(cur, seen, new)
<1>3. Moved(cur, seen, e, who)
        = [flushed EXCEPT !.dated = IF e.to = "archived" THEN TRUE ELSE @]
  BY DEF Moved, new
<1> HIDE DEF flushed
<1>4. flushed \in Row /\ flushed.status = e.to
  BY <1>2 DEF flushed
<1> QED  BY <1>3, <1>4 DEF Row

LEMMA FlushKeepsStatus ==
  ASSUME NEW cur \in Row, NEW seen \in Row, NEW new \in Row,
         new.status = seen.status, new.dated = seen.dated
  PROVE  /\ Flush(cur, seen, new).status = cur.status
         /\ Flush(cur, seen, new).dated = cur.dated
BY DEF Flush, Pick

Safe == TypeOK /\ ArchivedHasDate /\ HistoryExplainsStatus

LEMMA CommitSafe ==
  ASSUME Safe, NEW s \in Sessions, Busy(s), NEW r \in Row, NEW t \in Trail,
         Commit(s, r, t),
         r.status = "archived" => r.dated,
         \/ r.status = t.moved
         \/ /\ r.status = row[session[s].doc].status
            /\ t.moved = trail[session[s].doc].moved
  PROVE  ArchivedHasDate' /\ HistoryExplainsStatus'
<1>1. session[s].doc \in Docs
  BY DEF Safe, TypeOK, Busy
<1>2. CASE Present(session[s].doc)
  <2>1. /\ row' = [row EXCEPT ![session[s].doc] = r]
        /\ trail' = [trail EXCEPT ![session[s].doc] = t]
        /\ UNCHANGED <<table, ocr>>
    BY <1>2 DEF Commit
  <2> QED
    BY <1>1, <1>2, <2>1
    DEF Safe, TypeOK, ArchivedHasDate, HistoryExplainsStatus, Routed, Present
<1>3. CASE ~Present(session[s].doc)
  <2>1. UNCHANGED <<row, trail, table, ocr>>
    BY <1>3 DEF Commit
  <2> QED
    BY <2>1 DEF Safe, ArchivedHasDate, HistoryExplainsStatus, Routed, Present
<1> QED  BY <1>2, <1>3

LEMMA ApplySafe ==
  ASSUME Safe, NEW s \in Sessions, Busy(s), NEW who \in Users \cup {NoUser},
         NEW e \in Edges(session[s].seen.direction, session[s].seen.status),
         Apply(s, e, who)
  PROVE  ArchivedHasDate' /\ HistoryExplainsStatus'
<1> DEFINE d == session[s].doc
<1> DEFINE seen == session[s].seen
<1> DEFINE r == Moved(row[d], seen, e, who)
<1> DEFINE t == Logged(trail[d], seen.status, e.to, e.to)
<1>1. d \in Docs /\ seen \in Row /\ row[d] \in Row /\ trail[d] \in Trail
  BY DEF Safe, TypeOK, Busy
<1>2. seen.status \in Status /\ seen.direction \in Direction
  BY <1>1 DEF Row
<1>3. e.to \in Status /\ e.to # seen.status
  BY <1>2, EdgeTarget
<1>4. r \in Row /\ r.status = e.to /\ (e.to = "archived" => r.dated = TRUE)
  BY <1>1, <1>3, MovedType, MovedCarriesStatus
<1>5. t \in Trail /\ t.moved = e.to
  BY <1>1, <1>2, <1>3, LoggedType DEF Logged
<1>6. Commit(s, r, t)
  BY DEF Apply
<1> HIDE DEF r, t
<1> QED  BY <1>4, <1>5, <1>6, CommitSafe

LEMMA SafeStep ==
  ASSUME Safe, [Next]_vars
  PROVE  ArchivedHasDate' /\ HistoryExplainsStatus'
<1> USE DEF Safe
<1>1. ASSUME NEW s \in Sessions, NEW d \in Docs, Open(s, d)
      PROVE  ArchivedHasDate' /\ HistoryExplainsStatus'
  BY <1>1 DEF Open, ArchivedHasDate, HistoryExplainsStatus, Routed, Present
<1>2. ASSUME NEW s \in Sessions, Refuse(s)
      PROVE  ArchivedHasDate' /\ HistoryExplainsStatus'
  BY <1>2 DEF Refuse, ArchivedHasDate, HistoryExplainsStatus, Routed, Present
<1>3. ASSUME NEW s \in Sessions, NEW who \in Users \cup {NoUser}, Transition(s, who)
      PROVE  ArchivedHasDate' /\ HistoryExplainsStatus'
  BY <1>3, ApplySafe DEF Transition
<1>4. ASSUME NEW s \in Sessions, NEW who \in Users, Assign(s, who)
      PROVE  ArchivedHasDate' /\ HistoryExplainsStatus'
  <2> DEFINE d == session[s].doc
  <2> DEFINE seen == session[s].seen
  <2> DEFINE r == Flush(row[d], seen, [seen EXCEPT !.assignee = who])
  <2> DEFINE t == Logged(trail[d], seen.status, seen.status, trail[d].moved)
  <2>1. Busy(s) /\ d \in Docs /\ seen \in Row /\ row[d] \in Row /\ trail[d] \in Trail
    BY <1>4 DEF TypeOK, Busy, Assign
  <2>2. /\ [seen EXCEPT !.assignee = who] \in Row
        /\ [seen EXCEPT !.assignee = who].status = seen.status
        /\ [seen EXCEPT !.assignee = who].dated = seen.dated
    BY <2>1 DEF Row
  <2>3. r \in Row /\ r.status = row[d].status /\ r.dated = row[d].dated
    BY <2>1, <2>2, FlushType, FlushKeepsStatus
  <2>4. t \in Trail /\ t.moved = trail[d].moved
    BY <2>1, LoggedType DEF Logged, Row, Trail
  <2>5. r.status = "archived" => r.dated
    BY <2>1, <2>3 DEF ArchivedHasDate
  <2>6. CASE Commit(s, r, t)
    <3> HIDE DEF r, t
    <3> QED  BY <2>1, <2>3, <2>4, <2>5, <2>6, CommitSafe
  <2> QED  BY <1>4, <2>1, <2>6, ApplySafe DEF Assign
<1>5. ASSUME NEW s \in Sessions, NEW dir \in Direction,
             NEW who \in Users \cup {NoUser}, Update(s, dir, who)
      PROVE  ArchivedHasDate' /\ HistoryExplainsStatus'
  <2> DEFINE d == session[s].doc
  <2> DEFINE seen == session[s].seen
  <2> DEFINE r == Flush(row[d], seen, [seen EXCEPT !.direction = dir, !.assignee = who])
  <2>1. Busy(s) /\ d \in Docs /\ seen \in Row /\ row[d] \in Row /\ trail[d] \in Trail
    BY <1>5 DEF TypeOK, Busy, Update
  <2>2. /\ [seen EXCEPT !.direction = dir, !.assignee = who] \in Row
        /\ [seen EXCEPT !.direction = dir, !.assignee = who].status = seen.status
        /\ [seen EXCEPT !.direction = dir, !.assignee = who].dated = seen.dated
    BY <2>1 DEF Row
  <2>3. r \in Row /\ r.status = row[d].status /\ r.dated = row[d].dated
    BY <2>1, <2>2, FlushType, FlushKeepsStatus
  <2>4. r.status = "archived" => r.dated
    BY <2>1, <2>3 DEF ArchivedHasDate
  <2>5. Commit(s, r, trail[d])
    BY <1>5 DEF Update
  <2> HIDE DEF r
  <2> QED  BY <2>1, <2>3, <2>4, <2>5, CommitSafe
<1>6. ASSUME NEW s \in Sessions, Purge(s)
      PROVE  ArchivedHasDate' /\ HistoryExplainsStatus'
  BY <1>6 DEF TypeOK, Purge, Busy, Blank, NewRow, ArchivedHasDate,
              HistoryExplainsStatus, Routed, Present
<1>7. ASSUME NEW d \in Docs, NEW dir \in Direction, Upload(d, dir)
      PROVE  ArchivedHasDate' /\ HistoryExplainsStatus'
  BY <1>7 DEF TypeOK, Upload, NewRow, NewTrail, NoTask, ArchivedHasDate,
              HistoryExplainsStatus, Routed, Present
<1>8. ASSUME NEW d \in Docs, OcrTask(d)
      PROVE  ArchivedHasDate' /\ HistoryExplainsStatus'
  <2>1. CASE OcrStart(d)
    BY <2>1 DEF TypeOK, OcrStart, Retried, Ended, ArchivedHasDate, HistoryExplainsStatus,
                Routed, Present
  <2>2. CASE OcrFinish(d)
    <3>1. PICK hit \in KeywordHits :
            row' = [row EXCEPT ![d].status =
                      IF hit THEN Pick(@, ocr[d].seen, "in_treatment") ELSE @]
      BY <2>2 DEF OcrFinish
    <3> DEFINE st == IF hit THEN Pick(row[d].status, ocr[d].seen, "in_treatment")
                            ELSE row[d].status
    <3>2. st \in {row[d].status, "in_treatment"}
      BY DEF Pick
    <3>3. row' = [row EXCEPT ![d] = [@ EXCEPT !.status = st]]
      BY <3>1
    <3>4. /\ ocr' = [ocr EXCEPT ![d] = Ended("done")]
          /\ UNCHANGED <<table, trail, session>>
      BY <2>2 DEF OcrFinish
    <3> HIDE DEF st
    <3>5. ArchivedHasDate'
      BY <3>2, <3>3 DEF TypeOK, Row, ArchivedHasDate
    <3>6. HistoryExplainsStatus'
      BY <3>2, <3>3, <3>4 DEF TypeOK, Row, Ended, HistoryExplainsStatus, Routed, Present
    <3> QED  BY <3>5, <3>6
  <2>3. CASE OcrFail(d)
    BY <2>3 DEF TypeOK, OcrFail, Retried, Ended, ArchivedHasDate, HistoryExplainsStatus,
                Routed, Present
  <2>4. CASE OcrLost(d)
    BY <2>4 DEF TypeOK, OcrLost, Ended, ArchivedHasDate, HistoryExplainsStatus, Routed, Present
  <2> QED  BY <1>8, <2>1, <2>2, <2>3, <2>4 DEF OcrTask
<1>9. ASSUME UNCHANGED vars
      PROVE  ArchivedHasDate' /\ HistoryExplainsStatus'
  BY <1>9 DEF vars, ArchivedHasDate, HistoryExplainsStatus, Routed, Present
<1> QED
  BY <1>1, <1>2, <1>3, <1>4, <1>5, <1>6, <1>7, <1>8, <1>9 DEF Next, Handler

LEMMA SafeInit == Init => Safe
BY TypeInit DEF Init, Safe, ArchivedHasDate, HistoryExplainsStatus, Blank, NewRow, Present

LEMMA SafeAlways == Spec => []Safe
<1>1. Safe /\ [Next]_vars => Safe'
  BY TypeStep, SafeStep DEF Safe
<1> QED  BY SafeInit, <1>1, PTL DEF Spec

(***************************************************************************)
(* No interleaving of handlers and OCR leaves an archived document without *)
(* its date.                                                               *)
(***************************************************************************)
THEOREM ArchivedAlwaysDated == Spec => []ArchivedHasDate
<1>1. Safe => ArchivedHasDate
  BY DEF Safe
<1> QED  BY SafeAlways, <1>1, PTL

(***************************************************************************)
(* No interleaving shows a status that neither the last transition on      *)
(* record nor OCR routing has written.                                     *)
(***************************************************************************)
THEOREM HistoryAlwaysExplains == Spec => []HistoryExplainsStatus
<1>1. Safe => HistoryExplainsStatus
  BY DEF Safe
<1> QED  BY SafeAlways, <1>1, PTL

-----------------------------------------------------------------------------
(***************************************************************************)
(* With one session, and no routing by OCR, the handlers of MailWorkflow   *)
(* implement MailLifecycle: nothing comes between a SELECT and its commit, *)
(* so what a session has seen is what it overwrites.                       *)
(***************************************************************************)

\* One uvicorn process, and documents whose text names no routing rule.
Serial ==
  /\ \A s, t \in Sessions : s = t
  /\ KeywordHits \subseteq {FALSE}

\* A session that serves a request has seen the row as it is now.
SeenIsCurrent ==
  \A s \in Sessions : Busy(s) =>
    /\ Present(session[s].doc)
    /\ session[s].seen = row[session[s].doc]

\* Nothing is left of a document that is not in the table.
NothingLeft ==
  \A d \in Docs : ~Present(d) => row[d] = Blank /\ trail[d] = NewTrail

SerialInv ==
  /\ TypeOK
  /\ SeenIsCurrent
  /\ NothingLeft
  /\ ArchivedIffDated
  /\ LinkedHistory

Views == [d \in Docs |-> View(d)]

\* What is seen of a document in the table, and when a row and a history agree.
Shown(r, t) ==
  [place |-> "present", status |-> r.status, direction |-> r.direction,
   recorded |-> t.last, dated |-> r.dated]

Agree(r, t) ==
  /\ r.dated <=> r.status = "archived"
  /\ t.linked
  /\ t.last = r.status

(***************************************************************************)
(* A flush over the row that was read writes the row that was meant.       *)
(***************************************************************************)
LEMMA FlushCurrent ==
  ASSUME NEW cur \in Row, NEW new \in Row
  PROVE  Flush(cur, cur, new) = new
<1>1. /\ Pick(cur.status, cur.status, new.status) = new.status
      /\ Pick(cur.direction, cur.direction, new.direction) = new.direction
      /\ Pick(cur.assignee, cur.assignee, new.assignee) = new.assignee
      /\ Pick(cur.dated, cur.dated, new.dated) = new.dated
  BY DEF Pick
<1> QED  BY <1>1 DEF Flush, Row

(***************************************************************************)
(* The engine's move of a row that has not changed since it was read.      *)
(***************************************************************************)
LEMMA MovedCurrent ==
  ASSUME NEW cur \in Row, NEW who \in Users \cup {NoUser},
         NEW e, e.to \in Status, e.to # cur.status,
         cur.dated <=> cur.status = "archived"
  PROVE  LET r == Moved(cur, cur, e, who) IN
         /\ r \in Row
         /\ r.status = e.to
         /\ r.direction = cur.direction
         /\ r.dated = (e.to = "archived")
<1> DEFINE new == [cur EXCEPT
                     !.status = e.to,
                     !.assignee = IF who = NoUser THEN @ ELSE who,
                     !.dated = IF e.to = "archived" THEN TRUE
                               ELSE IF cur.status = "archived" THEN FALSE ELSE @]
<1> DEFINE flushed == Flush(cur, cur, new)
<1>1. new \in Row /\ new.status = e.to /\ new.direction = cur.direction
  BY DEF Row
<1>2. new.dated = (e.to = "archived")
  <2>1. cur.dated \in BOOLEAN
    BY DEF Row
  <2> QED  BY <2>1 DEF Row
<1>3. Moved(cur, cur, e, who)
        = [flushed EXCEPT !.dated = IF e.to = "archived" THEN TRUE ELSE @]
  BY DEF Moved
<1> HIDE DEF new
<1>4. /\ flushed \in Row
      /\ flushed.status = new.status
      /\ flushed.direction = new.direction
      /\ flushed.dated = new.dated
  BY <1>1, FlushType DEF Flush, Pick
<1> HIDE DEF flushed
<1>5. [flushed EXCEPT !.dated = IF e.to = "archived" THEN TRUE ELSE @].dated
        = (e.to = "archived")
  BY <1>2, <1>4 DEF Row
<1> QED  BY <1>1, <1>3, <1>4, <1>5 DEF Row

(***************************************************************************)
(* What is seen of a document in the table, whose row and history agree.   *)
(***************************************************************************)
LEMMA PresentView ==
  ASSUME SerialInv, NEW d \in Docs, Present(d)
  PROVE  /\ row[d] \in Row /\ trail[d] \in Trail
         /\ Agree(row[d], trail[d])
         /\ Views[d] = Shown(row[d], trail[d])
BY DEF SerialInv, TypeOK, ArchivedIffDated, LinkedHistory, Agree, Views, View, Shown,
       Present

(***************************************************************************)
(* A commit of the only session, seen from the outside.                    *)
(***************************************************************************)
LEMMA CommitSerial ==
  ASSUME SerialInv, Serial, NEW s \in Sessions, Busy(s),
         NEW r \in Row, NEW t \in Trail, Commit(s, r, t),
         Agree(r, t)
  PROVE  /\ SerialInv'
         /\ Views' = [Views EXCEPT ![session[s].doc] = Shown(r, t)]
<1> DEFINE d == session[s].doc
<1>1. d \in Docs /\ Present(d)
  BY DEF SerialInv, SeenIsCurrent, TypeOK, Busy
<1>2. /\ session' = [session EXCEPT ![s] = Idle]
      /\ row' = [row EXCEPT ![d] = r]
      /\ trail' = [trail EXCEPT ![d] = t]
      /\ UNCHANGED <<table, ocr>>
  BY <1>1 DEF Commit
<1>3. TypeOK'
  BY CommitType DEF SerialInv
<1>4. SeenIsCurrent'
  BY <1>2 DEF SeenIsCurrent, Serial, SerialInv, TypeOK, Busy, Idle
<1>5. NothingLeft'
  BY <1>1, <1>2 DEF NothingLeft, SerialInv, TypeOK, Present
<1>6. ArchivedIffDated'
  BY <1>1, <1>2 DEF ArchivedIffDated, SerialInv, TypeOK, Agree
<1>7. LinkedHistory'
  BY <1>1, <1>2 DEF LinkedHistory, SerialInv, TypeOK, Present, Agree
<1>8. Views' = [Views EXCEPT ![d] = Shown(r, t)]
  BY <1>1, <1>2 DEF Views, View, Shown, SerialInv, TypeOK, Present
<1> QED  BY <1>3, <1>4, <1>5, <1>6, <1>7, <1>8 DEF SerialInv

LEMMA ApplySerial ==
  ASSUME SerialInv, Serial, NEW s \in Sessions, Busy(s),
         NEW who \in Users \cup {NoUser},
         NEW e \in Edges(session[s].seen.direction, session[s].seen.status),
         Apply(s, e, who)
  PROVE  SerialInv' /\ Lifecycle!Move(session[s].doc)
<1> DEFINE d == session[s].doc
<1>1. d \in Docs /\ Present(d) /\ session[s].seen = row[d]
  BY DEF SerialInv, SeenIsCurrent, TypeOK, Busy
<1>2. /\ row[d] \in Row /\ trail[d] \in Trail
      /\ Agree(row[d], trail[d])
      /\ Views[d] = Shown(row[d], trail[d])
  BY <1>1, PresentView
<1>3. row[d].status \in Status /\ row[d].direction \in Direction
  BY <1>2 DEF Row
<1>4. e \in Edges(row[d].direction, row[d].status)
  BY <1>1
<1>5. e.to \in Status /\ e.to # row[d].status
  BY <1>3, <1>4, EdgeTarget
<1>6. PICK r \in Row : /\ r = Moved(row[d], row[d], e, who)
                       /\ r.status = e.to
                       /\ r.direction = row[d].direction
                       /\ r.dated = (e.to = "archived")
  BY <1>2, <1>5, MovedCurrent DEF Agree
<1>7. PICK t \in Trail : /\ t = Logged(trail[d], row[d].status, e.to, e.to)
                         /\ t.linked /\ t.last = e.to
  BY <1>2, <1>3, <1>5, LoggedType DEF Logged, Agree
<1>8. Commit(s, r, t)
  BY <1>1, <1>6, <1>7 DEF Apply
<1>9. Agree(r, t)
  BY <1>6, <1>7 DEF Agree
<1>10. SerialInv' /\ Views' = [Views EXCEPT ![d] = Shown(r, t)]
  BY <1>8, <1>9, CommitSerial
<1>11. Shown(r, t) = [Views[d] EXCEPT !.status = e.to, !.recorded = e.to,
                                      !.dated = e.to = "archived"]
  <2>1. Shown(r, t) = [Shown(row[d], trail[d]) EXCEPT
                         !.status = e.to, !.recorded = e.to, !.dated = r.dated]
    <3> DEFINE Kind == [place : {"present"}, status : Status, direction : Direction,
                        recorded : Status, dated : BOOLEAN]
    <3> DEFINE v == Shown(row[d], trail[d])
    <3>1. v \in Kind
      BY <1>2 DEF Shown, Row, Trail
    <3>2. v.place = "present" /\ v.direction = row[d].direction
      BY DEF Shown
    <3> HIDE DEF v
    <3> DEFINE w == [v EXCEPT !.status = e.to, !.recorded = e.to, !.dated = r.dated]
    <3>3. /\ w \in Kind
          /\ w.place = "present" /\ w.direction = row[d].direction
          /\ w.status = e.to /\ w.recorded = e.to /\ w.dated = r.dated
      BY <1>5, <3>1, <3>2 DEF Row
    <3> HIDE DEF w
    <3>4. Shown(r, t) = w
      BY <1>6, <1>7, <3>3 DEF Shown
    <3> QED  BY <3>4 DEF v, w
  <2> DEFINE archived == e.to = "archived"
  <2>2. r.dated = archived
    BY <1>6
  <2> HIDE DEF archived
  <2>3. Shown(r, t) = [Views[d] EXCEPT !.status = e.to, !.recorded = e.to,
                                       !.dated = archived]
    BY <1>2, <2>1, <2>2
  <2> QED  BY <2>3 DEF archived
<1>12. Views[d].place = "present" /\ e \in Edges(Views[d].direction, Views[d].status)
  BY <1>2, <1>4 DEF Shown
<1>13. Lifecycle!Move(d)
  BY <1>10, <1>11, <1>12 DEF Lifecycle!Move, Views
<1> QED  BY <1>10, <1>13

(***************************************************************************)
(* Every step of the handlers is a step of MailLifecycle, or none.         *)
(***************************************************************************)
LEMMA SerialStep ==
  ASSUME SerialInv, Serial, [Next]_vars
  PROVE  SerialInv' /\ [Lifecycle!Next]_Views
<1> DEFINE Goal == SerialInv' /\ [Lifecycle!Next]_Views
<1>0. TypeOK'
  BY TypeStep DEF SerialInv
<1>a. ASSUME UNCHANGED <<table, row, trail>>,
             SeenIsCurrent'
      PROVE  Goal
  <2>1. Views' = Views
    BY <1>a DEF Views, View
  <2>2. NothingLeft' /\ ArchivedIffDated' /\ LinkedHistory'
    BY <1>a DEF SerialInv, NothingLeft, ArchivedIffDated, LinkedHistory, Present
  <2> QED  BY <1>0, <1>a, <2>1, <2>2 DEF SerialInv
<1>1. ASSUME NEW s \in Sessions, NEW d \in Docs, Open(s, d)
      PROVE  Goal
  <2>1. SeenIsCurrent'
    BY <1>1 DEF Open, SeenIsCurrent, Serial, SerialInv, TypeOK, Busy, Present
  <2> QED  BY <1>a, <1>1, <2>1 DEF Open
<1>2. ASSUME NEW s \in Sessions, Refuse(s)
      PROVE  Goal
  <2>1. SeenIsCurrent'
    BY <1>2 DEF Refuse, SeenIsCurrent, Serial, SerialInv, TypeOK, Busy, Idle
  <2> QED  BY <1>a, <1>2, <2>1 DEF Refuse
<1>3. ASSUME NEW s \in Sessions, NEW who \in Users \cup {NoUser}, Transition(s, who)
      PROVE  Goal
  <2>1. session[s].doc \in Docs
    BY <1>3 DEF Transition, Busy, SerialInv, TypeOK
  <2>2. SerialInv' /\ Lifecycle!Move(session[s].doc)
    BY <1>3, ApplySerial DEF Transition
  <2> QED  BY <2>1, <2>2 DEF Lifecycle!Next
<1>4. ASSUME NEW s \in Sessions, NEW who \in Users, Assign(s, who)
      PROVE  Goal
  <2> DEFINE d == session[s].doc
  <2>1. Busy(s) /\ d \in Docs /\ Present(d) /\ session[s].seen = row[d]
    BY <1>4 DEF Assign, SerialInv, SeenIsCurrent, TypeOK, Busy
  <2>2. /\ row[d] \in Row /\ trail[d] \in Trail
        /\ Agree(row[d], trail[d])
        /\ Views[d] = Shown(row[d], trail[d])
    BY <2>1, PresentView
  <2>3. ASSUME NEW e \in Edges(session[s].seen.direction, session[s].seen.status),
               Apply(s, e, who)
        PROVE  Goal
    <3>1. SerialInv' /\ Lifecycle!Move(d)
      BY <2>1, <2>3, ApplySerial
    <3> QED  BY <2>1, <3>1 DEF Lifecycle!Next
  <2>4. CASE Commit(s, Flush(row[d], row[d], [row[d] EXCEPT !.assignee = who]),
                    Logged(trail[d], row[d].status, row[d].status, trail[d].moved))
    <3>0. [row[d] EXCEPT !.assignee = who] \in Row
      BY <2>2 DEF Row
    <3>1. PICK r \in Row : /\ r = Flush(row[d], row[d], [row[d] EXCEPT !.assignee = who])
                           /\ r.status = row[d].status
                           /\ r.direction = row[d].direction
                           /\ r.dated = row[d].dated
      BY <2>2, <3>0, FlushCurrent DEF Row
    <3>2. PICK t \in Trail :
            /\ t = Logged(trail[d], row[d].status, row[d].status, trail[d].moved)
            /\ t.linked /\ t.last = row[d].status
      BY <2>2, LoggedType DEF Logged, Agree, Row, Trail
    <3>3. Agree(r, t) /\ Shown(r, t) = Views[d]
      BY <2>2, <3>1, <3>2 DEF Agree, Shown
    <3>c. Commit(s, r, t)
      BY <2>4, <3>1, <3>2
    <3>4. SerialInv' /\ Views' = [Views EXCEPT ![d] = Shown(r, t)]
      BY <2>1, <3>c, <3>3, CommitSerial
    <3>5. Views' = Views
      BY <2>1, <3>3, <3>4 DEF Views
    <3> QED  BY <3>4, <3>5
  <2> QED  BY <1>4, <2>1, <2>3, <2>4 DEF Assign
<1>5. ASSUME NEW s \in Sessions, NEW dir \in Direction,
             NEW who \in Users \cup {NoUser}, Update(s, dir, who)
      PROVE  Goal
  <2> DEFINE d == session[s].doc
  <2>1. Busy(s) /\ d \in Docs /\ Present(d) /\ session[s].seen = row[d]
    BY <1>5 DEF Update, SerialInv, SeenIsCurrent, TypeOK, Busy
  <2>2. /\ row[d] \in Row /\ trail[d] \in Trail
        /\ Agree(row[d], trail[d])
        /\ Views[d] = Shown(row[d], trail[d])
    BY <2>1, PresentView
  <2>a. [row[d] EXCEPT !.direction = dir, !.assignee = who] \in Row
    BY <2>2 DEF Row
  <2>3. PICK r \in Row :
          /\ r = Flush(row[d], row[d], [row[d] EXCEPT !.direction = dir, !.assignee = who])
          /\ r.status = row[d].status
          /\ r.direction = dir
          /\ r.dated = row[d].dated
    BY <2>2, <2>a, FlushCurrent DEF Row
  <2>4. Commit(s, r, trail[d])
    BY <1>5, <2>1, <2>3 DEF Update
  <2>5. Agree(r, trail[d])
    BY <2>2, <2>3 DEF Agree
  <2>6. SerialInv' /\ Views' = [Views EXCEPT ![d] = Shown(r, trail[d])]
    BY <2>1, <2>2, <2>4, <2>5, CommitSerial
  <2>7. Shown(r, trail[d]) = [Views[d] EXCEPT !.direction = dir]
    BY <2>2, <2>3 DEF Shown
  <2>8. Views[d].place = "present"
    BY <2>2 DEF Shown
  <2>9. Lifecycle!Redirect(d)
    BY <2>6, <2>7, <2>8 DEF Lifecycle!Redirect, Views
  <2> QED  BY <2>1, <2>6, <2>9 DEF Lifecycle!Next
<1>6. ASSUME NEW s \in Sessions, Purge(s)
      PROVE  Goal
  <2> DEFINE d == session[s].doc
  <2>1. d \in Docs /\ Present(d)
    BY <1>6 DEF Purge, SerialInv, TypeOK, Busy
  <2>2. /\ table' = [table EXCEPT ![d] = "purged"]
        /\ row' = [row EXCEPT ![d] = Blank]
        /\ trail' = [trail EXCEPT ![d] = NewTrail]
        /\ session' = [session EXCEPT ![s] = Idle]
    BY <1>6 DEF Purge
  <2>3. SeenIsCurrent'
    BY <2>2 DEF SeenIsCurrent, Serial, SerialInv, TypeOK, Busy, Idle
  <2>4. NothingLeft' /\ ArchivedIffDated' /\ LinkedHistory'
    BY <2>1, <2>2 DEF NothingLeft, ArchivedIffDated, LinkedHistory, SerialInv, TypeOK,
                      Present, Blank, NewRow
  <2>5. Views' = [Views EXCEPT ![d] = Lifecycle!Removed]
    BY <2>1, <2>2 DEF SerialInv, TypeOK, Views, View, Lifecycle!Removed,
                      Lifecycle!Document, Blank, NewRow, NewTrail
  <2>6. Views[d].place = "present"
    BY <2>1 DEF Views, View, Present
  <2>7. Lifecycle!Remove(d)
    BY <2>5, <2>6 DEF Lifecycle!Remove, Views
  <2> QED  BY <1>0, <2>1, <2>3, <2>4, <2>7 DEF Lifecycle!Next, SerialInv
<1>7. ASSUME NEW d \in Docs, NEW dir \in Direction, Upload(d, dir)
      PROVE  Goal
  <2>1. /\ table[d] = "absent"
        /\ table' = [table EXCEPT ![d] = "present"]
        /\ row' = [row EXCEPT ![d] = NewRow(dir)]
        /\ trail' = [trail EXCEPT ![d] = NewTrail]
        /\ UNCHANGED session
    BY <1>7 DEF Upload
  <2>2. SeenIsCurrent'
    BY <2>1 DEF SeenIsCurrent, SerialInv, TypeOK, Busy, Present
  <2>3. NothingLeft' /\ ArchivedIffDated' /\ LinkedHistory'
    BY <2>1 DEF NothingLeft, ArchivedIffDated, LinkedHistory, SerialInv, TypeOK,
                Present, NewRow, NewTrail
  <2>4. Views' = [Views EXCEPT ![d] = Lifecycle!Document("present", dir)]
    BY <2>1 DEF SerialInv, TypeOK, Views, View, Lifecycle!Document, NewRow, NewTrail
  <2>5. row[d] = Blank /\ trail[d] = NewTrail
    BY <2>1 DEF SerialInv, NothingLeft, Present
  <2>6. Views[d] = Lifecycle!Absent
    <3>1. Views[d] = [place |-> "absent", status |-> Blank.status,
                      direction |-> Blank.direction, recorded |-> NewTrail.last,
                      dated |-> Blank.dated]
      BY <2>1, <2>5 DEF Views, View
    <3> QED  BY <3>1 DEF Lifecycle!Absent, Lifecycle!Document, Blank, NewRow, NewTrail
  <2>7. Lifecycle!Register(d)
    BY <2>4, <2>6 DEF Lifecycle!Register, Views
  <2> QED  BY <1>0, <2>2, <2>3, <2>7 DEF Lifecycle!Next, SerialInv
<1>8. ASSUME NEW d \in Docs, OcrTask(d)
      PROVE  Goal
  <2>1. UNCHANGED <<table, row, trail, session>>
    <3>1. CASE OcrFinish(d)
      <4>1. PICK hit \in KeywordHits :
              row' = [row EXCEPT ![d].status =
                        IF hit THEN Pick(@, ocr[d].seen, "in_treatment") ELSE @]
        BY <3>1 DEF OcrFinish
      <4>2. hit = FALSE
        BY <4>1 DEF Serial
      <4>3. row' = [row EXCEPT ![d] = [@ EXCEPT !.status = row[d].status]]
        BY <4>1, <4>2
      <4>4. row' = row
        BY <4>3 DEF SerialInv, TypeOK, Row
      <4> QED  BY <3>1, <4>4 DEF OcrFinish
    <3> QED  BY <1>8, <3>1 DEF OcrTask, OcrStart, OcrFail, OcrLost
  <2>2. SeenIsCurrent'
    BY <2>1 DEF SerialInv, SeenIsCurrent, Busy, Present
  <2> QED  BY <1>a, <2>1, <2>2
<1>9. ASSUME UNCHANGED vars
      PROVE  Goal
  BY <1>a, <1>9 DEF vars, SerialInv, SeenIsCurrent, Busy, Present
<1> QED
  BY <1>1, <1>2, <1>3, <1>4, <1>5, <1>6, <1>7, <1>8, <1>9 DEF Next, Handler

LEMMA SerialInit == Init => SerialInv /\ Lifecycle!Init
<1> SUFFICES ASSUME Init PROVE SerialInv /\ Lifecycle!Init
  OBVIOUS
<1>1. TypeOK
  BY TypeInit
<1>2. SeenIsCurrent /\ NothingLeft /\ ArchivedIffDated /\ LinkedHistory
  BY DEF Init, SeenIsCurrent, NothingLeft, ArchivedIffDated, LinkedHistory, Busy, Idle,
         Present, Blank, NewRow
<1>3. Lifecycle!Init
  BY DEF Init, Lifecycle!Init, View, Lifecycle!Absent, Lifecycle!Document, Blank, NewRow,
         NewTrail
<1> QED  BY <1>1, <1>2, <1>3 DEF SerialInv

(***************************************************************************)
(* One session and no routing: the handlers implement MailLifecycle, for   *)
(* any documents, users and stored definitions.                            *)
(***************************************************************************)
THEOREM SerialImplementsLifecycle ==
  ASSUME Serial
  PROVE  Spec => ImplementsLifecycle
<1>1. SerialInv /\ [Next]_vars => SerialInv' /\ [Lifecycle!Next]_Views
  BY SerialStep
<1>2. Init => SerialInv /\ Lifecycle!Init
  BY SerialInit
<1> QED
  BY <1>1, <1>2, PTL DEF Spec, ImplementsLifecycle, Lifecycle!Spec, Views

(***************************************************************************)
(* Then the history is unbroken and ends at the current status.            *)
(***************************************************************************)
THEOREM SerialHistoryLinked ==
  ASSUME Serial
  PROVE  Spec => []LinkedHistory
<1>1. SerialInv /\ [Next]_vars => SerialInv'
  BY SerialStep
<1>2. SerialInv => LinkedHistory
  BY DEF SerialInv
<1> QED  BY <1>1, <1>2, SerialInit, PTL DEF Spec

(***************************************************************************)
(* Then a document has an archiving date exactly while it is archived.     *)
(***************************************************************************)
THEOREM SerialArchivedIffDated ==
  ASSUME Serial
  PROVE  Spec => []ArchivedIffDated
<1>1. SerialInv /\ [Next]_vars => SerialInv'
  BY SerialStep
<1>2. SerialInv => ArchivedIffDated
  BY DEF SerialInv
<1> QED  BY <1>1, <1>2, SerialInit, PTL DEF Spec

(***************************************************************************)
(* A step of MailLifecycle that changes the status of a document which is  *)
(* there before and after takes an edge: only Move does that.              *)
(***************************************************************************)
LEMMA MoveAlongEdge ==
  ASSUME TypeOK, TypeOK', [Lifecycle!Next]_Views, NEW d \in Docs, Moves(d)
  PROVE  \E e \in Edges(row[d].direction, row[d].status) : e.to = row'[d].status
<1>1. /\ Views[d] = View(d) /\ Views'[d] = View(d)'
      /\ View(d).place = "present" /\ View(d)'.place = "present"
      /\ View(d).status = row[d].status /\ View(d)'.status = row'[d].status
      /\ View(d).direction = row[d].direction
      /\ row'[d].status # row[d].status
  BY DEF Views, View, Moves, Present
<1>2. Views \in [Docs -> {View(e) : e \in Docs}]
  BY DEF Views
<1>3. PICK c \in Docs : \/ Lifecycle!Register(c) \/ Lifecycle!Move(c)
                        \/ Lifecycle!Redirect(c) \/ Lifecycle!Remove(c)
  <2>1. Views' # Views
    BY <1>1
  <2> QED  BY <2>1 DEF Lifecycle!Next
<1>4. \A new : Views' = [Views EXCEPT ![c] = new] => c = d /\ View(d)' = new
  BY <1>1, <1>2
<1>5. ~Lifecycle!Register(c)
  <2>1. ASSUME NEW new, Views' = [Views EXCEPT ![c] = new], Views[c].place = "absent"
        PROVE  FALSE
    BY <1>1, <1>4, <2>1
  <2>2. Lifecycle!Absent.place = "absent"
    BY DEF Lifecycle!Absent, Lifecycle!Document
  <2> QED  BY <2>1, <2>2 DEF Lifecycle!Register, Views
<1>6. ~Lifecycle!Redirect(c)
  <2>1. ASSUME NEW dir \in Direction, Views' = [Views EXCEPT ![c] = [Views[c] EXCEPT !.direction = dir]]
        PROVE  FALSE
    BY <1>1, <1>4, <2>1 DEF View
  <2> QED  BY <1>2, <2>1 DEF Lifecycle!Redirect, Views
<1>7. ~Lifecycle!Remove(c)
  BY <1>1, <1>4 DEF Lifecycle!Remove, Lifecycle!Removed, Lifecycle!Document, Views
<1>8. PICK e \in Edges(Views[c].direction, Views[c].status) :
        Views' = [Views EXCEPT ![c] = [Views[c] EXCEPT !.status = e.to, !.recorded = e.to,
                                                       !.dated = e.to = "archived"]]
  BY <1>3, <1>5, <1>6, <1>7 DEF Lifecycle!Move, Views
<1>9. c = d /\ View(d)' = [Views[c] EXCEPT !.status = e.to, !.recorded = e.to,
                                        !.dated = e.to = "archived"]
  BY <1>4, <1>8
<1>10. View(d)'.status = e.to
  BY <1>1, <1>9 DEF View
<1> QED  BY <1>1, <1>9, <1>10

(***************************************************************************)
(* One session and no routing: a status changes along an edge that the     *)
(* engine offers for it, and for no other reason.  What SELECT, decision   *)
(* and commit do to the status is a move of MailLifecycle, whose other     *)
(* steps leave it alone.                                                   *)
(***************************************************************************)
THEOREM SerialStatusMoves ==
  ASSUME Serial
  PROVE  Spec => StatusMovesAlongEdges
<1>1. SerialInv /\ [Next]_vars => SerialInv' /\ [Lifecycle!Next]_Views
  BY SerialStep
<1>2. SerialInv /\ SerialInv' /\ [Lifecycle!Next]_Views =>
        \A d \in Docs : Moves(d) =>
          \E e \in Edges(row[d].direction, row[d].status) : e.to = row'[d].status
  BY MoveAlongEdge DEF SerialInv
<1> QED  BY <1>1, <1>2, SerialInit, PTL DEF Spec, StatusMovesAlongEdges
=============================================================================
