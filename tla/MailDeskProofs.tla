--------------------------- MODULE MailDeskProofs ---------------------------
(***************************************************************************)
(* Who can bring a document where, for histories of any length: the runs   *)
(* of MailDesk are finite, so what is added to TLC's verdict is the        *)
(* argument.  All of it rests on the table of edges being the same with    *)
(* and without the definitions of the migrations.                          *)
(***************************************************************************)
EXTENDS MailDesk, TLAPS

-----------------------------------------------------------------------------
(* The tables *)

EdgesFrom(d, s) == {e \in FallbackEdges[d] : e.from = s}

LEMMA SeedIsFallback ==
  ASSUME NEW d \in Direction
  PROVE  StoredEdges[d] = FallbackEdges[d]
<1>1. CASE d = "inbound"
  <2>1. StoredEdges[d] = AddPendingDirector(AddClosed(SeededEdges.inbound))
    BY <1>1 DEF StoredEdges, SeededEdges
  <2>2. AddClosed(SeededEdges.inbound) =
          {Edge("received", "index_document", "indexed"),
           Edge("indexed", "assign", "assigned"),
           Edge("assigned", "start_treatment", "in_treatment"),
           Edge("in_treatment", "submit_validation", "pending_validation"),
           Edge("in_treatment", "hold", "on_hold"),
           Edge("on_hold", "resume", "in_treatment"),
           Edge("pending_validation", "approve", "approved"),
           Edge("pending_validation", "reject", "rejected"),
           Edge("pending_validation", "request_changes", "in_treatment"),
           Edge("rejected", "archive", "archived"),
           Edge("approved", "close", "closed"),
           Edge("closed", "archive", "archived"),
           Edge("archived", "restore", "closed")}
    BY DEF AddClosed, SeededEdges, Edge
  <2> QED  BY <1>1, <2>1, <2>2 DEF AddPendingDirector, FallbackEdges, Edge
<1>2. CASE d = "outbound"
  BY <1>2 DEF StoredEdges, SeededEdges, FallbackEdges
<1>3. CASE d = "internal"
  BY <1>3 DEF StoredEdges, SeededEdges, FallbackEdges
<1> QED  BY <1>1, <1>2, <1>3 DEF Direction

\* Each edge has a target of its own, and the action list knows it.
LEMMA FallbackListed ==
  ASSUME NEW d \in Direction, NEW e \in FallbackEdges[d]
  PROVE  /\ e.from \in Status /\ e.to \in Status
         /\ <<e.action, e.to>> \in FallbackActions[d]
<1>1. CASE d = "inbound"
  BY <1>1 DEF FallbackEdges, FallbackActions, Edge, Status
<1>2. CASE d = "outbound"
  BY <1>2 DEF FallbackEdges, FallbackActions, Edge, Status
<1>3. CASE d = "internal"
  BY <1>3 DEF FallbackEdges, FallbackActions, Edge, Status
<1> QED  BY <1>1, <1>2, <1>3 DEF Direction

(***************************************************************************)
(* What the engine offers is the edges of the table, whether they come     *)
(* from the stored definition or from the code.                            *)
(***************************************************************************)
LEMMA EngineOffers ==
  ASSUME NEW d \in Direction, NEW s \in Status
  PROVE  /\ Transitions(StoredEdges[d], d, s) = EdgesFrom(d, s)
         /\ Transitions({}, d, s) = EdgesFrom(d, s)
<1>1. FromDefinition(StoredEdges[d], s) = EdgesFrom(d, s)
  BY SeedIsFallback, FallbackListed DEF FromDefinition, EdgesFrom
<1>2. FromFallback(d, s) = EdgesFrom(d, s)
  BY FallbackListed DEF FromFallback, EdgesFrom
<1>3. FromDefinition({}, s) = {}
  BY DEF FromDefinition
<1> QED  BY <1>1, <1>2, <1>3 DEF Transitions

LEMMA DeskOffers ==
  ASSUME TypeOK
  PROVE  Transitions(Definition(direction), direction, status) = EdgesFrom(direction, status)
BY EngineOffers DEF TypeOK, Definition

\* The ways into a decided status: a decision, or another decided status.
Decided == {"approved", "rejected", "closed", "archived"}

LEMMA WaysToDecided ==
  ASSUME NEW d \in Direction, NEW e \in FallbackEdges[d], e.to \in Decided
  PROVE  e.action \in {"approve", "reject"} \/ e.from \in Decided
<1>1. CASE d = "inbound"
  BY <1>1 DEF FallbackEdges, Edge, Decided
<1>2. CASE d = "outbound"
  BY <1>2 DEF FallbackEdges, Edge, Decided
<1>3. CASE d = "internal"
  BY <1>3 DEF FallbackEdges, Edge, Decided
<1> QED  BY <1>1, <1>2, <1>3 DEF Direction

-----------------------------------------------------------------------------
(* The roles *)

LEMMA RolesAre ==
  Roles = {"master", "director", "admin", "secretary", "analyst", "receptionist",
           "archivist", "guest"}
BY DEF Roles, DefaultRole

LEMMA DeciderIsHierarchy ==
  ASSUME NEW role \in Roles, NEW action \in {"approve", "reject"}, UserMay(role, action)
  PROVE  role \in Hierarchy
BY RolesAre DEF UserMay, DefaultRole, PermissionOf, Hierarchy

LEMMA ClerkForEach ==
  ASSUME NEW d \in Direction, NEW e \in FallbackEdges[d], e.action \notin Decisions
  PROVE  \E role \in Roles \ Hierarchy : UserMay(role, e.action)
<1>1. e.action \in {"index_document", "assign", "start_treatment", "submit_to_director",
                    "submit_validation", "hold", "resume", "request_changes", "close",
                    "archive", "restore"}
  <2>1. CASE d = "inbound"
    BY <2>1 DEF FallbackEdges, Edge, Decisions
  <2>2. CASE d = "outbound"
    BY <2>2 DEF FallbackEdges, Edge, Decisions
  <2>3. CASE d = "internal"
    BY <2>3 DEF FallbackEdges, Edge, Decisions
  <2> QED  BY <2>1, <2>2, <2>3 DEF Direction
<1>2. {"secretary", "analyst", "archivist"} \subseteq Roles \ Hierarchy
  BY RolesAre DEF Hierarchy
<1>3. CASE e.action \in {"index_document", "assign", "start_treatment", "hold", "resume",
                         "request_changes", "close"}
  <2>1. UserMay("secretary", e.action)
    BY <1>3 DEF UserMay, DefaultRole, PermissionOf
  <2> QED  BY <1>2, <2>1
<1>4. CASE e.action \in {"submit_to_director", "submit_validation"}
  <2>1. UserMay("analyst", e.action)
    BY <1>4 DEF UserMay, DefaultRole, PermissionOf
  <2> QED  BY <1>2, <2>1
<1>5. CASE e.action \in {"archive", "restore"}
  <2>1. UserMay("archivist", e.action)
    BY <1>5 DEF UserMay, DefaultRole, PermissionOf
  <2> QED  BY <1>2, <2>1
<1> QED  BY <1>1, <1>3, <1>4, <1>5

-----------------------------------------------------------------------------
(* The ways to archived *)

LEMMA EdgesLeadBack ==
  ASSUME NEW b \in BOOLEAN, NEW d \in Direction, NEW S
  PROVE  /\ S \subseteq Within1(b, d, S)
         /\ \A e \in FallbackEdges[d] : e.to \in S => e.from \in Within1(b, d, S)
<1>1. S \subseteq Within1(b, d, S)
  BY DEF Within1
<1>2. ASSUME NEW e \in FallbackEdges[d], e.to \in S
      PROVE  e.from \in Within1(b, d, S)
  <2>1. e.from \in Status
    BY FallbackListed
  <2>2. e \in Transitions(Table(b, d), d, e.from)
    BY <2>1, EngineOffers DEF Table, EdgesFrom
  <2> QED  BY <1>2, <2>1, <2>2 DEF Within1
<1> QED  BY <1>1, <1>2

LEMMA WithinGrows ==
  ASSUME NEW b \in BOOLEAN, NEW d \in Direction, NEW S
  PROVE  S \subseteq Within4(b, d, S)
BY EdgesLeadBack DEF Within4, Within2

\* Where a document may be that keeps its direction.
OnPath(d) ==
  CASE d = "inbound"  -> Status
    [] d = "outbound" -> {"received", "in_treatment", "pending_validation", "approved",
                          "archived"}
    [] d = "internal" -> {"received", "assigned", "in_treatment", "approved", "archived"}

LEMMA PathsLeadToArchive ==
  ASSUME NEW b \in BOOLEAN, NEW d \in Direction
  PROVE  OnPath(d) \subseteq BroughtToArchive(b, d)
<1> DEFINE S0 == {"archived"}
           S1 == Within1(b, d, S0)
           S2 == Within1(b, d, S1)
           S3 == Within1(b, d, S2)
           S4 == Within1(b, d, S3)
           S5 == Within1(b, d, S4)
           S6 == Within1(b, d, S5)
           S7 == Within1(b, d, S6)
           S8 == Within1(b, d, S7)
<1>1. Within8(b, d, {"archived"}) = S8
  BY DEF Within8, Within4, Within2
<1>2. S8 \subseteq BroughtToArchive(b, d)
  BY <1>1, WithinGrows DEF BroughtToArchive
<1>3. /\ S0 \subseteq S1 /\ \A e \in FallbackEdges[d] : e.to \in S0 => e.from \in S1
      /\ S1 \subseteq S2 /\ \A e \in FallbackEdges[d] : e.to \in S1 => e.from \in S2
      /\ S2 \subseteq S3 /\ \A e \in FallbackEdges[d] : e.to \in S2 => e.from \in S3
      /\ S3 \subseteq S4 /\ \A e \in FallbackEdges[d] : e.to \in S3 => e.from \in S4
      /\ S4 \subseteq S5 /\ \A e \in FallbackEdges[d] : e.to \in S4 => e.from \in S5
      /\ S5 \subseteq S6 /\ \A e \in FallbackEdges[d] : e.to \in S5 => e.from \in S6
      /\ S6 \subseteq S7 /\ \A e \in FallbackEdges[d] : e.to \in S6 => e.from \in S7
      /\ S7 \subseteq S8 /\ \A e \in FallbackEdges[d] : e.to \in S7 => e.from \in S8
  <2> HIDE DEF S0
  <2> QED  BY EdgesLeadBack
<1>4. "archived" \in S0
  OBVIOUS
<1> HIDE DEF S0, S1, S2, S3, S4, S5, S6, S7, S8
<1>5. CASE d = "inbound"
  <2>1. {Edge("closed", "archive", "archived"), Edge("rejected", "archive", "archived"),
         Edge("approved", "close", "closed"),
         Edge("pending_validation", "approve", "approved"),
         Edge("pending_director", "director_forward_dg", "pending_validation"),
         Edge("in_treatment", "submit_to_director", "pending_director"),
         Edge("assigned", "start_treatment", "in_treatment"),
         Edge("on_hold", "resume", "in_treatment"), Edge("indexed", "assign", "assigned"),
         Edge("received", "index_document", "indexed")} \subseteq FallbackEdges[d]
    BY <1>5 DEF FallbackEdges
  <2>2. "closed" \in S1 /\ "rejected" \in S1
    BY <1>3, <1>4, <2>1 DEF Edge
  <2>3. "approved" \in S2
    BY <1>3, <2>1, <2>2 DEF Edge
  <2>4. "pending_validation" \in S3
    BY <1>3, <2>1, <2>3 DEF Edge
  <2>5. "pending_director" \in S4
    BY <1>3, <2>1, <2>4 DEF Edge
  <2>6. "in_treatment" \in S5
    BY <1>3, <2>1, <2>5 DEF Edge
  <2>7. "assigned" \in S6 /\ "on_hold" \in S6
    BY <1>3, <2>1, <2>6 DEF Edge
  <2>8. "indexed" \in S7
    BY <1>3, <2>1, <2>7 DEF Edge
  <2>9. "received" \in S8
    BY <1>3, <2>1, <2>8 DEF Edge
  <2>10. Status \subseteq S8
    BY <1>3, <1>4, <2>2, <2>3, <2>4, <2>5, <2>6, <2>7, <2>8, <2>9 DEF Status
  <2> QED  BY <1>2, <1>5, <2>10 DEF OnPath
<1>6. CASE d = "outbound"
  <2>1. FallbackEdges[d] = {Edge("received", "start_treatment", "in_treatment"),
                            Edge("in_treatment", "submit_validation", "pending_validation"),
                            Edge("pending_validation", "approve", "approved"),
                            Edge("approved", "archive", "archived")}
    BY <1>6 DEF FallbackEdges
  <2>2. "approved" \in S1
    BY <1>3, <1>4, <2>1 DEF Edge
  <2>3. "pending_validation" \in S2
    BY <1>3, <2>1, <2>2 DEF Edge
  <2>4. "in_treatment" \in S3
    BY <1>3, <2>1, <2>3 DEF Edge
  <2>5. "received" \in S4
    BY <1>3, <2>1, <2>4 DEF Edge
  <2> QED  BY <1>2, <1>3, <1>4, <1>6, <2>2, <2>3, <2>4, <2>5 DEF OnPath
<1>7. CASE d = "internal"
  <2>1. FallbackEdges[d] = {Edge("received", "assign", "assigned"),
                            Edge("assigned", "start_treatment", "in_treatment"),
                            Edge("in_treatment", "approve", "approved"),
                            Edge("approved", "archive", "archived")}
    BY <1>7 DEF FallbackEdges
  <2>2. "approved" \in S1
    BY <1>3, <1>4, <2>1 DEF Edge
  <2>3. "in_treatment" \in S2
    BY <1>3, <2>1, <2>2 DEF Edge
  <2>4. "assigned" \in S3
    BY <1>3, <2>1, <2>3 DEF Edge
  <2>5. "received" \in S4
    BY <1>3, <2>1, <2>4 DEF Edge
  <2> QED  BY <1>2, <1>3, <1>4, <1>7, <2>2, <2>3, <2>4, <2>5 DEF OnPath
<1> QED  BY <1>5, <1>6, <1>7 DEF Direction

-----------------------------------------------------------------------------
(* The specification *)

\* A document that keeps its direction keeps to the path.
KeepsToPath == ~redirected => status \in OnPath(direction)

IInv ==
  /\ TypeOK
  /\ OnlyHierarchyDecides
  /\ KeepsToPath

LEMMA PathContinues ==
  ASSUME NEW d \in Direction, NEW e \in FallbackEdges[d]
  PROVE  e.to \in OnPath(d)
<1>1. CASE d = "inbound"
  BY <1>1, FallbackListed DEF OnPath
<1>2. CASE d = "outbound"
  BY <1>2 DEF FallbackEdges, Edge, OnPath
<1>3. CASE d = "internal"
  BY <1>3 DEF FallbackEdges, Edge, OnPath
<1> QED  BY <1>1, <1>2, <1>3 DEF Direction

LEMMA PathBegins ==
  ASSUME NEW d \in Direction
  PROVE  {"received", "in_treatment"} \subseteq OnPath(d)
BY DEF Direction, OnPath, Status

LEMMA TakeKeeps ==
  ASSUME IInv, NEW role \in Roles, Take(role)
  PROVE  IInv'
<1>1. PICK e \in FallbackEdges[direction] :
        /\ e.from = status /\ status' = e.to
        /\ UserMay(role, e.action)
        /\ hands' = hands \cup {role} /\ last' = "transition"
        /\ UNCHANGED <<stored, direction, redirected, ocr>>
  BY DeskOffers DEF IInv, Take, Available, EdgesFrom
<1>2. direction \in Direction
  BY DEF IInv, TypeOK
<1>3. e.to \in Status /\ e.to \in OnPath(direction)
  BY <1>2, FallbackListed, PathContinues
<1>4. TypeOK'
  BY <1>1, <1>3 DEF IInv, TypeOK
<1>5. OnlyHierarchyDecides'
  <2> SUFFICES ASSUME e.to \in Decided PROVE hands' \cap Hierarchy # {}
    BY <1>1 DEF OnlyHierarchyDecides, Decided
  <2>1. CASE e.action \in {"approve", "reject"}
    BY <1>1, <2>1, DeciderIsHierarchy
  <2>2. CASE e.from \in Decided
    BY <1>1, <2>2 DEF IInv, OnlyHierarchyDecides, Decided
  <2> QED  BY <1>2, <2>1, <2>2, WaysToDecided
<1>6. KeepsToPath'
  BY <1>1, <1>3 DEF KeepsToPath
<1> QED  BY <1>4, <1>5, <1>6 DEF IInv

LEMMA IInvStep == IInv /\ [Next]_vars => IInv'
<1> SUFFICES ASSUME IInv, [Next]_vars PROVE IInv'
  OBVIOUS
<1>1. ASSUME NEW role \in Roles, Take(role) PROVE IInv'
  BY <1>1, TakeKeeps
<1>2. ASSUME NEW role \in Roles, Redirect(role) PROVE IInv'
  BY <1>2 DEF Redirect, IInv, TypeOK, OnlyHierarchyDecides, KeepsToPath
<1>3. ASSUME NEW role \in Roles, ExecutiveArchive(role) PROVE IInv'
  BY <1>3 DEF ExecutiveArchive, IInv, TypeOK, OnlyHierarchyDecides, KeepsToPath
<1>4. CASE AutoRoute
  <2>1. "in_treatment" \in Status /\ direction \in Direction
    BY DEF Status, IInv, TypeOK
  <2> QED
    BY <1>4, <2>1, PathBegins DEF AutoRoute, IInv, TypeOK, OnlyHierarchyDecides, KeepsToPath
<1>5. CASE UNCHANGED vars
  BY <1>5 DEF vars, IInv, TypeOK, OnlyHierarchyDecides, KeepsToPath
<1> QED  BY <1>1, <1>2, <1>3, <1>4, <1>5 DEF Next

LEMMA IInvAlways == Spec => []IInv
<1>1. Init => IInv
  BY PathBegins DEF Init, IInv, TypeOK, OnlyHierarchyDecides, KeepsToPath, Status
<1> QED  BY <1>1, IInvStep, PTL DEF Spec

(***************************************************************************)
(* The status of the document stays one of the eleven, and its direction   *)
(* one of the three.                                                       *)
(***************************************************************************)
THEOREM TypeCorrect == Spec => []TypeOK
<1>1. IInv => TypeOK
  BY DEF IInv
<1> QED  BY <1>1, IInvAlways, PTL

(***************************************************************************)
(* No chain of clerks, redirections and routing by OCR, however long,      *)
(* approves, rejects, closes or archives: the only ways into those         *)
(* statuses are a decision of the hierarchy, or one of them.               *)
(***************************************************************************)
THEOREM OnlyHierarchyEverDecides == Spec => []OnlyHierarchyDecides
<1>1. IInv => OnlyHierarchyDecides
  BY DEF IInv
<1> QED  BY <1>1, IInvAlways, PTL

(***************************************************************************)
(* What is not a decision never waits for the hierarchy: every such edge   *)
(* the engine offers is open to a secretary, an analyst or an archivist.   *)
(***************************************************************************)
THEOREM ClerksCanAlwaysWork == Spec => []ClerksCanWork
<1>1. TypeOK => ClerksCanWork
  BY DeskOffers, ClerkForEach DEF TypeOK, ClerksCanWork, EdgesFrom
<1> QED  BY <1>1, TypeCorrect, PTL

(***************************************************************************)
(* With and without the definitions that the migrations store, the engine  *)
(* offers the same in every state.                                         *)
(***************************************************************************)
THEOREM SeedAlwaysMatches == Spec => []SeedMatchesFallback
<1>1. TypeOK => SeedMatchesFallback
  BY EngineOffers DEF TypeOK, SeedMatchesFallback
<1> QED  BY <1>1, TypeCorrect, PTL

(***************************************************************************)
(* There is no dead end: from wherever a document that kept its direction  *)
(* can be, edges lead to archived, and from wherever any document can be,  *)
(* they do once it is inbound.                                             *)
(***************************************************************************)
THEOREM ArchiveAlwaysReachable == Spec => []ArchiveReachable
<1>1. IInv => ArchiveReachable
  <2> SUFFICES ASSUME IInv PROVE ArchiveReachable
    OBVIOUS
  <2>1. /\ stored \in BOOLEAN /\ direction \in Direction /\ status \in Status
        /\ redirected \in BOOLEAN /\ "inbound" \in Direction
    BY DEF IInv, TypeOK, Direction
  <2>2. CASE redirected
    <3>1. status \in BroughtToArchive(stored, "inbound")
      BY <2>1, PathsLeadToArchive DEF OnPath
    <3> QED  BY <2>1, <2>2, <3>1 DEF ArchiveReachable
  <2>3. CASE ~redirected
    <3>1. status \in BroughtToArchive(stored, direction)
      BY <2>1, <2>3, PathsLeadToArchive DEF IInv, KeepsToPath
    <3> QED  BY <2>3, <3>1 DEF ArchiveReachable
  <2> QED  BY <2>2, <2>3
<1> QED  BY <1>1, IInvAlways, PTL
=============================================================================
