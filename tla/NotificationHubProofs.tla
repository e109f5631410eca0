----------------------- MODULE NotificationHubProofs -----------------------
(***************************************************************************)
(* For any number of notifications, tabs and processes, any capacity and   *)
(* any length of the lists: the hub implements the feed, and no wakeup is  *)
(* lost.                                                                   *)
(***************************************************************************)
EXTENDS NotificationHub, FiniteSetTheorems, TLAPS

\* The list of the rows f, created in the order u.
Listed(u, f) ==
  [n \in Notes |->
    IF Cardinality({m \in Notes \ {n} : f[m] # Absent /\ n \in u[m]}) < Limit
      THEN f[n] ELSE Absent]

\* The answer a lists rows that lie between what is shown and what is stored.
Lagging(s, a, r, u) ==
  \E past \in [Notes -> Level] : AtMost(s, past) /\ AtMost(past, r) /\ a = Listed(u, past)

\* Lists only ever lag behind the rows.
ListsLag ==
  \A t \in Tabs :
    /\ AtMost(shown[t], rows)
    /\ fetch[t] = "answered" => Lagging(shown[t], answer[t], rows, upto)

\* A notification is created when some process begins its emission, and there is
\* no row before its commit.
CreatedFirst ==
  \A n \in Notes : /\ emit[n] = "none" <=> by[n] = Nowhere
                   /\ emit[n] = "none" <=> upto[n] = {}
                   /\ rows[n] # Absent => emit[n] \in {"stored", "published"}

\* Only a subscribed tab is connected.
OpenIsServed == \A t \in Tabs : open[t] => stream[t] # Nowhere

Inv == TypeOK /\ ListsLag /\ CreatedFirst /\ OpenIsServed

Fetches == {"idle", "asked", "answered"}

(***************************************************************************)
(* Refetch, with the join of a first fetch, either asks again or records   *)
(* what it misses, and never makes an answer of its own.                   *)
(***************************************************************************)
LEMMA RefetchFacts ==
  ASSUME TypeOK, NEW t \in Tabs, Refetch(t)
  PROVE  /\ fetch' \in [Tabs -> Fetches]
         /\ answer' \in [Tabs -> [Notes -> Level]]
         /\ missed' \in [Tabs -> BOOLEAN]
         /\ \A u \in Tabs \ {t} : /\ fetch'[u] = fetch[u]
                                  /\ answer'[u] = answer[u]
                                  /\ missed'[u] = missed[u]
         /\ fetch'[t] = "asked" \/ missed'[t]
         /\ fetch'[t] = "answered" => fetch[t] = "answered" /\ answer'[t] = answer[t]
<1>1. Blank \in [Notes -> Level]
  BY DEF Blank, Level, Absent, Read
<1>2. CASE fetch[t] # "idle" /\ ~loaded[t]
  BY <1>2 DEF TypeOK, Refetch, Fetches
<1>3. CASE ~(fetch[t] # "idle" /\ ~loaded[t])
  <2>1. /\ fetch' = [fetch EXCEPT ![t] = "asked"]
        /\ answer' = [answer EXCEPT ![t] = Blank]
        /\ missed' = [missed EXCEPT ![t] = FALSE]
    BY <1>3 DEF Refetch
  <2> QED  BY <1>1, <2>1 DEF TypeOK, Fetches
<1> QED  BY <1>2, <1>3

(***************************************************************************)
(* States of the list are partially ordered.                               *)
(***************************************************************************)
LEMMA AtMostReflexive == ASSUME NEW f \in [Notes -> Level] PROVE AtMost(f, f)
BY DEF AtMost, Level, Absent, Read

LEMMA AtMostTransitive ==
  ASSUME NEW f \in [Notes -> Level], NEW g \in [Notes -> Level], NEW h \in [Notes -> Level],
         AtMost(f, g), AtMost(g, h)
  PROVE  AtMost(f, h)
<1>1. SUFFICES ASSUME NEW n \in Notes PROVE f[n] <= h[n]
  BY DEF AtMost
<1>2. f[n] \in 0 .. 2 /\ g[n] \in 0 .. 2 /\ h[n] \in 0 .. 2
  BY DEF Level, Absent, Read
<1>3. f[n] <= g[n] /\ g[n] <= h[n]
  BY DEF AtMost
<1> QED  BY <1>2, <1>3 DEF Level, Absent, Read

(***************************************************************************)
(* A list is made of rows.                                                 *)
(***************************************************************************)
LEMMA ListedFacts ==
  ASSUME NEW u, NEW f \in [Notes -> Level]
  PROVE  Listed(u, f) \in [Notes -> Level] /\ AtMost(Listed(u, f), f)
<1>1. f \in [Notes -> 0 .. 2]
  BY DEF Level, Absent, Read
<1>2. \A n \in Notes : Listed(u, f)[n] \in {f[n], 0}
  BY DEF Listed, Absent
<1>3. \A n \in Notes : Listed(u, f)[n] \in 0 .. 2 /\ Listed(u, f)[n] <= f[n]
  BY <1>1, <1>2
<1>4. Listed(u, f) = [n \in Notes |-> Listed(u, f)[n]]
  BY DEF Listed
<1> QED  BY <1>3, <1>4 DEF AtMost, Level, Absent, Read

(***************************************************************************)
(* What is among the newest rows was among the newest when there were      *)
(* fewer of them.                                                          *)
(***************************************************************************)
LEMMA ListedEarlier ==
  ASSUME NEW u, NEW f \in [Notes -> Level], NEW g \in [Notes -> Level], AtMost(f, g),
         NEW n \in Notes, f[n] # Absent, Listed(u, g)[n] # Absent
  PROVE  Listed(u, f)[n] # Absent
<1> DEFINE F == {m \in Notes \ {n} : f[m] # Absent /\ n \in u[m]}
           G == {m \in Notes \ {n} : g[m] # Absent /\ n \in u[m]}
<1>1. F \subseteq G
  <2>1. f \in [Notes -> 0 .. 2] /\ g \in [Notes -> 0 .. 2]
    BY DEF Level, Absent, Read
  <2>2. \A m \in Notes : f[m] <= g[m]
    BY DEF AtMost
  <2>3. \A m \in Notes : f[m] # Absent => g[m] # Absent
    BY <2>1, <2>2 DEF Absent
  <2> QED  BY <2>3
<1>2. IsFiniteSet(G)
  BY FeedAssumption, FS_Subset
<1>3. IsFiniteSet(F) /\ Cardinality(F) <= Cardinality(G)
  BY <1>1, <1>2, FS_Subset
<1>4. Cardinality(F) \in Nat /\ Cardinality(G) \in Nat
  BY <1>2, <1>3, FS_CardinalityType
<1>5. Cardinality(G) < Limit
  BY DEF Listed
<1>6. Cardinality(F) < Limit
  <2> HIDE DEF F, G
  <2> QED  BY <1>3, <1>4, <1>5, FeedAssumption
<1> QED  BY <1>6 DEF Listed

(***************************************************************************)
(* The time at which a notification is created matters to no list that it  *)
(* is not in.                                                              *)
(***************************************************************************)
LEMMA ListedCreated ==
  ASSUME NEW u \in [Notes -> SUBSET Notes], NEW n \in Notes, NEW S \in SUBSET Notes,
         NEW f \in [Notes -> Level], f[n] = Absent
  PROVE  Listed([u EXCEPT ![n] = S], f) = Listed(u, f)
<1> DEFINE v == [u EXCEPT ![n] = S]
<1>1. \A m \in Notes : {k \in Notes \ {m} : f[k] # Absent /\ m \in v[k]}
                     = {k \in Notes \ {m} : f[k] # Absent /\ m \in u[k]}
  OBVIOUS
<1> QED  BY <1>1 DEF Listed

(***************************************************************************)
(* An answer that lags lies between what is shown and what is stored: it   *)
(* stays so as rows rise and notifications are created, and it drops what  *)
(* is shown for newer rows alone.                                          *)
(***************************************************************************)
LEMMA LaggingFacts ==
  ASSUME NEW r \in [Notes -> Level], NEW u, NEW s, NEW a, Lagging(s, a, r, u)
  PROVE  a \in [Notes -> Level] /\ AtMost(a, r)
BY ListedFacts, AtMostTransitive DEF Lagging

LEMMA LaggingNow ==
  ASSUME NEW r \in [Notes -> Level], NEW u, NEW s, AtMost(s, r)
  PROVE  Lagging(s, Listed(u, r), r, u)
BY AtMostReflexive DEF Lagging

LEMMA LaggingRises ==
  ASSUME NEW r \in [Notes -> Level], NEW q \in [Notes -> Level], AtMost(r, q),
         NEW u, NEW s, NEW a, Lagging(s, a, r, u)
  PROVE  Lagging(s, a, q, u)
BY AtMostTransitive DEF Lagging

LEMMA LaggingCreated ==
  ASSUME NEW r \in [Notes -> Level], NEW u \in [Notes -> SUBSET Notes], NEW s, NEW a,
         Lagging(s, a, r, u), NEW n \in Notes, r[n] = Absent, NEW S \in SUBSET Notes
  PROVE  Lagging(s, a, r, [u EXCEPT ![n] = S])
<1>1. PICK past \in [Notes -> Level] : AtMost(s, past) /\ AtMost(past, r) /\ a = Listed(u, past)
  BY DEF Lagging
<1>2. past[n] = Absent
  <2>1. past \in [Notes -> 0 .. 2] /\ past[n] <= 0
    BY <1>1 DEF AtMost, Level, Absent, Read
  <2> QED  BY <2>1 DEF Absent
<1> QED  BY <1>1, <1>2, ListedCreated DEF Lagging

LEMMA LaggingKeeps ==
  ASSUME NEW r \in [Notes -> Level], NEW u, NEW s \in [Notes -> Level], NEW a,
         Lagging(s, a, r, u),
         NEW n \in Notes, s[n] # Absent, Listed(u, r)[n] # Absent
  PROVE  a[n] # Absent
<1>1. PICK past \in [Notes -> Level] : AtMost(s, past) /\ AtMost(past, r) /\ a = Listed(u, past)
  BY DEF Lagging
<1>2. past[n] # Absent
  <2>1. past \in [Notes -> 0 .. 2] /\ s \in [Notes -> 0 .. 2] /\ s[n] <= past[n]
    BY <1>1 DEF AtMost, Level, Absent, Read
  <2> QED  BY <2>1 DEF Absent
<1> QED  BY <1>1, <1>2, ListedEarlier

(***************************************************************************)
(* Storing a new row raises it.                                            *)
(***************************************************************************)
LEMMA PostFacts ==
  ASSUME rows \in [Notes -> Level], NEW n \in Notes, rows[n] = Absent,
         rows' = [rows EXCEPT ![n] = Unread]
  PROVE  rows' \in [Notes -> Level] /\ AtMost(rows, rows')
<1>1. rows \in [Notes -> 0 .. 2] /\ rows[n] = 0 /\ rows' = [rows EXCEPT ![n] = 1]
  BY DEF Level, Absent, Unread, Read
<1>2. rows' \in [Notes -> 0 .. 2] /\ \A m \in Notes : rows[m] <= rows'[m]
  BY <1>1
<1> QED  BY <1>2 DEF AtMost, Level, Absent, Read

(***************************************************************************)
(* Marking raises rows and nothing else.                                   *)
(***************************************************************************)
LEMMA MarkFacts ==
  ASSUME TypeOK, NEW N \in SUBSET Notes,
         rows' = [n \in Notes |-> IF n \in N /\ rows[n] = Unread THEN Read ELSE rows[n]]
  PROVE  /\ rows' \in [Notes -> Level]
         /\ AtMost(rows, rows')
         /\ \A n \in Notes : rows'[n] = Absent <=> rows[n] = Absent
<1>1. rows \in [Notes -> 0 .. 2]
  BY DEF TypeOK, Level, Absent, Read
<1>2. rows' \in [Notes -> 0 .. 2]
  BY <1>1 DEF Unread, Read
<1>3. \A n \in Notes : rows[n] <= rows'[n] /\ (rows'[n] = 0 <=> rows[n] = 0)
  BY <1>1 DEF Unread, Read
<1> QED  BY <1>2, <1>3 DEF AtMost, Level, Absent, Read

LEMMA InitInv == ASSUME HubInit PROVE Inv
<1> USE DEF HubInit, Init
<1>1. Blank \in [Notes -> Level] /\ \A n \in Notes : Blank[n] = Absent
  BY DEF Blank, Level, Absent, Read
<1>2. TypeOK
  BY <1>1, HubAssumption DEF TypeOK
<1>3. ListsLag
  BY <1>1 DEF ListsLag, AtMost, Absent
<1> QED  BY <1>1, <1>2, <1>3 DEF Inv, CreatedFirst, OpenIsServed

(***************************************************************************)
(* Detaching the streams of some tabs.                                     *)
(***************************************************************************)
LEMMA DetachFacts ==
  ASSUME Inv, NEW T \in SUBSET Tabs, Detach(T), Unsubscribed(T)
  PROVE  /\ stream' \in [Tabs -> Workers \cup {Nowhere}]
         /\ open' \in [Tabs -> BOOLEAN]
         /\ queue' \in [Tabs -> 0 .. Capacity]
         /\ todo' \in [Notes -> SUBSET Tabs]
         /\ evicting' \in [Notes -> Tabs \cup {Nowhere}]
         /\ OpenIsServed'
<1>1. stream' \in [Tabs -> Workers \cup {Nowhere}] /\ open' \in [Tabs -> BOOLEAN]
  BY DEF Inv, TypeOK, Detach
<1>2. queue' \in [Tabs -> 0 .. Capacity]
  BY HubAssumption DEF Inv, TypeOK, Detach
<1>3. todo' \in [Notes -> SUBSET Tabs] /\ evicting' \in [Notes -> Tabs \cup {Nowhere}]
  BY DEF Inv, TypeOK, Unsubscribed
<1>4. OpenIsServed'
  BY DEF Inv, OpenIsServed, Detach
<1> QED  BY <1>1, <1>2, <1>3, <1>4

LEMMA EmissionInv == ASSUME Inv, Emission PROVE Inv'
<1> USE DEF Inv, table
<1>1. ASSUME NEW n \in Notes, Store(n)
      PROVE  Inv'
  <2> USE <1>1 DEF Store, client
  <2>1. rows[n] = Absent
    BY DEF CreatedFirst
  <2>2. rows' \in [Notes -> Level] /\ AtMost(rows, rows')
    BY <2>1, PostFacts DEF TypeOK
  <2>3. TypeOK'
    BY <2>2 DEF TypeOK
  <2>4. ListsLag'
    BY <2>2, <2>3, AtMostTransitive, LaggingRises DEF ListsLag, TypeOK
  <2>5. CreatedFirst'
    <3>1. emit'[n] = "stored"
      BY DEF TypeOK
    <3>2. \A m \in Notes \ {n} : emit'[m] = emit[m] /\ rows'[m] = rows[m]
      BY DEF TypeOK
    <3> QED  BY <3>1, <3>2 DEF CreatedFirst
  <2> QED  BY <2>3, <2>4, <2>5 DEF OpenIsServed
<1>6. ASSUME NEW n \in Notes, NEW p \in Processes, Insert(n, p)
      PROVE  Inv'
  <2> USE <1>6 DEF Insert, client
  <2>1. rows[n] = Absent /\ rows' = rows
    BY DEF CreatedFirst
  <2>2. upto' = [upto EXCEPT ![n] = Created \cup {n}] /\ Created \cup {n} \in SUBSET Notes
    BY DEF Created
  <2>3. TypeOK'
    BY <2>2 DEF TypeOK
  <2>4. ListsLag'
    <3>1. ASSUME NEW s, NEW a, Lagging(s, a, rows, upto)
          PROVE  Lagging(s, a, rows, upto')
      <4>1. Lagging(s, a, rows, [upto EXCEPT ![n] = Created \cup {n}])
        BY <2>1, <2>2, <3>1, LaggingCreated, Zenon DEF TypeOK
      <4> QED  BY <2>2, <4>1
    <3>2. UNCHANGED <<rows, shown, fetch, answer>>
      OBVIOUS
    <3> QED  BY <3>1, <3>2 DEF ListsLag
  <2>5. CreatedFirst'
    <3>1. p # Nowhere
      BY HubAssumption DEF Processes
    <3>2. emit'[n] = "created" /\ by'[n] = p /\ upto'[n] # {}
      BY <2>2 DEF TypeOK
    <3>3. \A m \in Notes \ {n} : emit'[m] = emit[m] /\ by'[m] = by[m] /\ upto'[m] = upto[m]
      BY <2>2 DEF TypeOK
    <3> QED  BY <2>1, <3>1, <3>2, <3>3 DEF CreatedFirst
  <2> QED  BY <2>3, <2>4, <2>5 DEF OpenIsServed
<1>2. ASSUME NEW n \in Notes, Publish(n)
      PROVE  Inv'
  BY <1>2 DEF Publish, client, TypeOK, ListsLag, CreatedFirst, OpenIsServed
<1>3. ASSUME NEW n \in Notes, PutAgain(n)
      PROVE  Inv'
  <2> USE <1>3 DEF PutAgain, client
  <2>1. queue' \in [Tabs -> 0 .. Capacity]
    BY HubAssumption DEF TypeOK
  <2>2. TypeOK'
    BY <2>1 DEF TypeOK
  <2> QED  BY <2>2 DEF ListsLag, CreatedFirst, OpenIsServed
<1>4. ASSUME NEW n \in Notes, NEW t \in Tabs, Put(n, t)
      PROVE  Inv'
  <2> USE <1>4 DEF Put, client
  <2>1. queue' \in [Tabs -> 0 .. Capacity]
    <3>1. Capacity \in Nat \ {0} /\ queue \in [Tabs -> 0 .. Capacity]
      BY HubAssumption DEF TypeOK
    <3>2. CASE queue[t] < Capacity
      BY <3>1, <3>2
    <3>3. CASE queue[t] = Capacity
      BY <3>1, <3>3
    <3> QED  BY <3>2, <3>3
  <2>2. todo' \in [Notes -> SUBSET Tabs]
    BY DEF TypeOK
  <2>3. evicting' \in [Notes -> Tabs \cup {Nowhere}]
    BY DEF TypeOK
  <2>4. TypeOK'
    BY <2>1, <2>2, <2>3 DEF TypeOK
  <2> QED  BY <2>4 DEF ListsLag, CreatedFirst, OpenIsServed
<1>5. ASSUME NEW p \in Processes, Crash(p)
      PROVE  Inv'
  <2> DEFINE T == {t \in Tabs : stream[t] = p}
  <2>1. Detach(T) /\ Unsubscribed(T)
    BY <1>5 DEF Crash
  <2>2. emit' \in [Notes -> {"none", "created", "stored", "published"}]
    BY <1>5 DEF Crash, TypeOK
  <2>3. TypeOK' /\ OpenIsServed'
    BY <1>5, <2>1, <2>2, DetachFacts DEF Crash, TypeOK, client
  <2>4. CreatedFirst'
    <3>1. p # Nowhere
      BY HubAssumption DEF Processes
    <3>2. rows' = rows /\ upto' = upto /\ by' = by
      BY <1>5 DEF Crash
    <3>3. \A n \in Notes : emit'[n] = IF by[n] = p THEN "published" ELSE emit[n]
      BY <1>5 DEF Crash
    <3> QED  BY <3>1, <3>2, <3>3 DEF CreatedFirst
  <2>5. ListsLag'
    BY <1>5 DEF Crash, ListsLag, client
  <2> QED  BY <2>3, <2>4, <2>5
<1> QED  BY <1>1, <1>2, <1>3, <1>4, <1>5, <1>6 DEF Emission

LEMMA BellInv == ASSUME Inv, NEW t \in Tabs, Bell(t) PROVE Inv'
<1> USE DEF Inv, table
<1>1. ASSUME NEW w \in Workers, Subscribe(t, w)
      PROVE  Inv'
  BY <1>1, HubAssumption
     DEF Subscribe, emission, client, TypeOK, ListsLag, CreatedFirst, OpenIsServed
\* The steps that fetch again.
<1>2. ASSUME Refetch(t), UNCHANGED <<table, shown, emission, stream, loaded>>,
             open' \in [Tabs -> BOOLEAN], queue' \in [Tabs -> 0 .. Capacity],
             visible' \in [Tabs -> BOOLEAN], OpenIsServed'
      PROVE  Inv'
  <2>1. TypeOK'
    BY <1>2, RefetchFacts DEF TypeOK, emission, Fetches
  <2>2. ListsLag'
    BY <1>2, RefetchFacts DEF ListsLag
  <2> QED  BY <1>2, <2>1, <2>2 DEF CreatedFirst, emission
<1>3. CASE Greet(t)
  BY <1>3, <1>2 DEF Greet, TypeOK, OpenIsServed
<1>4. CASE Receive(t)
  <2>1. queue' \in [Tabs -> 0 .. Capacity]
    BY <1>4, HubAssumption DEF Receive, TypeOK
  <2> QED  BY <1>4, <1>2, <2>1 DEF Receive, TypeOK, OpenIsServed
<1>5. CASE Poll(t)
  BY <1>5, <1>2 DEF Poll, TypeOK, OpenIsServed
<1>6. CASE Focus(t)
  <2>1. CASE fetch[t] = "idle"
    BY <1>6, <1>2, <2>1 DEF Focus, TypeOK, OpenIsServed
  <2>2. CASE fetch[t] # "idle"
    BY <1>6, <2>2
       DEF Focus, emission, client, TypeOK, ListsLag, CreatedFirst, OpenIsServed
  <2> QED  BY <2>1, <2>2
<1>7. CASE Sever(t)
  <2>1. Detach({t}) /\ Unsubscribed({t})
    BY <1>7 DEF Sever
  <2>2. TypeOK' /\ OpenIsServed'
    BY <1>7, <2>1, DetachFacts DEF Sever, TypeOK, client
  <2> QED  BY <1>7, <2>2 DEF Sever, client, ListsLag, CreatedFirst
<1>8. CASE Answer(t)
  <2>1. Newest(rows) = Listed(upto, rows)
    BY DEF Newest, Before, Listed
  <2>2. Listed(upto, rows) \in [Notes -> Level]
    BY ListedFacts DEF TypeOK
  <2>3. TypeOK'
    BY <1>8, <2>1, <2>2 DEF Answer, emission, TypeOK
  <2>4. ListsLag'
    BY <1>8, <2>1, LaggingNow DEF Answer, ListsLag, TypeOK
  <2> QED  BY <1>8, <2>3, <2>4 DEF Answer, emission, CreatedFirst, OpenIsServed
<1>9. ASSUME fetch' = [fetch EXCEPT ![t] = "idle"], answer' = [answer EXCEPT ![t] = Blank]
      PROVE  /\ fetch' \in [Tabs -> Fetches] /\ fetch'[t] = "idle"
             /\ answer' \in [Tabs -> [Notes -> Level]]
             /\ \A u \in Tabs \ {t} : fetch'[u] = fetch[u] /\ answer'[u] = answer[u]
  <2>1. Blank \in [Notes -> Level]
    BY DEF Blank, Level, Absent, Read
  <2> QED  BY <1>9, <2>1 DEF TypeOK, Fetches
<1>10. CASE Show(t)
  <2>1. TypeOK'
    BY <1>10, <1>9 DEF Show, emission, TypeOK, Fetches
  <2>2. ListsLag'
    <3>1. AtMost(answer[t], rows)
      BY <1>10, LaggingFacts DEF Show, ListsLag, TypeOK
    <3> QED  BY <1>10, <1>9, <3>1 DEF Show, ListsLag, TypeOK
  <2> QED  BY <1>10, <2>1, <2>2 DEF Show, emission, CreatedFirst, OpenIsServed
<1>11. CASE FetchFails(t)
  <2>1. TypeOK'
    BY <1>11, <1>9 DEF FetchFails, emission, TypeOK, Fetches
  <2>2. ListsLag'
    BY <1>11, <1>9 DEF FetchFails, ListsLag, TypeOK
  <2> QED  BY <1>11, <2>1, <2>2 DEF FetchFails, emission, CreatedFirst, OpenIsServed
<1>12. CASE Hide(t)
  BY <1>12 DEF Hide, emission, client, TypeOK, ListsLag, CreatedFirst, OpenIsServed
<1>13. ASSUME NEW N \in SUBSET Notes, Mark(t, N)
       PROVE  Inv'
  <2>1. /\ rows' = [n \in Notes |-> IF n \in N /\ rows[n] = Unread THEN Read ELSE rows[n]]
        /\ UNCHANGED <<upto, shown, emission, stream, open, queue, visible, loaded>>
        /\ Refetch(t) \/ UNCHANGED client
    BY <1>13 DEF Mark, client
  <2>2. /\ rows' \in [Notes -> Level]
        /\ AtMost(rows, rows')
        /\ \A n \in Notes : rows'[n] = Absent <=> rows[n] = Absent
    BY <2>1, MarkFacts
  <2>3. /\ fetch' \in [Tabs -> Fetches] /\ answer' \in [Tabs -> [Notes -> Level]]
        /\ missed' \in [Tabs -> BOOLEAN]
        /\ \A u \in Tabs : fetch'[u] = "answered" => fetch[u] = "answered" /\ answer'[u] = answer[u]
    <3>1. CASE Refetch(t)
      BY <3>1, RefetchFacts
    <3>2. CASE UNCHANGED client
      BY <3>2 DEF client, TypeOK, Fetches
    <3> QED  BY <2>1, <3>1, <3>2
  <2>4. TypeOK'
    BY <2>1, <2>2, <2>3 DEF TypeOK, emission, Fetches
  <2>5. rows \in [Notes -> Level]
    BY DEF TypeOK
  <2>6. ListsLag'
    BY <2>1, <2>2, <2>3, <2>5, AtMostTransitive, LaggingRises DEF ListsLag, TypeOK
  <2>7. CreatedFirst' /\ OpenIsServed'
    BY <2>1, <2>2 DEF CreatedFirst, OpenIsServed, emission
  <2> QED  BY <2>4, <2>6, <2>7
<1> QED
  BY <1>1, <1>3, <1>4, <1>5, <1>6, <1>7, <1>8, <1>10, <1>11, <1>12, <1>13 DEF Bell

LEMMA StepInv == ASSUME Inv, [HubNext]_hubVars PROVE Inv'
<1>1. CASE HubNext
  BY <1>1, EmissionInv, BellInv DEF HubNext
<1>2. CASE UNCHANGED hubVars
  BY <1>2 DEF hubVars, table, emission, client, Inv, TypeOK, ListsLag, CreatedFirst, OpenIsServed
<1> QED  BY <1>1, <1>2

(***************************************************************************)
(* Every variable keeps its type.                                          *)
(***************************************************************************)
THEOREM TypeCorrect == HubSpec => []TypeOK
<1>1. HubInit => Inv
  BY InitInv
<1>2. Inv /\ [HubNext]_hubVars => Inv'
  BY StepInv
<1>3. Inv => TypeOK
  BY DEF Inv
<1> QED  BY <1>1, <1>2, <1>3, PTL DEF HubSpec

-----------------------------------------------------------------------------
(* No wakeup is lost *)

\* What still leads tab t to notification n.
OnItsWay(n, t) ==
  \/ shown[t][n] # Absent
  \/ queue[t] > 0
  \/ \E m \in Notes : evicting[m] = t
  \/ fetch[t] = "asked"
  \/ fetch[t] = "answered" /\ answer[t][n] # Absent
  \/ missed[t]

(***************************************************************************)
(* A fetch begun now finds every row there is.                             *)
(***************************************************************************)
LEMMA RefetchFinds ==
  ASSUME Inv, NEW t \in Tabs, Refetch(t), NEW n \in Notes
  PROVE  OnItsWay(n, t)'
BY RefetchFacts DEF OnItsWay, Inv

(***************************************************************************)
(* What only tab u fetches changes nothing for another tab.                *)
(***************************************************************************)
LEMMA RefetchElsewhere ==
  ASSUME Inv, NEW u \in Tabs, Refetch(u), NEW n \in Notes, NEW t \in Tabs, t # u,
         shown' = shown, evicting' = evicting, queue'[t] = queue[t], OnItsWay(n, t)
  PROVE  OnItsWay(n, t)'
BY RefetchFacts DEF OnItsWay, Inv

(***************************************************************************)
(* The list is a function of the rows and of the order of their creation,  *)
(* and what remains among the newest as rows are added was among them.     *)
(***************************************************************************)
LEMMA NewestIsListed ==
  ASSUME NEW n \in Notes
  PROVE  /\ Newest(rows)[n] = Listed(upto, rows)[n]
         /\ (Newest(rows)[n])' = Listed(upto', rows')[n]
BY DEF Newest, Before, Listed

LEMMA NewestRemains ==
  ASSUME rows \in [Notes -> Level], rows' \in [Notes -> Level], AtMost(rows, rows'),
         NEW n \in Notes, rows[n] # Absent, Listed(upto, rows')[n] # Absent
  PROVE  Newest(rows)[n] # Absent
BY ListedEarlier, NewestIsListed

LEMMA WakeupInit == ASSUME HubInit PROVE NoLostWakeup
BY DEF HubInit, NoLostWakeup, Announced

LEMMA EmissionWakes ==
  ASSUME Inv, NoLostWakeup, Emission, NEW n \in Notes, NEW t \in Tabs, Announced(n, t)'
  PROVE  OnItsWay(n, t)'
<1>1. Announced(n, t) => OnItsWay(n, t)
  BY DEF NoLostWakeup, OnItsWay
<1>2. ASSUME NEW m \in Notes, Store(m)
      PROVE  OnItsWay(n, t)'
  <2>1. n # m /\ emit[n] = "published" /\ open[t] /\ by[n] = stream[t] /\ t \notin todo[n]
    BY <1>2 DEF Store, Announced, Inv, TypeOK
  <2>2. rows[m] = Absent /\ rows' \in [Notes -> Level] /\ AtMost(rows, rows')
    BY <1>2, PostFacts DEF Store, Inv, TypeOK, CreatedFirst
  <2>3. Listed(upto, rows')[n] # Absent
    BY <1>2, NewestIsListed DEF Store, Announced
  <2>4. rows[n] # Absent
    <3>1. rows'[n] = rows[n]
      BY <1>2, <2>1 DEF Store, Inv, TypeOK
    <3> QED  BY <2>3, <3>1 DEF Listed
  <2>5. Newest(rows)[n] # Absent
    <3>1. rows \in [Notes -> Level]
      BY DEF Inv, TypeOK
    <3> QED  BY <2>2, <2>3, <2>4, <3>1, NewestRemains, Zenon
  <2>6. Announced(n, t)
    BY <2>1, <2>5 DEF Announced
  <2> QED  BY <1>1, <1>2, <2>6 DEF Store, OnItsWay, client
<1>7. ASSUME NEW m \in Notes, NEW p \in Processes, Insert(m, p)
      PROVE  OnItsWay(n, t)'
  <2>1. n # m /\ emit[n] = "published" /\ open[t] /\ by[n] = stream[t] /\ t \notin todo[n]
    BY <1>7 DEF Insert, Announced, Inv, TypeOK
  <2>2. rows[m] = Absent /\ rows' = rows /\ Created \cup {m} \in SUBSET Notes
    BY <1>7 DEF Insert, Created, Inv, CreatedFirst
  <2>3. Listed(upto', rows') = Listed(upto, rows)
    <3>1. Listed([upto EXCEPT ![m] = Created \cup {m}], rows) = Listed(upto, rows)
      <4>1. upto \in [Notes -> SUBSET Notes] /\ rows \in [Notes -> Level]
        BY DEF Inv, TypeOK
      <4> QED  BY <2>2, <4>1, ListedCreated, Zenon
    <3> QED  BY <1>7, <2>2, <3>1 DEF Insert
  <2>4. Announced(n, t)
    BY <2>1, <2>3, NewestIsListed DEF Announced
  <2> QED  BY <1>1, <1>7, <2>4 DEF Insert, OnItsWay, client
<1>3. ASSUME NEW m \in Notes, Publish(m)
      PROVE  OnItsWay(n, t)'
  <2>1. Announced(n, t)
    BY <1>3 DEF Publish, Announced, table, Newest, Before, Inv, TypeOK
  <2> QED  BY <1>1, <1>3, <2>1 DEF Publish, OnItsWay, client
<1>4. ASSUME NEW m \in Notes, PutAgain(m)
      PROVE  OnItsWay(n, t)'
  <2>1. Announced(n, t)
    BY <1>4 DEF PutAgain, Announced, table, Newest, Before
  <2>2. CASE evicting[m] = t
    <3>1. Capacity \in Nat \ {0} /\ queue \in [Tabs -> 0 .. Capacity]
      BY HubAssumption DEF Inv, TypeOK
    <3>2. queue'[t] = IF queue[t] < Capacity THEN queue[t] + 1 ELSE queue[t]
      BY <1>4, <2>2 DEF PutAgain, Inv, TypeOK
    <3>3. queue'[t] > 0
      BY <3>1, <3>2
    <3> QED  BY <3>3 DEF OnItsWay
  <2>3. CASE evicting[m] # t
    <3>1. queue'[t] = queue[t]
      BY <1>4, <2>3 DEF PutAgain, Inv, TypeOK
    <3>2. \A k \in Notes : evicting[k] = t => evicting'[k] = t
      BY <1>4, <2>3 DEF PutAgain, Inv, TypeOK
    <3> QED  BY <1>1, <1>4, <2>1, <3>1, <3>2 DEF PutAgain, OnItsWay, client
  <2> QED  BY <2>2, <2>3
<1>5. ASSUME NEW m \in Notes, NEW u \in Tabs, Put(m, u)
      PROVE  OnItsWay(n, t)'
  <2>1. \A k \in Notes : evicting[k] = t => evicting'[k] = t
    BY <1>5, HubAssumption DEF Put, Inv, TypeOK
  <2>2. CASE u = t
    <3>1. Capacity \in Nat \ {0} /\ queue \in [Tabs -> 0 .. Capacity]
      BY HubAssumption DEF Inv, TypeOK
    <3>2. queue'[t] = queue[t] + 1 \/ evicting'[m] = t
      BY <1>5, <2>2 DEF Put, Inv, TypeOK
    <3>3. queue'[t] > 0 \/ evicting'[m] = t
      BY <3>1, <3>2
    <3> QED  BY <3>3 DEF OnItsWay
  <2>3. CASE u # t
    <3>1. queue'[t] = queue[t]
      BY <1>5, <2>3 DEF Put, Inv, TypeOK
    <3>2. Announced(n, t)
      BY <1>5, <2>3 DEF Put, Announced, table, Newest, Before, Inv, TypeOK
    <3> QED  BY <1>1, <1>5, <2>1, <3>1, <3>2 DEF Put, OnItsWay, client
  <2> QED  BY <2>2, <2>3
<1>6. ASSUME NEW p \in Processes, Crash(p)
      PROVE  OnItsWay(n, t)'
  <2>1. t \notin {u \in Tabs : stream[u] = p} /\ stream'[t] = stream[t]
    BY <1>6 DEF Crash, Detach, Announced, table, Newest, Before
  <2>2. queue'[t] = queue[t] /\ open[t]
    BY <1>6, <2>1 DEF Crash, Detach, Announced, table, Newest, Before
  <2>3. \A k \in Notes : evicting[k] = t => evicting'[k] = t
    BY <1>6, <2>1 DEF Crash, Unsubscribed
  <2>4. by[n] # p /\ emit'[n] = emit[n] /\ t \notin todo[n]
    BY <1>6, <2>1 DEF Crash, Unsubscribed, Announced, table, Newest, Before
  <2>5. Announced(n, t)
    BY <1>6, <2>1, <2>2, <2>4 DEF Crash, Announced, table, Newest, Before
  <2> QED  BY <1>1, <1>6, <2>2, <2>3, <2>5 DEF Crash, OnItsWay, client
<1> QED  BY <1>2, <1>3, <1>4, <1>5, <1>6, <1>7 DEF Emission

LEMMA BellWakes ==
  ASSUME Inv, NoLostWakeup, NEW u \in Tabs, Bell(u),
         NEW n \in Notes, NEW t \in Tabs, Announced(n, t)'
  PROVE  OnItsWay(n, t)'
<1>1. Announced(n, t) => OnItsWay(n, t)
  BY DEF NoLostWakeup, OnItsWay
<1>2. ASSUME NEW w \in Workers, Subscribe(u, w)
      PROVE  OnItsWay(n, t)'
  <2>1. t # u
    BY <1>2 DEF Subscribe, Announced, table, Newest, Before, Inv, OpenIsServed
  <2>2. Announced(n, t)
    BY <1>2, <2>1 DEF Subscribe, Announced, table, Newest, Before, emission, Inv, TypeOK
  <2> QED  BY <1>1, <1>2, <2>2 DEF Subscribe, OnItsWay, table, emission, client
<1>3. CASE Greet(u)
  <2>1. CASE t = u
    BY <1>3, <2>1, RefetchFinds DEF Greet
  <2>2. CASE t # u
    <3>1. Announced(n, t)
      BY <1>3, <2>2 DEF Greet, Announced, table, Newest, Before, emission, Inv, TypeOK
    <3> QED  BY <1>1, <1>3, <2>2, <3>1, RefetchElsewhere DEF Greet, emission
  <2> QED  BY <2>1, <2>2
<1>4. CASE Receive(u)
  <2>1. CASE t = u
    BY <1>4, <2>1, RefetchFinds DEF Receive
  <2>2. CASE t # u
    <3>1. Announced(n, t) /\ queue'[t] = queue[t]
      BY <1>4, <2>2 DEF Receive, Announced, table, Newest, Before, emission, Inv, TypeOK
    <3> QED  BY <1>1, <1>4, <2>2, <3>1, RefetchElsewhere DEF Receive, emission
  <2> QED  BY <2>1, <2>2
<1>5. ASSUME Refetch(u), UNCHANGED <<table, shown, emission, stream, open, queue>>
      PROVE  OnItsWay(n, t)'
  <2>1. Announced(n, t)
    BY <1>5 DEF Announced, table, Newest, Before, emission
  <2> QED  BY <1>1, <1>5, <2>1, RefetchFinds, RefetchElsewhere DEF emission
<1>6. ASSUME UNCHANGED <<table, shown, emission, stream, open, queue, client>>
      PROVE  OnItsWay(n, t)'
  BY <1>1, <1>6 DEF Announced, table, Newest, Before, OnItsWay, table, emission, client
<1>7. CASE Poll(u)
  BY <1>5, <1>7 DEF Poll
<1>8. CASE Focus(u)
  BY <1>5, <1>6, <1>8 DEF Focus
<1>9. CASE Hide(u)
  BY <1>6, <1>9 DEF Hide
<1>10. ASSUME NEW N \in SUBSET Notes, Mark(u, N)
       PROVE  OnItsWay(n, t)'
  <2>1. /\ rows' = [m \in Notes |-> IF m \in N /\ rows[m] = Unread THEN Read ELSE rows[m]]
        /\ UNCHANGED <<upto, shown, emission, stream, open, queue>>
        /\ Refetch(u) \/ UNCHANGED client
    BY <1>10 DEF Mark, client
  <2>2. /\ rows' \in [Notes -> Level] /\ AtMost(rows, rows')
        /\ \A m \in Notes : rows'[m] = Absent <=> rows[m] = Absent
    BY <2>1, MarkFacts DEF Inv
  <2>3. Listed(upto, rows')[n] # Absent
    BY <2>1, NewestIsListed DEF Announced
  <2>4. rows'[n] # Absent
    BY <2>3 DEF Listed
  <2>5. Announced(n, t)
    BY <2>1, <2>2, <2>3, <2>4, NewestRemains DEF Announced, emission, Inv, TypeOK
  <2> QED
    BY <1>1, <2>1, <2>5, RefetchFinds, RefetchElsewhere DEF OnItsWay, emission, client
<1>11. CASE Sever(u)
  <2>1. t # u
    BY <1>11 DEF Sever, Detach, Announced, table, Newest, Before
  <2>2. queue'[t] = queue[t] /\ \A k \in Notes : evicting[k] = t => evicting'[k] = t
    BY <1>11, <2>1 DEF Sever, Detach, Unsubscribed
  <2>3. Announced(n, t)
    BY <1>11, <2>1 DEF Sever, Detach, Unsubscribed, Announced, table, Newest, Before
  <2> QED  BY <1>1, <1>11, <2>2, <2>3 DEF Sever, OnItsWay, client
<1>12. CASE Answer(u)
  <2>1. Announced(n, t)
    BY <1>12 DEF Answer, Announced, table, Newest, Before, emission
  <2>2. Newest(rows)[n] # Absent
    BY <2>1 DEF Announced
  <2> QED  BY <1>1, <1>12, <2>1, <2>2 DEF Answer, OnItsWay, emission, Inv, TypeOK
<1>13. CASE Show(u)
  <2>1. Announced(n, t)
    BY <1>13 DEF Show, Announced, table, Newest, Before, emission
  <2>2. CASE t = u
    <3>1. ASSUME shown[t][n] # Absent
          PROVE  answer[t][n] # Absent
      <4>1. Listed(upto, rows)[n] # Absent
        BY <2>1, NewestIsListed DEF Announced
      <4>2. Lagging(shown[t], answer[t], rows, upto)
        BY <1>13, <2>2 DEF Show, Inv, ListsLag
      <4>3. rows \in [Notes -> Level] /\ shown[t] \in [Notes -> Level]
        BY DEF Inv, TypeOK
      <4> QED  BY <3>1, <4>1, <4>2, <4>3, LaggingKeeps, Zenon
    <3>2. shown'[t] = answer[t]
      BY <1>13, <2>2 DEF Show, Inv, TypeOK
    <3> QED  BY <1>1, <1>13, <2>1, <2>2, <3>1, <3>2 DEF Show, OnItsWay, emission
  <2>3. CASE t # u
    BY <1>1, <1>13, <2>1, <2>3 DEF Show, OnItsWay, emission, Inv, TypeOK
  <2> QED  BY <2>2, <2>3
<1>14. CASE FetchFails(u)
  <2>1. Announced(n, t)
    BY <1>14 DEF FetchFails, Announced, table, Newest, Before, emission
  <2> QED  BY <1>1, <1>14, <2>1 DEF FetchFails, OnItsWay, emission, Inv, TypeOK
<1> QED
  BY <1>2, <1>3, <1>4, <1>7, <1>8, <1>9, <1>10, <1>11, <1>12, <1>13, <1>14 DEF Bell

(***************************************************************************)
(* A notification published to a connected tab's process is in the tab's   *)
(* list or will be fetched: nothing falls between commit, subscription,    *)
(* eviction and fetch.                                                     *)
(***************************************************************************)
THEOREM WakeupsKept == HubSpec => []NoLostWakeup
<1>1. HubInit => Inv /\ NoLostWakeup
  BY InitInv, WakeupInit
<1>2. ASSUME Inv, NoLostWakeup, HubNext
      PROVE  NoLostWakeup'
  <2>1. \A n \in Notes, t \in Tabs : Announced(n, t)' => OnItsWay(n, t)'
    BY <1>2, EmissionWakes, BellWakes DEF HubNext
  <2> QED  BY <2>1 DEF NoLostWakeup, OnItsWay
<1>3. NoLostWakeup /\ UNCHANGED hubVars => NoLostWakeup'
  BY DEF hubVars, table, emission, client, NoLostWakeup, Announced, Newest, Before
<1>4. Inv /\ NoLostWakeup /\ [HubNext]_hubVars => (Inv /\ NoLostWakeup)'
  BY <1>2, <1>3, StepInv
<1> QED  BY <1>1, <1>4, PTL DEF HubSpec

-----------------------------------------------------------------------------
(***************************************************************************)
(* The hub implements the feed.                                            *)
(***************************************************************************)
THEOREM HubImplementsFeed == HubSpec => ImplementsFeed
<1>1. HubInit => Feed!Init
  BY DEF HubInit, Init, Feed!Init, Blank, Feed!Blank, Absent, Feed!Absent
<1>2. ASSUME Inv, HubNext
      PROVE  Feed!Next \/ UNCHANGED <<rows, upto, shown>>
  <2>1. ASSUME NEW n \in Notes, NEW p \in Processes, Insert(n, p)
        PROVE  Feed!Create(n)
    BY <1>2, <2>1 DEF Insert, Inv, CreatedFirst, Feed!Create, Created, Feed!Created
  <2>2. ASSUME NEW n \in Notes, Store(n)
        PROVE  Feed!Post(n)
    <3>1. rows[n] = Absent /\ n \in Feed!Created
      BY <1>2, <2>2 DEF Store, Inv, CreatedFirst, Feed!Created
    <3> QED  BY <2>2, <3>1 DEF Store, Feed!Post, Absent, Unread, Feed!Absent, Feed!Unread
  <2>3. ASSUME NEW t \in Tabs, Show(t)
        PROVE  Feed!Refresh(t)
    <3>1. PICK past \in [Notes -> Level] :
            /\ AtMost(shown[t], past) /\ AtMost(past, rows)
            /\ answer[t] = Listed(upto, past)
      BY <1>2, <2>3 DEF Show, Inv, ListsLag, Lagging
    <3>2. Feed!Newest(past) = Listed(upto, past)
      BY DEF Feed!Newest, Feed!Before, Listed, Absent, Feed!Absent, Cardinality, Feed!Cardinality
    <3>3. Feed!Level = Level
      BY DEF Level, Absent, Read, Feed!Level, Feed!Absent, Feed!Read
    <3>4. Feed!AtMost(shown[t], past) /\ Feed!AtMost(past, rows)
      BY <3>1 DEF AtMost, Feed!AtMost
    <3>5. shown' = [shown EXCEPT ![t] = Feed!Newest(past)] /\ UNCHANGED <<rows, upto>>
      BY <2>3, <3>1, <3>2 DEF Show, table
    <3> QED  BY <3>3, <3>4, <3>5 DEF Feed!Refresh
  <2>4. ASSUME NEW t \in Tabs, NEW N \in SUBSET Notes, Mark(t, N)
        PROVE  Feed!MarkRead(N)
    BY <2>4 DEF Mark, Feed!MarkRead, Unread, Read, Feed!Unread, Feed!Read
  <2>5. CASE Emission
    BY <2>1, <2>2, <2>5 DEF Emission, Publish, PutAgain, Put, Crash, table, Feed!Next
  <2>6. ASSUME NEW t \in Tabs, Bell(t)
        PROVE  Feed!Next \/ UNCHANGED <<rows, upto, shown>>
    BY <2>3, <2>4, <2>6
    DEF Bell, Subscribe, Greet, Receive, Sever, Answer, FetchFails, Poll, Hide, Focus, table,
        Feed!Next
  <2> QED  BY <1>2, <2>5, <2>6 DEF HubNext
<1>3. UNCHANGED hubVars => UNCHANGED <<rows, upto, shown>>
  BY DEF hubVars, table
<1>4. Inv /\ [HubNext]_hubVars => [Feed!Next]_<<rows, upto, shown>>
  BY <1>2, <1>3
<1>5. HubInit => Inv
  BY InitInv
<1>6. Inv /\ [HubNext]_hubVars => Inv'
  BY StepInv
<1> QED  BY <1>1, <1>4, <1>5, <1>6, PTL DEF HubSpec, ImplementsFeed, Feed!Spec, Feed!vars
=============================================================================
