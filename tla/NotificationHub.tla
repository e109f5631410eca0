-------------------------- MODULE NotificationHub ---------------------------
(***************************************************************************)
(* How a stored in-app notification reaches the bell of a browser tab.     *)
(* emit_in_app commits the row and then publishes an event to the streams  *)
(* of its own process; each stream has a bounded queue.  An event says     *)
(* nothing but "fetch again".  API processes do not see each other's       *)
(* streams, and the Celery workers have none: for their notifications, for *)
(* lost events and for failed fetches a tab polls while it is visible.     *)
(*                                                                         *)
(* One user with the user's tabs; nothing here relates two users.          *)
(***************************************************************************)
EXTENDS NotificationFeed

CONSTANTS
  Workers,   \* API processes, each with a hub of its own
  Celery,    \* the Celery workers: they emit and have no streams
  Nowhere,   \* no process, no tab
  Capacity   \* of the queue of a stream (the code has 32)

ASSUME HubAssumption ==
  /\ Celery \notin Workers
  /\ Nowhere \notin Workers \cup {Celery} \cup Tabs
  /\ Capacity \in Nat \ {0}

Processes == Workers \cup {Celery}

VARIABLES
  emit,      \* how far the emission of a notification is
  by,        \* the process that emits it
  todo,      \* the streams it still has to be put into, as tabs
  evicting,  \* the tab whose full queue has just lost its oldest event to it
  stream,    \* the process that serves the stream of a tab
  open,      \* has the tab seen the response of its stream?
  queue,     \* events on their way to the tab
  fetch,     \* the request for the list
  answer,    \* the list that request brings
  loaded,    \* has the tab ever had a list?
  visible,   \* is the tab in the foreground?
  missed     \* history: a wakeup went by, only polling can make up for it

table == <<rows, upto>>
emission == <<emit, by, todo, evicting>>
client == <<fetch, answer, loaded, missed>>
hubVars == <<table, shown, emission, stream, open, queue, client, visible>>

TypeOK ==
  /\ rows \in [Notes -> Level]
  /\ shown \in [Tabs -> [Notes -> Level]]
  /\ upto \in [Notes -> SUBSET Notes]
  /\ emit \in [Notes -> {"none", "created", "stored", "published"}]
  /\ by \in [Notes -> Processes \cup {Nowhere}]
  /\ todo \in [Notes -> SUBSET Tabs]
  /\ evicting \in [Notes -> Tabs \cup {Nowhere}]
  /\ stream \in [Tabs -> Workers \cup {Nowhere}]
  /\ open \in [Tabs -> BOOLEAN]
  /\ queue \in [Tabs -> 0 .. Capacity]
  /\ fetch \in [Tabs -> {"idle", "asked", "answered"}]
  /\ answer \in [Tabs -> [Notes -> Level]]
  /\ loaded \in [Tabs -> BOOLEAN]
  /\ visible \in [Tabs -> BOOLEAN]
  /\ missed \in [Tabs -> BOOLEAN]

\* The bell has just been mounted and asks for its first list.
HubInit ==
  /\ Init
  /\ emit = [n \in Notes |-> "none"]
  /\ by = [n \in Notes |-> Nowhere]
  /\ todo = [n \in Notes |-> {}]
  /\ evicting = [n \in Notes |-> Nowhere]
  /\ stream = [t \in Tabs |-> Nowhere]
  /\ open = [t \in Tabs |-> FALSE]
  /\ queue = [t \in Tabs |-> 0]
  /\ fetch = [t \in Tabs |-> "asked"]
  /\ answer = [t \in Tabs |-> Blank]
  /\ loaded = [t \in Tabs |-> FALSE]
  /\ visible = [t \in Tabs |-> TRUE]
  /\ missed = [t \in Tabs |-> FALSE]

-----------------------------------------------------------------------------
(* The server *)

\* emit_in_app: the flush takes the time of creation ...
Insert(n, p) ==
  /\ emit[n] = "none"
  /\ upto' = [upto EXCEPT ![n] = Created \cup {n}]
  /\ emit' = [emit EXCEPT ![n] = "created"]
  /\ by' = [by EXCEPT ![n] = p]
  /\ UNCHANGED <<rows, shown, todo, evicting, stream, open, queue, client, visible>>

\* ... the commit makes the row visible ...
Store(n) ==
  /\ emit[n] = "created"
  /\ rows' = [rows EXCEPT ![n] = Unread]
  /\ emit' = [emit EXCEPT ![n] = "stored"]
  /\ UNCHANGED <<upto, shown, by, todo, evicting, stream, open, queue, client, visible>>

\* ... and publish, which copies the list of subscribers under the lock ...
Publish(n) ==
  /\ emit[n] = "stored"
  /\ emit' = [emit EXCEPT ![n] = "published"]
  /\ todo' = [todo EXCEPT ![n] = {t \in Tabs : stream[t] = by[n]}]
  /\ UNCHANGED <<table, shown, by, evicting, stream, open, queue, client, visible>>

\* Mutant: the queue is not bounded.
PutUnbounded(n, t) ==
  /\ t \in todo[n] /\ evicting[n] = Nowhere
  /\ todo' = [todo EXCEPT ![n] = @ \ {t}]
  /\ queue' = [queue EXCEPT ![t] = @ + 1]
  /\ UNCHANGED <<table, shown, emit, by, evicting, stream, open, client, visible>>

\* ... and puts the event into one queue after the other.  A full queue loses
\* its oldest event first; other publishers and the stream itself use the queue
\* between the two.
Put(n, t) ==
  /\ t \in todo[n] /\ evicting[n] = Nowhere
  /\ todo' = [todo EXCEPT ![n] = @ \ {t}]
  /\ \/ /\ queue[t] < Capacity
        /\ queue' = [queue EXCEPT ![t] = @ + 1]
        /\ UNCHANGED evicting
     \/ /\ queue[t] = Capacity
        /\ queue' = [queue EXCEPT ![t] = @ - 1]
        /\ evicting' = [evicting EXCEPT ![n] = t]
  /\ UNCHANGED <<table, shown, emit, by, stream, open, client, visible>>

\* If the queue is full again the event is dropped.
PutAgain(n) ==
  LET t == evicting[n] IN
  /\ t # Nowhere
  /\ evicting' = [evicting EXCEPT ![n] = Nowhere]
  /\ queue' = [queue EXCEPT ![t] = IF @ < Capacity THEN @ + 1 ELSE @]
  /\ UNCHANGED <<table, shown, emit, by, todo, stream, open, client, visible>>

\* The streams of tabs T end; what is put into their queues is not read.
Detach(T) ==
  /\ stream' = [t \in Tabs |-> IF t \in T THEN Nowhere ELSE stream[t]]
  /\ open' = [t \in Tabs |-> open[t] /\ t \notin T]
  /\ queue' = [t \in Tabs |-> IF t \in T THEN 0 ELSE queue[t]]

Unsubscribed(T) ==
  /\ todo' = [n \in Notes |-> todo[n] \ T]
  /\ evicting' = [n \in Notes |-> IF evicting[n] \in T THEN Nowhere ELSE evicting[n]]

\* A process dies with its streams, and with what it had yet to commit or to
\* publish.
Crash(p) ==
  LET T == {t \in Tabs : stream[t] = p} IN
  /\ Detach(T)
  /\ Unsubscribed(T)
  /\ emit' = [n \in Notes |-> IF by[n] = p THEN "published" ELSE emit[n]]
  /\ UNCHANGED <<table, shown, by, client, visible>>

-----------------------------------------------------------------------------
(* The tab *)

\* TanStack Query: invalidateQueries drops a fetch under way and asks again,
\* but joins the very first one, the answer to which may already be older.
Refetch(t) ==
  IF fetch[t] # "idle" /\ ~loaded[t]
    THEN /\ missed' = [missed EXCEPT ![t] = @ \/ fetch[t] = "answered"]
         /\ UNCHANGED <<fetch, answer>>
    ELSE /\ fetch' = [fetch EXCEPT ![t] = "asked"]
         /\ answer' = [answer EXCEPT ![t] = Blank]
         /\ missed' = [missed EXCEPT ![t] = FALSE]

\* GET /notifications/stream reaches a worker, which subscribes a new queue ...
Subscribe(t, w) ==
  /\ stream[t] = Nowhere
  /\ stream' = [stream EXCEPT ![t] = w]
  /\ UNCHANGED <<table, shown, emission, open, queue, client, visible>>

\* Mutant: the tab waits for the first event.
GreetQuietly(t) ==
  /\ stream[t] # Nowhere /\ ~open[t]
  /\ open' = [open EXCEPT ![t] = TRUE]
  /\ UNCHANGED <<table, shown, emission, stream, queue, client, visible>>

\* ... and its response reaches the tab, which asks for what it has missed.
Greet(t) ==
  /\ stream[t] # Nowhere /\ ~open[t]
  /\ open' = [open EXCEPT ![t] = TRUE]
  /\ Refetch(t)
  /\ UNCHANGED <<table, shown, emission, stream, queue, loaded, visible>>

\* An event taken from the queue and on the wire still counts as queued.
Receive(t) ==
  /\ open[t] /\ queue[t] > 0
  /\ queue' = [queue EXCEPT ![t] = @ - 1]
  /\ Refetch(t)
  /\ UNCHANGED <<table, shown, emission, stream, open, loaded, visible>>

\* The connection is lost, or its token expired; the tab connects again.
Sever(t) ==
  /\ stream[t] # Nowhere
  /\ Detach({t})
  /\ Unsubscribed({t})
  /\ UNCHANGED <<table, shown, emit, by, client, visible>>

\* GET /notifications?limit=40 reads the newest rows ...
Answer(t) ==
  /\ fetch[t] = "asked"
  /\ fetch' = [fetch EXCEPT ![t] = "answered"]
  /\ answer' = [answer EXCEPT ![t] = Newest(rows)]
  /\ UNCHANGED <<table, shown, emission, stream, open, queue, loaded, visible, missed>>

\* ... and the tab shows them.
Show(t) ==
  /\ fetch[t] = "answered"
  /\ fetch' = [fetch EXCEPT ![t] = "idle"]
  /\ answer' = [answer EXCEPT ![t] = Blank]
  /\ shown' = [shown EXCEPT ![t] = answer[t]]
  /\ loaded' = [loaded EXCEPT ![t] = TRUE]
  /\ UNCHANGED <<table, emission, stream, open, queue, visible, missed>>

\* The request and its one retry fail, or their answers are lost.
FetchFails(t) ==
  /\ fetch[t] # "idle"
  /\ fetch' = [fetch EXCEPT ![t] = "idle"]
  /\ answer' = [answer EXCEPT ![t] = Blank]
  /\ missed' = [missed EXCEPT ![t] = TRUE]
  /\ UNCHANGED <<table, shown, emission, stream, open, queue, loaded, visible>>

\* Mutant: with a stream the tab does not poll.
PollWithoutStream(t) ==
  /\ visible[t] /\ fetch[t] = "idle" /\ ~open[t]
  /\ Refetch(t)
  /\ UNCHANGED <<table, shown, emission, stream, open, queue, loaded, visible>>

\* refetchInterval: its timer does nothing while the tab is hidden.
Poll(t) ==
  /\ visible[t] /\ fetch[t] = "idle"
  /\ Refetch(t)
  /\ UNCHANGED <<table, shown, emission, stream, open, queue, loaded, visible>>

Hide(t) ==
  /\ visible[t]
  /\ visible' = [visible EXCEPT ![t] = FALSE]
  /\ UNCHANGED <<table, shown, emission, stream, open, queue, client>>

\* refetchOnWindowFocus
Focus(t) ==
  /\ ~visible[t]
  /\ visible' = [visible EXCEPT ![t] = TRUE]
  /\ IF fetch[t] = "idle"
       THEN Refetch(t) /\ UNCHANGED loaded
       ELSE UNCHANGED client
  /\ UNCHANGED <<table, shown, emission, stream, open, queue>>

\* Mutant: the list changes at once, whatever the server does.
MarkAhead(t, N) ==
  /\ \E n \in Notes : shown[t][n] = Unread
  /\ N = {n \in Notes : shown[t][n] = Unread}
  /\ shown' = [shown EXCEPT ![t] = [n \in Notes |-> IF n \in N THEN Read ELSE shown[t][n]]]
  /\ UNCHANGED <<table, emission, stream, open, queue, client, visible>>

\* PATCH /notifications/{id}/read for one of the list, or POST read-all, which
\* also reads what the tab does not show yet.  The answer, if it arrives, makes
\* this tab fetch again; nothing tells the others.
Mark(t, N) ==
  /\ \E n \in Notes : shown[t][n] = Unread
  /\ \/ \E n \in Notes : shown[t][n] = Unread /\ N = {n}
     \/ N = Notes
  /\ rows' = [n \in Notes |-> IF n \in N /\ rows[n] = Unread THEN Read ELSE rows[n]]
  /\ \/ Refetch(t) /\ UNCHANGED loaded
     \/ UNCHANGED client
  /\ UNCHANGED <<upto, shown, emission, stream, open, queue, visible>>

-----------------------------------------------------------------------------
Emission ==
  \/ \E n \in Notes, p \in Processes : Insert(n, p)
  \/ \E n \in Notes : Store(n) \/ Publish(n) \/ PutAgain(n)
  \/ \E n \in Notes, t \in Tabs : Put(n, t)
  \/ \E p \in Processes : Crash(p)

Bell(t) ==
  \/ \E w \in Workers : Subscribe(t, w)
  \/ Greet(t) \/ Receive(t) \/ Sever(t)
  \/ Answer(t) \/ Show(t) \/ FetchFails(t)
  \/ Poll(t) \/ Hide(t) \/ Focus(t)
  \/ \E N \in SUBSET Notes : Mark(t, N)

HubNext == Emission \/ \E t \in Tabs : Bell(t)

HubSpec == HubInit /\ [][HubNext]_hubVars

(***************************************************************************)
(* Timers run, and requests do not fail for ever.  Nothing is assumed of   *)
(* streams, of emitters or of the user.                                    *)
(***************************************************************************)
FairHub ==
  /\ HubSpec
  /\ \A t \in Tabs : WF_hubVars(Poll(t)) /\ SF_hubVars(Answer(t)) /\ SF_hubVars(Show(t))

-----------------------------------------------------------------------------
(***************************************************************************)
(* No wakeup is lost between commit, subscription, eviction and fetch: a   *)
(* notification that belongs in the list, and whose publication is over    *)
(* for the process that serves a connected tab, is in the tab's list or    *)
(* will be fetched, unless a fetch failed or was joined too late (missed). *)
(* Dropping events when a queue is full is therefore harmless.             *)
(***************************************************************************)
Announced(n, t) ==
  /\ open[t] /\ emit[n] = "published" /\ by[n] = stream[t]
  /\ t \notin todo[n]
  /\ Newest(rows)[n] # Absent

NoLostWakeup ==
  \A n \in Notes, t \in Tabs : Announced(n, t) =>
    \/ shown[t][n] # Absent
    \/ queue[t] > 0
    \/ \E m \in Notes : evicting[m] = t
    \/ fetch[t] = "asked"
    \/ fetch[t] = "answered" /\ answer[t][n] # Absent
    \/ missed[t]

(***************************************************************************)
(* The hub implements the feed: no tab shows what is not stored, nor goes  *)
(* back, in whatever order rows are committed and answers and events come; *)
(* a notification leaves the list for newer ones alone, and for good.      *)
(***************************************************************************)
Feed == INSTANCE NotificationFeed
ImplementsFeed == Feed!Spec

(***************************************************************************)
(* Polling is the safety net the hub's comment names: what comes up among  *)
(* the newest, or is read in another tab, is seen by each tab that stays   *)
(* visible, be it from Celery, from another process or from one that died. *)
(***************************************************************************)
CatchesUp ==
  \A t \in Tabs, n \in Notes :
    shown[t][n] # Newest(rows)[n] ~> shown[t][n] = Newest(rows)[n] \/ ~visible[t]
=============================================================================
