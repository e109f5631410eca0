---------------------------- MODULE PasswordsProofs ----------------------------
(***************************************************************************)
(* Passwords for any number of secrets, challenges, requests and, where    *)
(* nothing else is said, handlers: the types, and with one handler at a    *)
(* time that a code counts once.                                           *)
(***************************************************************************)
EXTENDS Passwords, FiniteSetTheorems, TLAPS

USE PasswordsAssumption

\* What a handler goes on with is what the table or the user gave it.
Knows(s) ==
  /\ session[s].at = "insert" =>
       /\ session[s].use \in {"forgot", "change"}
       /\ session[s].use = "change" => session[s].new \in Secrets
  /\ session[s].at \in {"mail", "verify", "change"} => session[s].challenge \in Challenges
  /\ session[s].at \in {"notify", "resolve"} => session[s].request \in Requests
  /\ session[s].at \in {"change", "reset"} => session[s].new \in Secrets
  /\ session[s].at = "resolve" => session[s].to \in {"completed", "rejected"}

HandlersKnow == \A s \in Sessions : Knows(s)

ChangesHaveSecret == \A c \in Challenges : challenge[c].use = "change" => challenge[c].new \in Secrets

TInv == TypeOK /\ HandlersKnow /\ ChangesHaveSecret

-----------------------------------------------------------------------------
(* Steps of one handler *)

LEMMA IdleIs == Idle \in Session /\ Idle.at = "idle"
BY DEF Idle, Session

LEMMA SessionTyped ==
  ASSUME TInv
  PROVE  /\ session \in [Sessions -> Session]
         /\ \A s \in Sessions : Knows(s)
BY DEF TInv, TypeOK, HandlersKnow

\* A handler that takes up the work x, with a table of challenges it may change.
LEMMA HandlerTyped ==
  ASSUME TInv, NEW s \in Sessions, NEW x \in Session,
         session' = [session EXCEPT ![s] = x],
         x.at = "insert" => x.use \in {"forgot", "change"}
                            /\ (x.use = "change" => x.new \in Secrets),
         x.at \in {"mail", "verify", "change"} => x.challenge \in Challenges,
         x.at \in {"notify", "resolve"} => x.request \in Requests,
         x.at \in {"change", "reset"} => x.new \in Secrets,
         x.at = "resolve" => x.to \in {"completed", "rejected"}
  PROVE  session' \in [Sessions -> Session] /\ HandlersKnow'
<1>1. /\ session' \in [Sessions -> Session]
      /\ session'[s] = x
      /\ \A t \in Sessions : t # s => session'[t] = session[t]
  BY DEF TInv, TypeOK
<1>2. \A t \in Sessions : Knows(t)'
  <2>1. TAKE t \in Sessions
  <2>2. CASE t = s
    BY <1>1, <2>2 DEF Knows
  <2>3. CASE t # s
    BY <1>1, <2>3, SessionTyped DEF Knows
  <2> QED  BY <2>2, <2>3
<1> QED  BY <1>1, <1>2 DEF HandlersKnow

LEMMA EndTyped ==
  ASSUME TInv, NEW s \in Sessions, End(s)
  PROVE  session' \in [Sessions -> Session] /\ HandlersKnow'
BY IdleIs, HandlerTyped DEF End

\* Challenges that are consumed keep their type and their secret.
LEMMA ConsumeTyped ==
  ASSUME TInv, NEW C, Consume(C)
  PROVE  challenge' \in [Challenges -> Challenge] /\ ChangesHaveSecret'
<1>1. challenge \in [Challenges -> Challenge]
  BY DEF TInv, TypeOK
<1>2. \A c \in Challenges :
        challenge'[c] = IF c \in C THEN [challenge[c] EXCEPT !.open = FALSE] ELSE challenge[c]
  BY DEF Consume
<1>3. \A c \in Challenges :
        /\ challenge'[c] \in Challenge
        /\ challenge'[c].use = challenge[c].use /\ challenge'[c].new = challenge[c].new
  <2>1. TAKE c \in Challenges
  <2>2. challenge[c] \in Challenge
    BY <1>1
  <2>3. CASE c \in C
    <3>1. challenge'[c] = [challenge[c] EXCEPT !.open = FALSE]
      BY <1>2, <2>3
    <3> QED  BY <2>2, <3>1 DEF Challenge
  <2>4. CASE c \notin C
    BY <1>2, <2>2, <2>4
  <2> QED  BY <2>3, <2>4
<1>4. challenge' \in [Challenges -> Challenge]
  BY <1>3 DEF Consume
<1> QED  BY <1>3, <1>4 DEF TInv, ChangesHaveSecret

LEMMA ArriveTyped ==
  ASSUME TInv, NEW s \in Sessions, Arrive(s)
  PROVE  TInv'
<1>1. CASE StartForgot(s)
  <2> DEFINE x == [Idle EXCEPT !.at = "insert", !.use = "forgot"]
  <2>1. x \in Session /\ x.at = "insert" /\ x.use = "forgot"
    BY DEF Idle, Session
  <2>2. session' = [session EXCEPT ![s] = x]
    BY <1>1 DEF StartForgot, Serve
  <2> HIDE DEF x
  <2>3. session' \in [Sessions -> Session] /\ HandlersKnow'
    BY <2>1, <2>2, HandlerTyped
  <2>4. challenge' \in [Challenges -> Challenge] /\ ChangesHaveSecret'
    BY <1>1, ConsumeTyped DEF StartForgot
  <2> QED  BY <1>1, <2>3, <2>4 DEF TInv, TypeOK, StartForgot, account
<1>2. ASSUME NEW p \in Secrets, StartChange(s, p)
      PROVE  TInv'
  <2> DEFINE x == [Idle EXCEPT !.at = "insert", !.use = "change", !.new = p]
  <2>1. x \in Session /\ x.at = "insert" /\ x.use = "change" /\ x.new = p
    BY DEF Idle, Session
  <2>2. session' = [session EXCEPT ![s] = x]
    BY <1>2 DEF StartChange, Serve
  <2> HIDE DEF x
  <2>3. session' \in [Sessions -> Session] /\ HandlersKnow'
    BY <2>1, <2>2, HandlerTyped
  <2>4. challenge' \in [Challenges -> Challenge] /\ ChangesHaveSecret'
    BY <1>2, ConsumeTyped DEF StartChange
  <2> QED  BY <1>2, <2>3, <2>4 DEF TInv, TypeOK, StartChange, account
<1>3. ASSUME NEW c \in Challenges, Verify(s, c)
      PROVE  TInv'
  <2> DEFINE x == [Idle EXCEPT !.at = "verify", !.challenge = c]
  <2>1. x \in Session /\ x.at = "verify" /\ x.challenge = c
    BY DEF Idle, Session
  <2>2. session' = [session EXCEPT ![s] = x]
    BY <1>3 DEF Verify, Serve
  <2> HIDE DEF x
  <2>3. session' \in [Sessions -> Session] /\ HandlersKnow'
    BY <2>1, <2>2, HandlerTyped
  <2> QED  BY <1>3, <2>3 DEF TInv, TypeOK, ChangesHaveSecret, Verify, account
<1>4. ASSUME NEW c \in Challenges, Complete(s, c)
      PROVE  TInv'
  <2> DEFINE x == [Idle EXCEPT !.at = "change", !.challenge = c, !.new = challenge[c].new,
                               !.seen = mustChange]
  <2>0. challenge[c].new \in Secrets
    BY <1>4 DEF TInv, ChangesHaveSecret, Complete, Usable
  <2>1. x \in Session /\ x.at = "change" /\ x.challenge = c /\ x.new \in Secrets
    BY <2>0 DEF TInv, TypeOK, Idle, Session
  <2>2. session' = [session EXCEPT ![s] = x]
    BY <1>4 DEF Complete, Serve
  <2> HIDE DEF x
  <2>3. session' \in [Sessions -> Session] /\ HandlersKnow'
    BY <2>1, <2>2, HandlerTyped
  <2> QED  BY <1>4, <2>3 DEF TInv, TypeOK, ChangesHaveSecret, Complete, account
<1>5. ASSUME NEW r \in Requests \cup {None}, NEW p \in Secrets, NEW must \in BOOLEAN,
             AdminReset(s, r, p, must)
      PROVE  TInv'
  <2> DEFINE x == [Idle EXCEPT !.at = "reset", !.request = r, !.new = p,
                               !.seen = mustChange, !.must = must]
  <2>1. x \in Session /\ x.at = "reset" /\ x.new = p
    BY DEF TInv, TypeOK, Idle, Session
  <2>2. session' = [session EXCEPT ![s] = x]
    BY <1>5 DEF AdminReset, Serve
  <2> HIDE DEF x
  <2>3. session' \in [Sessions -> Session] /\ HandlersKnow'
    BY <2>1, <2>2, HandlerTyped
  <2> QED  BY <1>5, <2>3 DEF TInv, TypeOK, ChangesHaveSecret, AdminReset, account
<1>6. ASSUME NEW r \in Requests, NEW to \in {"completed", "rejected"}, Resolve(s, r, to)
      PROVE  TInv'
  <2> DEFINE x == [Idle EXCEPT !.at = "resolve", !.request = r, !.to = to]
  <2>1. x \in Session /\ x.at = "resolve" /\ x.request = r /\ x.to = to
    BY DEF Idle, Session
  <2>2. session' = [session EXCEPT ![s] = x]
    BY <1>6 DEF Resolve, Serve
  <2> HIDE DEF x
  <2>3. session' \in [Sessions -> Session] /\ HandlersKnow'
    BY <2>1, <2>2, HandlerTyped
  <2> QED  BY <1>6, <2>3 DEF TInv, TypeOK, ChangesHaveSecret, Resolve, account
<1> QED  BY <1>1, <1>2, <1>3, <1>4, <1>5, <1>6 DEF Arrive

LEMMA ProceedTyped ==
  ASSUME TInv, NEW s \in Sessions, Proceed(s)
  PROVE  TInv'
<1>a. session[s] \in Session /\ Knows(s)
  BY SessionTyped
<1>b. /\ password \in Secrets /\ mustChange \in BOOLEAN /\ mfa \in BOOLEAN
      /\ challenge \in [Challenges -> Challenge] /\ request \in [Requests -> Request]
      /\ ChangesHaveSecret
  BY DEF TInv, TypeOK
<1>1. ASSUME NEW c \in Challenges, Insert(s, c)
      PROVE  TInv'
  <2> DEFINE n == [NoChallenge EXCEPT !.use = session[s].use, !.totp = mfa, !.open = TRUE,
                                      !.new = session[s].new]
             x == IF mfa THEN Idle ELSE [session[s] EXCEPT !.at = "mail", !.challenge = c]
  <2>1. n \in Challenge /\ (n.use = "change" => n.new \in Secrets)
    BY <1>1, <1>a, <1>b DEF NoChallenge, Challenge, Insert, At, Knows, Session
  <2>2. challenge' = [challenge EXCEPT ![c] = n] /\ session' = [session EXCEPT ![s] = x]
    BY <1>1 DEF Insert
  <2>3. x \in Session /\ (x.at # "idle" => x.at = "mail" /\ x.challenge = c)
    <3>1. CASE mfa
      BY <3>1, IdleIs
    <3>2. CASE ~mfa
      BY <3>2, <1>a DEF Session
    <3> QED  BY <3>1, <3>2
  <2> HIDE DEF n, x
  <2>4. session' \in [Sessions -> Session] /\ HandlersKnow'
    BY <2>2, <2>3, HandlerTyped
  <2>5. challenge' \in [Challenges -> Challenge] /\ ChangesHaveSecret'
    BY <1>b, <2>1, <2>2 DEF ChangesHaveSecret
  <2> QED  BY <1>1, <2>4, <2>5 DEF TInv, TypeOK, Insert, account
<1>2. CASE Mail(s)
  <2> DEFINE c == session[s].challenge
  <2>1. session' \in [Sessions -> Session] /\ HandlersKnow'
    BY <1>2, EndTyped DEF Mail
  <2>2. c \in Challenges
    BY <1>2, <1>a DEF Mail, At, Knows
  <2>3. \/ challenge' = [challenge EXCEPT ![c].mailed = TRUE]
        \/ Consume({c})
    BY <1>2 DEF Mail
  <2> HIDE DEF c
  <2>4. challenge' \in [Challenges -> Challenge] /\ ChangesHaveSecret'
    <3>1. CASE challenge' = [challenge EXCEPT ![c].mailed = TRUE]
      <4>1. challenge' \in [Challenges -> Challenge]
        BY <1>b, <2>2, <3>1 DEF Challenge
      <4>2. \A e \in Challenges :
              challenge'[e].use = challenge[e].use /\ challenge'[e].new = challenge[e].new
        BY <1>b, <2>2, <3>1 DEF Challenge
      <4> QED  BY <4>1, <4>2, <1>b DEF ChangesHaveSecret
    <3>2. CASE Consume({c})
      BY <3>2, ConsumeTyped
    <3> QED  BY <2>3, <3>1, <3>2
  <2> QED  BY <1>2, <2>1, <2>4 DEF TInv, TypeOK, Mail, account
<1>3. ASSUME NEW r \in Requests, MakeRequest(s, r)
      PROVE  TInv'
  <2> DEFINE c == session[s].challenge
             q == [NoRequest EXCEPT !.status = "pending", !.by = c]
             x == [Idle EXCEPT !.at = "notify", !.request = r]
  <2>1. c \in Challenges
    BY <1>3, <1>a DEF MakeRequest, At, Knows
  <2>2. q \in Request
    BY <2>1 DEF NoRequest, Request
  <2>3. x \in Session /\ x.at = "notify" /\ x.request = r
    BY DEF Idle, Session
  <2>4. /\ request' = [request EXCEPT ![r] = q]
        /\ session' = [session EXCEPT ![s] = x]
        /\ Consume({c})
    BY <1>3 DEF MakeRequest
  <2> HIDE DEF q, x
  <2>5. session' \in [Sessions -> Session] /\ HandlersKnow'
    BY <2>3, <2>4, HandlerTyped
  <2>6. challenge' \in [Challenges -> Challenge] /\ ChangesHaveSecret'
    BY <2>4, ConsumeTyped
  <2>7. request' \in [Requests -> Request]
    BY <1>b, <2>2, <2>4
  <2> QED  BY <1>3, <2>5, <2>6, <2>7 DEF TInv, TypeOK, MakeRequest, account
<1>4. CASE Notify(s)
  <2>1. session' \in [Sessions -> Session] /\ HandlersKnow'
    BY <1>4, EndTyped DEF Notify
  <2>2. session[s].request \in Requests
    BY <1>4, <1>a DEF Notify, At, Knows
  <2> QED  BY <1>4, <2>1, <2>2 DEF TInv, TypeOK, ChangesHaveSecret, Notify, account
<1>5. CASE Change(s)
  <2>1. session' \in [Sessions -> Session] /\ HandlersKnow'
    BY <1>5, EndTyped DEF Change
  <2>2. challenge' \in [Challenges -> Challenge] /\ ChangesHaveSecret'
    BY <1>5, ConsumeTyped DEF Change
  <2>3. password' \in Secrets /\ mustChange' \in BOOLEAN
    BY <1>5, <1>a, <1>b DEF Change, At, Knows, Written
  <2> QED  BY <1>5, <2>1, <2>2, <2>3 DEF TInv, TypeOK, Change
<1>6. CASE Reset(s)
  <2> DEFINE r == session[s].request
  <2>1. session' \in [Sessions -> Session] /\ HandlersKnow'
    BY <1>6, EndTyped DEF Reset
  <2>2. password' \in Secrets /\ mustChange' \in BOOLEAN
    BY <1>6, <1>a, <1>b DEF Reset, At, Knows, Written, Session
  <2>3. r \in Requests \cup {None}
    BY <1>a DEF Session
  <2>4. \/ request' = request
        \/ r \in Requests /\ request' = [request EXCEPT ![r].status = "completed"]
    BY <1>6, <2>3 DEF Reset
  <2> HIDE DEF r
  <2>5. request' \in [Requests -> Request]
    BY <1>b, <2>4 DEF Request
  <2> QED  BY <1>6, <2>1, <2>2, <2>5 DEF TInv, TypeOK, ChangesHaveSecret, Reset
<1>7. CASE Decide(s)
  <2> DEFINE r == session[s].request
             to == session[s].to
  <2>1. session' \in [Sessions -> Session] /\ HandlersKnow'
    BY <1>7, EndTyped DEF Decide
  <2>2. r \in Requests /\ to \in {"completed", "rejected"}
    BY <1>7, <1>a DEF Decide, At, Knows
  <2>3. request' = [request EXCEPT ![r].status = to]
    BY <1>7 DEF Decide
  <2> HIDE DEF r, to
  <2>4. request' \in [Requests -> Request]
    BY <1>b, <2>2, <2>3 DEF Request
  <2> QED  BY <1>7, <2>1, <2>4 DEF TInv, TypeOK, ChangesHaveSecret, Decide, account
<1> QED  BY <1>1, <1>2, <1>3, <1>4, <1>5, <1>6, <1>7 DEF Proceed
LEMMA OthersTyped ==
  ASSUME TInv,
         Elapse \/ SwitchMfa \/ Task \/ ReminderDies \/ \E s \in Sessions : Die(s)
  PROVE  TInv'
<1>b. /\ challenge \in [Challenges -> Challenge] /\ request \in [Requests -> Request]
      /\ reminder \in [at : {"rest", "mark", "emit"}, todo : SUBSET Requests]
      /\ mfa \in BOOLEAN /\ ChangesHaveSecret
  BY DEF TInv, TypeOK
<1>c. ASSUME UNCHANGED session
      PROVE  session' \in [Sessions -> Session] /\ HandlersKnow'
  BY <1>c DEF TInv, TypeOK, HandlersKnow, Knows
<1>1. ASSUME NEW c \in Challenges, Expire(c)
      PROVE  TInv'
  <2>1. challenge' = [challenge EXCEPT ![c].expired = TRUE]
    BY <1>1 DEF Expire
  <2>2. challenge' \in [Challenges -> Challenge]
    <3>0. challenge[c] \in Challenge
      BY <1>b
    <3>1. [challenge[c] EXCEPT !.expired = TRUE] \in Challenge
      BY <3>0 DEF Challenge
    <3> QED  BY <1>b, <2>1, <3>1
  <2>3. \A e \in Challenges :
          challenge'[e].use = challenge[e].use /\ challenge'[e].new = challenge[e].new
    BY <1>b, <2>1 DEF Challenge
  <2>4. ChangesHaveSecret'
    BY <1>b, <2>3 DEF ChangesHaveSecret
  <2> QED  BY <1>1, <1>c, <2>2, <2>4 DEF TInv, TypeOK, Expire, account
<1>2. ASSUME NEW r \in Requests, HourPasses(r)
      PROVE  TInv'
  <2>1. request' = [request EXCEPT ![r].due = TRUE]
    BY <1>2 DEF HourPasses
  <2>2. request' \in [Requests -> Request]
    BY <1>b, <2>1 DEF Request
  <2> QED  BY <1>2, <1>c, <2>2 DEF TInv, TypeOK, ChangesHaveSecret, HourPasses, account
<1>3. CASE SwitchMfa
  BY <1>3, <1>b, <1>c DEF TInv, TypeOK, ChangesHaveSecret, SwitchMfa
<1>4. CASE Remind
  <2>1. reminder' \in [at : {"rest", "mark", "emit"}, todo : SUBSET Requests]
    BY <1>4 DEF Remind
  <2> QED  BY <1>4, <1>c, <2>1 DEF TInv, TypeOK, ChangesHaveSecret, Remind, account
<1>5. CASE Mark
  <2>1. request' \in [Requests -> Request]
    <3>1. ASSUME NEW r \in Requests
          PROVE  [request[r] EXCEPT !.due = FALSE] \in Request /\ request[r] \in Request
      <4>1. request[r] \in Request
        BY <1>b
      <4> QED  BY <4>1 DEF Request
    <3>2. ASSUME NEW r \in Requests
          PROVE  (IF r \in reminder.todo THEN [request[r] EXCEPT !.due = FALSE]
                                         ELSE request[r]) \in Request
      BY <3>1
    <3> QED  BY <1>5, <3>2 DEF Mark
  <2>2. reminder' \in [at : {"rest", "mark", "emit"}, todo : SUBSET Requests]
    BY <1>5, <1>b DEF Mark
  <2> QED  BY <1>5, <1>c, <2>1, <2>2 DEF TInv, TypeOK, ChangesHaveSecret, Mark, account
<1>6. ASSUME NEW r \in Requests, Emit(r)
      PROVE  TInv'
  <2>1. reminder' \in [at : {"rest", "mark", "emit"}, todo : SUBSET Requests]
    <3>1. CASE reminder.todo = {r}
      BY <1>6, <3>1 DEF Emit, Resting
    <3>2. CASE reminder.todo # {r}
      BY <1>6, <1>b, <3>2 DEF Emit
    <3> QED  BY <3>1, <3>2
  <2> QED  BY <1>6, <1>c, <2>1 DEF TInv, TypeOK, ChangesHaveSecret, Emit, account
<1>7. CASE ReminderDies
  <2>1. reminder' \in [at : {"rest", "mark", "emit"}, todo : SUBSET Requests]
    BY <1>7 DEF ReminderDies, Resting
  <2> QED  BY <1>7, <1>c, <2>1 DEF TInv, TypeOK, ChangesHaveSecret, ReminderDies, account
<1>8. ASSUME NEW s \in Sessions, Die(s)
      PROVE  TInv'
  <2>1. session' \in [Sessions -> Session] /\ HandlersKnow'
    BY <1>8, EndTyped DEF Die
  <2> QED  BY <1>8, <2>1 DEF TInv, TypeOK, ChangesHaveSecret, Die, account
<1> QED  BY <1>1, <1>2, <1>3, <1>4, <1>5, <1>6, <1>7, <1>8 DEF Elapse, Task

LEMMA TInvInit == Init => TInv
<1> SUFFICES ASSUME Init PROVE TInv
  OBVIOUS
<1>1. \A s \in Sessions : Knows(s)
  BY IdleIs DEF Init, Knows
<1>2. NoChallenge \in Challenge /\ NoChallenge.use = "none" /\ NoRequest \in Request
  BY DEF NoChallenge, Challenge, NoRequest, Request
<1>3. Resting \in [at : {"rest", "mark", "emit"}, todo : SUBSET Requests]
  BY DEF Resting
<1> QED  BY <1>1, <1>2, <1>3, IdleIs DEF Init, TInv, TypeOK, HandlersKnow, ChangesHaveSecret

LEMMA TInvStep == TInv /\ [Next]_vars => TInv'
<1> SUFFICES ASSUME TInv, [Next]_vars PROVE TInv'
  OBVIOUS
<1>1. CASE UNCHANGED vars
  BY <1>1 DEF vars, account, TInv, TypeOK, HandlersKnow, Knows, ChangesHaveSecret
<1> QED  BY <1>1, ArriveTyped, ProceedTyped, OthersTyped DEF Next

(***************************************************************************)
(* Accounts, challenges, requests and what handlers and the hourly task    *)
(* are at stay what they can be, with any number of handlers.              *)
(***************************************************************************)
THEOREM TypeCorrect == Spec => []TypeOK
<1>1. TInv => TypeOK
  BY DEF TInv
<1> QED  BY <1>1, TInvInit, TInvStep, PTL DEF Spec
-----------------------------------------------------------------------------
(* One handler at a time *)

OneHandler == \A s, t \in Sessions : s = t

Single == \A c, d \in Challenges :
  challenge[c].open /\ challenge[d].open /\ challenge[c].use = challenge[d].use => c = d

\* Who is about to insert a challenge has consumed those of its kind.
InsertsFirst ==
  \A s \in Sessions : session[s].at = "insert" =>
    \A c \in Challenges : challenge[c].open => challenge[c].use # session[s].use

\* Who has accepted a code is not overtaken.
HeldIsOpen ==
  \A s \in Sessions : session[s].at \in {"verify", "change"} => challenge[session[s].challenge].open

CInv == TInv /\ Single /\ InsertsFirst /\ HeldIsOpen

\* A step that opens no challenge, with the one handler at nothing afterwards
\* that rests on them.
LEMMA NothingOpened ==
  ASSUME OneHandler, CInv, TInv', NEW s \in Sessions,
         session'[s].at \notin {"insert", "verify", "change"},
         \A c \in Challenges : /\ challenge'[c].use = challenge[c].use
                               /\ challenge'[c].open => challenge[c].open
  PROVE  CInv'
<1>1. Single'
  BY DEF CInv, Single
<1>2. \A t \in Sessions : t = s
  BY DEF OneHandler
<1>3. InsertsFirst' /\ HeldIsOpen'
  BY <1>2 DEF InsertsFirst, HeldIsOpen
<1> QED  BY <1>1, <1>3 DEF CInv

\* A step that is none of the handler's.
LEMMA HandlerUntouched ==
  ASSUME CInv, TInv', UNCHANGED session,
         \A c \in Challenges : /\ challenge'[c].use = challenge[c].use
                               /\ challenge'[c].open = challenge[c].open
  PROVE  CInv'
<1>1. Single' /\ InsertsFirst'
  BY DEF CInv, Single, InsertsFirst
<1>2. HeldIsOpen'
  BY DEF CInv, TInv, HandlersKnow, Knows, HeldIsOpen
<1> QED  BY <1>1, <1>2 DEF CInv

LEMMA ConsumeCloses ==
  ASSUME TInv, NEW C, Consume(C)
  PROVE  \A c \in Challenges :
           /\ challenge'[c].use = challenge[c].use
           /\ challenge'[c].open => challenge[c].open /\ c \notin C
<1>1. TAKE c \in Challenges
<1>2. challenge[c] \in Challenge
  BY DEF TInv, TypeOK
<1>3. challenge'[c] = IF c \in C THEN [challenge[c] EXCEPT !.open = FALSE] ELSE challenge[c]
  BY DEF Consume
<1>4. CASE c \in C
  <2>1. challenge'[c] = [challenge[c] EXCEPT !.open = FALSE]
    BY <1>3, <1>4
  <2> QED  BY <1>2, <2>1 DEF Challenge
<1>5. CASE c \notin C
  BY <1>3, <1>5
<1> QED  BY <1>4, <1>5

LEMMA EndIs ==
  ASSUME TInv, NEW s \in Sessions, End(s)
  PROVE  session'[s].at = "idle"
BY IdleIs DEF End, TInv, TypeOK

LEMMA ArriveCounts ==
  ASSUME OneHandler, CInv, TInv', NEW s \in Sessions, Arrive(s)
  PROVE  CInv'
<1>a. TInv /\ session \in [Sessions -> Session] /\ \A t \in Sessions : t = s
  BY DEF CInv, TInv, TypeOK, OneHandler
\* What consumes the challenges of its kind may insert another.
<1>b. ASSUME NEW use \in {"forgot", "change"}, NEW C, Consume(C), Open(use) \subseteq C,
             session'[s].at = "insert", session'[s].use = use
      PROVE  CInv'
  <2>1. \A c \in Challenges :
           /\ challenge'[c].use = challenge[c].use
           /\ challenge'[c].open => challenge[c].open /\ c \notin C
    BY <1>a, <1>b, ConsumeCloses
  <2>2. Single'
    BY <2>1 DEF CInv, Single
  <2>3. InsertsFirst'
    BY <1>a, <1>b, <2>1 DEF InsertsFirst, Open
  <2>4. HeldIsOpen'
    BY <1>a, <1>b DEF HeldIsOpen
  <2> QED  BY <2>2, <2>3, <2>4 DEF CInv
\* What accepts an open code holds it.
<1>c. ASSUME NEW c \in Challenges, challenge[c].open, UNCHANGED challenge,
             session'[s].at \in {"verify", "change"}, session'[s].challenge = c
      PROVE  CInv'
  <2>1. Single'
    BY <1>c DEF CInv, Single
  <2>2. InsertsFirst' /\ HeldIsOpen'
    BY <1>a, <1>c DEF InsertsFirst, HeldIsOpen
  <2> QED  BY <2>1, <2>2 DEF CInv
<1>1. CASE StartForgot(s)
  <2>1. session'[s] = [Idle EXCEPT !.at = "insert", !.use = "forgot"]
    BY <1>1, <1>a DEF StartForgot, Serve
  <2>2. session'[s].at = "insert" /\ session'[s].use = "forgot"
    BY <2>1 DEF Idle
  <2>3. Consume(Open("forgot") \cup Open("change"))
    BY <1>1 DEF StartForgot
  <2> QED  BY <1>b, <2>2, <2>3
<1>2. ASSUME NEW p \in Secrets, StartChange(s, p)
      PROVE  CInv'
  <2>1. session'[s] = [Idle EXCEPT !.at = "insert", !.use = "change", !.new = p]
    BY <1>2, <1>a DEF StartChange, Serve
  <2>2. session'[s].at = "insert" /\ session'[s].use = "change"
    BY <2>1 DEF Idle
  <2>3. Consume(Open("change"))
    BY <1>2 DEF StartChange
  <2> QED  BY <1>b, <2>2, <2>3
<1>3. ASSUME NEW c \in Challenges, Verify(s, c)
      PROVE  CInv'
  <2>1. session'[s] = [Idle EXCEPT !.at = "verify", !.challenge = c]
    BY <1>3, <1>a DEF Verify, Serve
  <2>2. session'[s].at = "verify" /\ session'[s].challenge = c
    BY <2>1 DEF Idle
  <2> QED  BY <1>3, <1>c, <2>2 DEF Verify, Usable
<1>4. ASSUME NEW c \in Challenges, Complete(s, c)
      PROVE  CInv'
  <2>1. session'[s] = [Idle EXCEPT !.at = "change", !.challenge = c,
                                   !.new = challenge[c].new, !.seen = mustChange]
    BY <1>4, <1>a DEF Complete, Serve
  <2>2. session'[s].at = "change" /\ session'[s].challenge = c
    BY <2>1 DEF Idle
  <2> QED  BY <1>4, <1>c, <2>2 DEF Complete, Usable
<1>5. ASSUME NEW r \in Requests \cup {None}, NEW p \in Secrets, NEW must \in BOOLEAN,
             AdminReset(s, r, p, must)
      PROVE  CInv'
  <2>1. session'[s] = [Idle EXCEPT !.at = "reset", !.request = r, !.new = p,
                                   !.seen = mustChange, !.must = must]
    BY <1>5, <1>a DEF AdminReset, Serve
  <2>2. session'[s].at = "reset" /\ UNCHANGED challenge
    BY <1>5, <2>1 DEF Idle, AdminReset
  <2> QED  BY <2>2, NothingOpened
<1>6. ASSUME NEW r \in Requests, NEW to \in {"completed", "rejected"}, Resolve(s, r, to)
      PROVE  CInv'
  <2>1. session'[s] = [Idle EXCEPT !.at = "resolve", !.request = r, !.to = to]
    BY <1>6, <1>a DEF Resolve, Serve
  <2>2. session'[s].at = "resolve" /\ UNCHANGED challenge
    BY <1>6, <2>1 DEF Idle, Resolve
  <2> QED  BY <2>2, NothingOpened
<1> QED  BY <1>1, <1>2, <1>3, <1>4, <1>5, <1>6 DEF Arrive

LEMMA ProceedCounts ==
  ASSUME OneHandler, CInv, TInv', NEW s \in Sessions, Proceed(s)
  PROVE  CInv'
<1>a. /\ TInv /\ session \in [Sessions -> Session] /\ \A t \in Sessions : t = s
      /\ challenge \in [Challenges -> Challenge] /\ Knows(s)
  BY DEF CInv, TInv, TypeOK, OneHandler, HandlersKnow
<1>b. ASSUME NEW C, Consume(C), End(s)
      PROVE  CInv'
  BY <1>a, <1>b, ConsumeCloses, EndIs, NothingOpened
<1>1. ASSUME NEW c \in Challenges, Insert(s, c)
      PROVE  CInv'
  <2> DEFINE n == [NoChallenge EXCEPT !.use = session[s].use, !.totp = mfa, !.open = TRUE,
                                      !.new = session[s].new]
  <2>1. n.use = session[s].use
    BY DEF NoChallenge
  <2>2. challenge' = [challenge EXCEPT ![c] = n] /\ session[s].at = "insert"
    BY <1>1 DEF Insert, At
  <2> HIDE DEF n
  <2>3. challenge'[c].use = session[s].use /\ \A d \in Challenges : d # c => challenge'[d] = challenge[d]
    BY <1>a, <2>1, <2>2
  <2>4. \A d \in Challenges : challenge[d].open => challenge[d].use # session[s].use
    BY <2>2 DEF CInv, InsertsFirst
  <2>5. Single'
    BY <2>3, <2>4 DEF CInv, Single
  <2>6. session'[s].at \in {"idle", "mail"}
    <3>1. CASE mfa
      BY <1>1, <1>a, <3>1, IdleIs DEF Insert
    <3>2. CASE ~mfa
      <4>1. session'[s] = [session[s] EXCEPT !.at = "mail", !.challenge = c]
        BY <1>1, <1>a, <3>2 DEF Insert
      <4>2. session[s] \in Session
        BY <1>a
      <4> QED  BY <4>1, <4>2 DEF Session
    <3> QED  BY <3>1, <3>2
  <2>7. InsertsFirst' /\ HeldIsOpen'
    BY <1>a, <2>6 DEF InsertsFirst, HeldIsOpen
  <2> QED  BY <2>5, <2>7 DEF CInv
<1>2. CASE Mail(s)
  <2> DEFINE c == session[s].challenge
  <2>1. c \in Challenges /\ End(s)
    BY <1>2, <1>a DEF Mail, At, Knows
  <2>2. \/ challenge' = [challenge EXCEPT ![c].mailed = TRUE]
        \/ Consume({c})
    BY <1>2 DEF Mail
  <2> HIDE DEF c
  <2>3. CASE challenge' = [challenge EXCEPT ![c].mailed = TRUE]
    <3>1. \A e \in Challenges :
            challenge'[e].use = challenge[e].use /\ challenge'[e].open = challenge[e].open
      BY <1>a, <2>1, <2>3 DEF Challenge
    <3>2. session'[s].at = "idle"
      BY <1>a, <2>1, EndIs
    <3> QED  BY <3>1, <3>2, NothingOpened
  <2>4. CASE Consume({c})
    BY <1>b, <2>1, <2>4
  <2> QED  BY <2>2, <2>3, <2>4
<1>3. ASSUME NEW r \in Requests, MakeRequest(s, r)
      PROVE  CInv'
  <2> DEFINE c == session[s].challenge
  <2>1. session'[s] = [Idle EXCEPT !.at = "notify", !.request = r] /\ Consume({c})
    BY <1>3, <1>a DEF MakeRequest
  <2>2. session'[s].at = "notify"
    BY <2>1 DEF Idle
  <2> QED  BY <1>a, <2>1, <2>2, ConsumeCloses, NothingOpened
<1>4. CASE Notify(s) \/ Reset(s) \/ Decide(s)
  <2>1. UNCHANGED challenge /\ End(s)
    BY <1>4 DEF Notify, Reset, Decide
  <2> QED  BY <1>a, <2>1, EndIs, NothingOpened
<1>5. CASE Change(s)
  BY <1>5, <1>b DEF Change
<1> QED  BY <1>1, <1>2, <1>3, <1>4, <1>5 DEF Proceed

LEMMA OthersCount ==
  ASSUME OneHandler, CInv, TInv',
         Elapse \/ SwitchMfa \/ Task \/ ReminderDies \/ \E s \in Sessions : Die(s)
  PROVE  CInv'
<1>a. TInv /\ challenge \in [Challenges -> Challenge]
  BY DEF CInv, TInv, TypeOK
<1>1. ASSUME NEW c \in Challenges, Expire(c)
      PROVE  CInv'
  <2>1. challenge' = [challenge EXCEPT ![c].expired = TRUE] /\ UNCHANGED session
    BY <1>1 DEF Expire
  <2>2. \A e \in Challenges :
          challenge'[e].use = challenge[e].use /\ challenge'[e].open = challenge[e].open
    BY <1>a, <2>1 DEF Challenge
  <2> QED  BY <2>1, <2>2, HandlerUntouched
<1>2. ASSUME NEW s \in Sessions, Die(s)
      PROVE  CInv'
  <2>1. End(s) /\ UNCHANGED challenge
    BY <1>2 DEF Die
  <2> QED  BY <1>a, <2>1, EndIs, NothingOpened
<1>3. ASSUME SwitchMfa \/ Task \/ ReminderDies \/ \E r \in Requests : HourPasses(r)
      PROVE  CInv'
  <2>1. UNCHANGED <<challenge, session>>
    BY <1>3 DEF SwitchMfa, Task, Remind, Mark, Emit, ReminderDies, HourPasses
  <2> QED  BY <2>1, HandlerUntouched
<1> QED  BY <1>1, <1>2, <1>3 DEF Elapse

LEMMA CInvInit == Init => CInv
<1> SUFFICES ASSUME Init PROVE CInv
  OBVIOUS
<1>1. ~NoChallenge.open
  BY DEF NoChallenge
<1>2. Single /\ InsertsFirst /\ HeldIsOpen
  BY <1>1, IdleIs DEF Init, Single, InsertsFirst, HeldIsOpen
<1> QED  BY <1>2, TInvInit DEF CInv

LEMMA CInvStep ==
  ASSUME OneHandler
  PROVE  CInv /\ [Next]_vars => CInv'
<1> SUFFICES ASSUME CInv, [Next]_vars PROVE CInv'
  OBVIOUS
<1>1. TInv'
  BY TInvStep DEF CInv
<1>2. CASE UNCHANGED vars
  BY <1>1, <1>2, HandlerUntouched DEF vars
<1> QED  BY <1>1, <1>2, ArriveCounts, ProceedCounts, OthersCount DEF Next

(***************************************************************************)
(* With one handler at a time a code replaces the one of its kind before.  *)
(***************************************************************************)
THEOREM OnlyLatestCode ==
  ASSUME OneHandler
  PROVE  Spec => []LatestCodeOnly
<1>1. CInv => LatestCodeOnly
  <2> SUFFICES ASSUME CInv, NEW use \in {"forgot", "change"}
               PROVE  Cardinality(Open(use)) <= 1
    BY DEF LatestCodeOnly
  <2>1. CASE Open(use) = {}
    BY <2>1, FS_EmptySet
  <2>2. ASSUME NEW c \in Open(use)
        PROVE  Cardinality(Open(use)) <= 1
    <3>1. Open(use) = {c}
      BY <2>2 DEF CInv, Single, Open
    <3> QED  BY <3>1, FS_Singleton
  <2> QED  BY <2>1, <2>2
<1> QED  BY <1>1, CInvInit, CInvStep, PTL DEF Spec

\* A request comes from a handler that has met its challenge.
LEMMA RequestsComeFrom ==
  ASSUME TInv, [Next]_vars, NEW r \in Requests, request[r].status = "none", Pending(r)'
  PROVE  \E s \in Sessions : MakeRequest(s, r)
<1>a. request \in [Requests -> Request]
  BY DEF TInv, TypeOK
<1>b. request'[r] # request[r] /\ request'[r].status = "pending"
  BY DEF Pending
<1>1. CASE UNCHANGED request
  BY <1>1, <1>b
<1>2. ASSUME NEW q \in Requests, HourPasses(q)
      PROVE  FALSE
  <2>1. request'[r].status = request[r].status
    BY <1>2, <1>a DEF HourPasses, Request
  <2> QED  BY <2>1, <1>b
<1>3. CASE Mark
  <2>1. request[r] \in Request
    BY <1>a
  <2>2. request'[r] = IF r \in reminder.todo THEN [request[r] EXCEPT !.due = FALSE] ELSE request[r]
    BY <1>3 DEF Mark
  <2>3. request'[r] = [request[r] EXCEPT !.due = FALSE]
    BY <2>2, <1>b
  <2>4. request'[r].status = request[r].status
    BY <2>1, <2>3 DEF Request
  <2> QED  BY <2>4, <1>b
<1>4. ASSUME NEW s \in Sessions, NEW q \in Requests, MakeRequest(s, q), q # r
      PROVE  FALSE
  BY <1>4, <1>a, <1>b DEF MakeRequest
<1>5. ASSUME NEW s \in Sessions, Reset(s)
      PROVE  FALSE
  <2> DEFINE q == session[s].request
  <2>1. request' = request \/ request' = [request EXCEPT ![q].status = "completed"]
    BY <1>5 DEF Reset
  <2> HIDE DEF q
  <2>2. request' = [request EXCEPT ![q].status = "completed"]
    BY <2>1, <1>b
  <2>3. request'[r] = request[r] \/ request'[r].status = "completed"
    BY <2>2, <1>a DEF Request
  <2> QED  BY <2>3, <1>b
<1>6. ASSUME NEW s \in Sessions, Decide(s)
      PROVE  FALSE
  <2> DEFINE q == session[s].request
             to == session[s].to
  <2>1. request' = [request EXCEPT ![q].status = to] /\ to \in {"completed", "rejected"}
    BY <1>6, SessionTyped DEF Decide, At, Knows
  <2> HIDE DEF q, to
  <2>2. request'[r] = request[r] \/ request'[r].status = to
    BY <2>1, <1>a DEF Request
  <2> QED  BY <2>1, <2>2, <1>b
<1>7. ASSUME NEW s \in Sessions, Arrive(s)
      PROVE  UNCHANGED request
  BY <1>7 DEF Arrive, StartForgot, StartChange, Verify, Complete, AdminReset, Resolve
<1>8. ASSUME NEW s \in Sessions, Proceed(s)
      PROVE  UNCHANGED request \/ Reset(s) \/ Decide(s) \/ \E q \in Requests : MakeRequest(s, q)
  BY <1>8 DEF Proceed, Insert, Mail, Notify, Change
<1>9. ASSUME SwitchMfa \/ Remind \/ ReminderDies \/ (\E q \in Requests : Emit(q))
               \/ (\E c \in Challenges : Expire(c)) \/ \E s \in Sessions : Die(s)
      PROVE  UNCHANGED request
  BY <1>9 DEF SwitchMfa, Remind, ReminderDies, Emit, Expire, Die
<1>10. CASE UNCHANGED vars
  BY <1>1, <1>10 DEF vars
<1> QED  BY <1>1, <1>2, <1>3, <1>4, <1>5, <1>6, <1>7, <1>8, <1>9, <1>10 DEF Next, Elapse, Task

(***************************************************************************)
(* With one handler at a time each request to the masters and each change  *)
(* of password is owed to a code that was open: none counts twice, none    *)
(* after it was replaced.                                                  *)
(***************************************************************************)
THEOREM CodesOnlyOnce ==
  ASSUME OneHandler
  PROVE  Spec => CodesCountOnce
<1> DEFINE Counts ==
      /\ \A r \in Requests : request[r].status = "none" /\ Pending(r)' =>
           challenge[request'[r].by].open
      /\ \A s \in Sessions : At(s, "change") /\ password' # password =>
           challenge[session[s].challenge].open
<1>1. CInv /\ [Next]_vars => Counts
  <2> SUFFICES ASSUME CInv, [Next]_vars PROVE Counts
    OBVIOUS
  <2>1. ASSUME NEW r \in Requests, request[r].status = "none", Pending(r)'
        PROVE  challenge[request'[r].by].open
    <3>1. PICK s \in Sessions : MakeRequest(s, r)
      BY <2>1, RequestsComeFrom DEF CInv
    <3>2. request'[r] = [NoRequest EXCEPT !.status = "pending", !.by = session[s].challenge]
      BY <3>1 DEF MakeRequest, CInv, TInv, TypeOK
    <3>3. request'[r].by = session[s].challenge
      BY <3>2 DEF NoRequest
    <3> QED  BY <3>1, <3>3 DEF MakeRequest, At, CInv, HeldIsOpen
  <2>2. \A s \in Sessions : At(s, "change") => challenge[session[s].challenge].open
    BY DEF At, CInv, HeldIsOpen
  <2> QED  BY <2>1, <2>2
<1> QED  BY <1>1, CInvInit, CInvStep, PTL DEF Spec, CodesCountOnce
=============================================================================
