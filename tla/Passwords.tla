------------------------------ MODULE Passwords ------------------------------
(***************************************************************************)
(* How the password of an account changes.  A signed-in user presents the  *)
(* old one, then a code; one who forgot it gives a code and so makes a     *)
(* request to the masters, who reset the password or refuse; a master may  *)
(* also reset it unasked.  The codes are challenges of one table, that are *)
(* replaced, expire, and are consumed.  An hourly task reminds the masters *)
(* of the requests that are pending.                                       *)
(*                                                                         *)
(* A handler reads, decides and commits: others may commit in between, and *)
(* only the columns whose value it changed are written.                    *)
(***************************************************************************)
EXTENDS Naturals, FiniteSets

CONSTANTS
  Secrets,     \* passwords
  Challenges,  \* rows of password_reset_challenges
  Requests,    \* rows of password_reset_requests
  Sessions,    \* requests to the API that are served at the same time
  None

ASSUME PasswordsAssumption == None \notin Secrets \cup Challenges \cup Requests

VARIABLES
  password, mustChange, mfa,  \* the account
  challenge,
  request,
  session,    \* what the handlers are at
  reminder,   \* what the hourly task is at
  told        \* history: requests the masters heard of

account == <<password, mustChange, mfa>>
vars == <<account, challenge, request, session, reminder, told>>

\* totp: to be met with the authenticator, otherwise with a code in a mail;
\* new: the pending password; open: not consumed.
Challenge == [use : {"none", "forgot", "change"}, totp : BOOLEAN,
              new : Secrets \cup {None},
              open : BOOLEAN, expired : BOOLEAN, mailed : BOOLEAN]

NoChallenge == [use |-> "none", totp |-> FALSE, new |-> None,
                open |-> FALSE, expired |-> FALSE, mailed |-> FALSE]

\* by: the challenge that was met; due: an hour since the last reminder.
Request == [status : {"none", "pending", "completed", "rejected"},
            by : Challenges \cup {None}, due : BOOLEAN]

NoRequest == [status |-> "none", by |-> None, due |-> FALSE]

\* new: the new password; must: what is to become of mustChange;
\* seen: what it was; to: the decision on the request.
Session == [at : {"idle", "insert", "mail", "verify", "notify", "change", "reset", "resolve"},
            use : {"none", "forgot", "change"},
            challenge : Challenges \cup {None}, request : Requests \cup {None},
            new : Secrets \cup {None},
            seen : BOOLEAN, must : BOOLEAN, to : {"none", "completed", "rejected"}]

Idle == [at |-> "idle", use |-> "none", challenge |-> None, request |-> None,
         new |-> None, seen |-> FALSE, must |-> FALSE, to |-> "none"]

Resting == [at |-> "rest", todo |-> {}]

TypeOK ==
  /\ password \in Secrets
  /\ mustChange \in BOOLEAN
  /\ mfa \in BOOLEAN
  /\ challenge \in [Challenges -> Challenge]
  /\ request \in [Requests -> Request]
  /\ session \in [Sessions -> Session]
  /\ reminder \in [at : {"rest", "mark", "emit"}, todo : SUBSET Requests]
  /\ told \subseteq Requests

\* users.password_must_change of an account a master made.
Init ==
  /\ password \in Secrets
  /\ mustChange \in BOOLEAN
  /\ mfa \in BOOLEAN
  /\ challenge = [c \in Challenges |-> NoChallenge]
  /\ request = [r \in Requests |-> NoRequest]
  /\ session = [s \in Sessions |-> Idle]
  /\ reminder = Resting
  /\ told = {}

At(s, at) == session[s].at = at
Serve(s, work) == At(s, "idle") /\ session' = [session EXCEPT ![s] = work]
End(s) == session' = [session EXCEPT ![s] = Idle]

Pending(r) == request[r].status = "pending"

-----------------------------------------------------------------------------
(* Challenges are made *)

Consume(C) ==
  challenge' = [c \in Challenges |->
    IF c \in C THEN [challenge[c] EXCEPT !.open = FALSE] ELSE challenge[c]]

Open(use) == {c \in Challenges : challenge[c].open /\ challenge[c].use = use}

\* POST /password-reset-request/start: what is open is consumed, with a commit.
StartForgot(s) ==
  /\ Serve(s, [Idle EXCEPT !.at = "insert", !.use = "forgot"])
  /\ Consume(Open("forgot") \cup Open("change"))
  /\ UNCHANGED <<account, request, reminder, told>>

\* Mutant: an earlier change stays open.
StartChangeBeside(s, p) ==
  /\ p # password
  /\ Serve(s, [Idle EXCEPT !.at = "insert", !.use = "change", !.new = p])
  /\ UNCHANGED <<account, challenge, request, reminder, told>>

\* POST /me/change-password/start, with the right current password.
StartChange(s, p) ==
  /\ p # password
  /\ Serve(s, [Idle EXCEPT !.at = "insert", !.use = "change", !.new = p])
  /\ Consume(Open("change"))
  /\ UNCHANGED <<account, request, reminder, told>>

Insert(s, c) ==
  /\ At(s, "insert")
  /\ challenge[c].use = "none"
  /\ challenge' = [challenge EXCEPT ![c] =
       [NoChallenge EXCEPT !.use = session[s].use, !.totp = mfa, !.open = TRUE,
                           !.new = session[s].new]]
  /\ session' = [session EXCEPT ![s] =
       IF mfa THEN Idle ELSE [@ EXCEPT !.at = "mail", !.challenge = c]]
  /\ UNCHANGED <<account, request, reminder, told>>

\* The code is mailed; if that fails the challenge is consumed.
Mail(s) ==
  LET c == session[s].challenge IN
  /\ At(s, "mail")
  /\ \/ challenge' = [challenge EXCEPT ![c].mailed = TRUE]
     \/ Consume({c})
  /\ End(s)
  /\ UNCHANGED <<account, request, reminder, told>>

-----------------------------------------------------------------------------
(* Challenges are met *)

\* Mutant: consumed is not looked at.
UsableAgain(c, use) ==
  /\ challenge[c].use = use /\ ~challenge[c].expired
  /\ IF challenge[c].totp THEN mfa ELSE challenge[c].mailed

\* c is there to be met and the user has the code.
Usable(c, use) ==
  /\ challenge[c].use = use /\ challenge[c].open /\ ~challenge[c].expired
  /\ IF challenge[c].totp THEN mfa ELSE challenge[c].mailed

\* POST /password-reset-request/verify ...
Verify(s, c) ==
  /\ Usable(c, "forgot")
  /\ Serve(s, [Idle EXCEPT !.at = "verify", !.challenge = c])
  /\ UNCHANGED <<account, challenge, request, reminder, told>>

\* ... its commit ...
MakeRequest(s, r) ==
  LET c == session[s].challenge IN
  /\ At(s, "verify")
  /\ request[r].status = "none"
  /\ Consume({c})
  /\ request' = [request EXCEPT ![r] = [NoRequest EXCEPT !.status = "pending", !.by = c]]
  /\ session' = [session EXCEPT ![s] = [Idle EXCEPT !.at = "notify", !.request = r]]
  /\ UNCHANGED <<account, reminder, told>>

\* ... and the notification.
Notify(s) ==
  /\ At(s, "notify")
  /\ told' = told \cup {session[s].request}
  /\ End(s)
  /\ UNCHANGED <<account, challenge, request, reminder>>

\* POST /me/change-password/complete
Complete(s, c) ==
  /\ Usable(c, "change")
  /\ Serve(s, [Idle EXCEPT !.at = "change", !.challenge = c, !.new = challenge[c].new,
                           !.seen = mustChange])
  /\ UNCHANGED <<account, challenge, request, reminder, told>>

\* A column is written if its value is new to the session.
Written(now, seen, new) == IF new = seen THEN now ELSE new

Change(s) ==
  /\ At(s, "change")
  /\ Consume({session[s].challenge})
  /\ password' = session[s].new
  /\ mustChange' = Written(mustChange, session[s].seen, FALSE)
  /\ End(s)
  /\ UNCHANGED <<mfa, request, reminder, told>>

\* Ten minutes are over (of a challenge that is still worth something).
Expire(c) ==
  /\ challenge[c].open /\ ~challenge[c].expired
  /\ challenge' = [challenge EXCEPT ![c].expired = TRUE]
  /\ UNCHANGED <<account, request, session, reminder, told>>

\* POST /mfa/activate, POST /mfa/disable
SwitchMfa ==
  /\ mfa' = ~mfa
  /\ UNCHANGED <<password, mustChange, challenge, request, session, reminder, told>>

-----------------------------------------------------------------------------
(* The masters *)

\* POST /users/{id}/reset-password, without request, and
\* POST /users/password-reset-requests/{id}/reset-password
AdminReset(s, r, p, must) ==
  /\ r # None => Pending(r)
  /\ Serve(s, [Idle EXCEPT !.at = "reset", !.request = r, !.new = p,
                           !.seen = mustChange, !.must = must])
  /\ UNCHANGED <<account, challenge, request, reminder, told>>

Reset(s) ==
  LET r == session[s].request IN
  /\ At(s, "reset")
  /\ password' = session[s].new
  /\ mustChange' = Written(mustChange, session[s].seen, session[s].must)
  /\ request' = IF r = None THEN request
                ELSE [request EXCEPT ![r].status = "completed"]
  /\ End(s)
  /\ UNCHANGED <<mfa, challenge, reminder, told>>

\* POST /users/password-reset-requests/{id}/resolve
Resolve(s, r, to) ==
  /\ Pending(r)
  /\ Serve(s, [Idle EXCEPT !.at = "resolve", !.request = r, !.to = to])
  /\ UNCHANGED <<account, challenge, request, reminder, told>>

\* Mutant: a status nobody knows.
DecideRefused(s) ==
  /\ At(s, "resolve")
  /\ request' = [request EXCEPT ![session[s].request].status = "refused"]
  /\ End(s)
  /\ UNCHANGED <<account, challenge, reminder, told>>

\* The UPDATE names the row by its id alone.
Decide(s) ==
  /\ At(s, "resolve")
  /\ request' = [request EXCEPT ![session[s].request].status = session[s].to]
  /\ End(s)
  /\ UNCHANGED <<account, challenge, reminder, told>>

\* The handler dies with its worker.
Die(s) ==
  /\ ~At(s, "idle")
  /\ End(s)
  /\ UNCHANGED <<account, challenge, request, reminder, told>>

-----------------------------------------------------------------------------
(* The hourly reminder *)

HourPasses(r) ==
  /\ Pending(r) /\ ~request[r].due
  /\ request' = [request EXCEPT ![r].due = TRUE]
  /\ UNCHANGED <<account, challenge, session, reminder, told>>

Remind ==
  LET due == {r \in Requests : Pending(r) /\ request[r].due} IN
  /\ reminder = Resting
  /\ due # {}
  /\ reminder' = [at |-> "mark", todo |-> due]
  /\ UNCHANGED <<account, challenge, request, session, told>>

\* Mutant: the notifications after the commit are forgotten.
MarkSilently ==
  /\ reminder.at = "mark"
  /\ request' = [r \in Requests |->
       IF r \in reminder.todo THEN [request[r] EXCEPT !.due = FALSE] ELSE request[r]]
  /\ reminder' = Resting
  /\ UNCHANGED <<account, challenge, session, told>>

\* The commit of last_master_reminder_at comes before the notifications.
Mark ==
  /\ reminder.at = "mark"
  /\ request' = [r \in Requests |->
       IF r \in reminder.todo THEN [request[r] EXCEPT !.due = FALSE] ELSE request[r]]
  /\ reminder' = [reminder EXCEPT !.at = "emit"]
  /\ UNCHANGED <<account, challenge, session, told>>

Emit(r) ==
  /\ reminder.at = "emit"
  /\ r \in reminder.todo
  /\ told' = told \cup {r}
  /\ reminder' = IF reminder.todo = {r} THEN Resting ELSE [reminder EXCEPT !.todo = @ \ {r}]
  /\ UNCHANGED <<account, challenge, request, session>>

ReminderDies ==
  /\ reminder # Resting
  /\ reminder' = Resting
  /\ UNCHANGED <<account, challenge, request, session, told>>

-----------------------------------------------------------------------------
Arrive(s) ==
  \/ StartForgot(s)
  \/ \E p \in Secrets : StartChange(s, p)
  \/ \E c \in Challenges : Verify(s, c) \/ Complete(s, c)
  \/ \E r \in Requests \cup {None}, p \in Secrets, must \in BOOLEAN : AdminReset(s, r, p, must)
  \/ \E r \in Requests, to \in {"completed", "rejected"} : Resolve(s, r, to)

Proceed(s) ==
  \/ \E c \in Challenges : Insert(s, c)
  \/ Mail(s)
  \/ \E r \in Requests : MakeRequest(s, r)
  \/ Notify(s)
  \/ Change(s)
  \/ Reset(s)
  \/ Decide(s)

Elapse == (\E c \in Challenges : Expire(c)) \/ (\E r \in Requests : HourPasses(r))

Task == Remind \/ Mark \/ \E r \in Requests : Emit(r)

Next ==
  \/ \E s \in Sessions : Arrive(s) \/ Proceed(s) \/ Die(s)
  \/ Elapse \/ SwitchMfa
  \/ Task \/ ReminderDies

Spec == Init /\ [][Next]_vars

(***************************************************************************)
(* Hours pass and beat starts the reminder every hour.  It may die, but    *)
(* not each time before it comes to a request that is always pending.      *)
(***************************************************************************)
Hourly ==
  /\ \A r \in Requests : WF_vars(HourPasses(r)) /\ SF_vars(Emit(r))
  /\ WF_vars(Remind)
  /\ SF_vars(Mark)

FairSpec == Spec /\ Hourly

-----------------------------------------------------------------------------
(* Properties *)

(***************************************************************************)
(* The masters hear of every request that stays pending: if the handler    *)
(* dies between the commit of the request and the notification, or the     *)
(* task between its commit and the reminder, a later hour makes up for it. *)
(* There is an active master to tell: without one nobody is.               *)
(***************************************************************************)
PendingIsTold == \A r \in Requests : Pending(r) ~> (r \in told \/ ~Pending(r))

(***************************************************************************)
(* With one handler at a time only the latest code of its kind is open.    *)
(***************************************************************************)
LatestCodeOnly == \A use \in {"forgot", "change"} : Cardinality(Open(use)) <= 1

(***************************************************************************)
(* With one handler at a time a code that was used or replaced is worth    *)
(* nothing: a request to the masters, or a new password of the user's, is  *)
(* that of an open challenge.                                              *)
(***************************************************************************)
CodesCountOnce ==
  [][/\ \A r \in Requests : request[r].status = "none" /\ Pending(r)' =>
          challenge[request'[r].by].open
     /\ \A s \in Sessions : At(s, "change") /\ password' # password =>
          challenge[session[s].challenge].open]_vars
=============================================================================
