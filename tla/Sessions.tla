------------------------------ MODULE Sessions ------------------------------
(***************************************************************************)
(* internal/account: refresh sessions and the browsers that hold their     *)
(* cookies.  A request travels, samples now, takes its row locks, commits  *)
(* and is answered; meanwhile other requests do the same, and an answer    *)
(* may be lost.                                                            *)
(*                                                                         *)
(* The random tokens of one session are numbered in the order they are     *)
(* issued: <<s, n>> is the token n of session s, and no two are equal.     *)
(***************************************************************************)
EXTENDS Integers, FiniteSets

CONSTANTS
  Users, Browsers, Conns,
  Sessions,      \* bound: ids of sessions, created or not
  None,          \* SQL NULL, a missing row, or no cookie
  UserOf,        \* the user who logs in with each browser
  Window,        \* REFRESH_RETRY_WINDOW
  Lifetime,      \* REFRESH_TTL
  MaxLost,       \* bound: refreshes in a row whose answer a browser does not get
  MaxTokens,     \* bound: tokens issued in one session
  LastInstant    \* bound of the clock

ASSUME SessionsAssumption ==
  /\ UserOf \in [Browsers -> Users]
  /\ Window \in Nat \ {0} /\ Lifetime \in Nat \ {0}
  /\ MaxLost \in Nat /\ MaxTokens \in Nat /\ LastInstant \in Nat
  /\ IsFiniteSet(Conns)

VARIABLES
  clock,
  banned,     \* users whose status is 'banned'
  session,    \* the table sessions
  request,    \* the request each connection serves
  locked,     \* the rows its transaction has locked
  cookie,     \* refresh_token of each browser
  waiting,    \* the connection whose answer a browser waits for
  lost,       \* refreshes in a row whose answer the browser did not get
  impatient   \* history: the browsers that stopped waiting for a refresh under way

browser == <<cookie, waiting, lost, impatient>>
vars == <<clock, banned, session, request, locked, browser>>

Token == Sessions \X (0..MaxTokens)
Row == [user: Users, token: 0..MaxTokens, previous: (0..MaxTokens) \cup {None},
        validUntil: Nat \cup {None}, expires: Nat, revoked: BOOLEAN, oauth: BOOLEAN]

ASSUME NoneAssumption == None \notin Row \cup Token \cup Nat \cup Conns \cup Browsers

Idle == [step |-> "idle"]
Request ==
  [op: {"login", "oauth", "refresh", "logout", "ban", "unban"},
   step: {"sent", "begun", "locked", "reply"},
   browser: Browsers \cup {None}, user: Users \cup {None}, now: Nat,
   token: Token \cup {None}, missed: Nat]   \* missed: lost[browser] when it was sent

Init ==
  /\ clock = 0
  /\ banned = {}
  /\ session = [s \in Sessions |-> None]
  /\ request = [k \in Conns |-> Idle]
  /\ locked = [k \in Conns |-> {}]
  /\ cookie = [b \in Browsers |-> None]
  /\ waiting = [b \in Browsers |-> None]
  /\ lost = [b \in Browsers |-> 0]
  /\ impatient = {}

Tick == clock < LastInstant /\ clock' = clock + 1
        /\ UNCHANGED <<banned, session, request, locked, browser>>

-----------------------------------------------------------------------------
(* Requests. *)

Send(k, op, b, u, token) ==
  /\ request[k] = Idle
  /\ request' = [request EXCEPT ![k] =
       [op |-> op, step |-> "sent", browser |-> b, user |-> u, now |-> 0, token |-> token,
        missed |-> IF b = None THEN 0 ELSE lost[b]]]
  /\ UNCHANGED <<clock, banned, session, locked, cookie, lost, impatient>>

InFlight(op) == {k \in Conns : request[k] # Idle /\ request[k].op = op}

\* A frontend has one refresh running at a time, and begins none while it logs out.  Bound: the
\* session has tokens left.
SendRefresh(k, b) ==
  /\ cookie[b] # None
  /\ waiting[b] = None
  /\ \A j \in InFlight("logout") : request[j].browser # b
  /\ session[cookie[b][1]].token + Cardinality(InFlight("refresh")) < MaxTokens
  /\ Send(k, "refresh", b, None, cookie[b])
  /\ waiting' = [waiting EXCEPT ![b] = k]

\* A user may log out while a refresh is running.
SendLogout(k, b) ==
  /\ cookie[b] # None
  /\ Send(k, "logout", b, None, cookie[b])
  /\ UNCHANGED waiting

\* Bound: a session is left.
SendLogin(k, b, op) ==
  /\ cookie[b] = None
  /\ waiting[b] = None
  /\ Cardinality({s \in Sessions : session[s] = None})
       > Cardinality(InFlight("login") \cup InFlight("oauth"))
  /\ Send(k, op, b, UserOf[b], None)
  /\ waiting' = [waiting EXCEPT ![b] = k]

SendStatus(k, u, op) ==
  /\ Send(k, op, None, u, None)
  /\ UNCHANGED waiting

\* The handler samples now and sends its first statement.
Arrive(k) ==
  /\ request[k].step = "sent"
  /\ request' = [request EXCEPT ![k].step = "begun", ![k].now = clock]
  /\ UNCHANGED <<clock, banned, session, locked, browser>>

-----------------------------------------------------------------------------
(* Statements. *)

Free(k, rows) == \A j \in Conns \ {k} : rows \cap locked[j] = {}

\* Variant: only the current token is revoked by a logout.
IsCurrent(s, token) == session[s] # None /\ token[1] = s /\ token[2] = session[s].token

\* The session whose current or previous token is presented, whatever the time.
Presents(s, token) ==
  session[s] # None /\ token[1] = s /\ token[2] \in {session[s].token, session[s].previous}

\* Variant: the token that a rotation replaced is forgotten at once.
AcceptedOnce(s, now) == {session[s].token}

\* RotateSession's WHERE: the previous token counts within the window only.
Accepted(s, now) ==
  {session[s].token} \cup {n \in {session[s].previous} : n # None /\ session[s].validUntil >= now}

Matches(s, r) == session[s] # None /\ r.token[1] = s /\ r.token[2] \in Accepted(s, r.now)

Live(s) == session[s] # None /\ ~session[s].revoked

Renewable(s, r) == Matches(s, r) /\ Live(s) /\ session[s].expires > r.now

\* Variant: SELECT without FOR UPDATE.
LockNothing(k, row) ==
  /\ request' = [request EXCEPT ![k].step = "locked"]
  /\ UNCHANGED <<clock, banned, session, locked, browser>>

LockRow(k, row) ==
  /\ request' = [request EXCEPT ![k].step = "locked"]
  /\ locked' = [locked EXCEPT ![k] = {row}]
  /\ UNCHANGED <<clock, banned, session, browser>>

\* Commit and answer with a token, or None.
Answer(k, token) ==
  /\ request' = [request EXCEPT ![k].step = "reply", ![k].now = 0, ![k].token = token]
  /\ locked' = [locked EXCEPT ![k] = {}]
  /\ UNCHANGED <<clock, browser>>

At(k, op, step) == request[k].step = step /\ request[k].op = op

\* RotateSession: SELECT ... FOR UPDATE and the checks of the row it returns.
LockSession(k) ==
  LET s == request[k].token[1]
  IN /\ At(k, "refresh", "begun")
     /\ Free(k, {s})
     /\ Renewable(s, request[k])
     /\ LockRow(k, s)

\* Variant: the window of the replaced token is not set.
RotatedWithoutWindow(row, now) ==
  [row EXCEPT !.previous = row.token, !.token = row.token + 1]

Rotated(row, now) ==
  [row EXCEPT !.previous = row.token, !.validUntil = now + Window, !.token = row.token + 1]

Rotate(k) ==
  LET s == request[k].token[1]
  IN /\ At(k, "refresh", "locked")
     /\ session' = [session EXCEPT ![s] = Rotated(@, request[k].now)]
     /\ Answer(k, <<s, session'[s].token>>)
     /\ UNCHANGED banned

\* ErrSessionNotFound: 401, and the cookie is cleared.
RefuseRefresh(k) ==
  LET s == request[k].token[1]
  IN /\ At(k, "refresh", "begun")
     /\ Matches(s, request[k]) => Free(k, {s})
     /\ ~Renewable(s, request[k])
     /\ Answer(k, None)
     /\ UNCHANGED <<banned, session>>

\* RevokeSession: one UPDATE, which waits for the row and looks at it again.
Logout(k) ==
  LET s == request[k].token[1]
  IN /\ At(k, "logout", "begun")
     /\ Presents(s, request[k].token) => Free(k, {s})
     /\ session' = IF Presents(s, request[k].token) /\ Live(s)
                   THEN [session EXCEPT ![s].revoked = TRUE] ELSE session
     /\ Answer(k, None)
     /\ UNCHANGED banned

\* Variant: the status of the account is not looked at.
AnyoneMayLogin(r) == r.user \in Users

MayLogin(r) == r.user \notin banned

\* CredentialService.Login: CredentialUser locks the user within the transaction.
LockCredentials(k) ==
  /\ At(k, "login", "begun")
  /\ Free(k, {request[k].user})
  /\ MayLogin(request[k])
  /\ LockRow(k, request[k].user)

RefuseLogin(k) ==
  /\ At(k, "login", "begun")
  /\ Free(k, {request[k].user})
  /\ ~MayLogin(request[k])
  /\ Answer(k, None)
  /\ UNCHANGED <<banned, session>>

\* CreateSession.  An OAuth login, whose account exists, inserts without reading the user; the
\* foreign key makes it wait for a lock of the user's row.  A password login samples the expiry
\* after its locks, an OAuth login before.
CreateSession(k) ==
  /\ At(k, "login", "locked") \/ (At(k, "oauth", "begun") /\ Free(k, {request[k].user}))
  /\ \E s \in Sessions :
       /\ session[s] = None
       /\ session' = [session EXCEPT ![s] =
            [user |-> request[k].user, token |-> 0, previous |-> None, validUntil |-> None,
             expires |-> Lifetime + IF request[k].op = "oauth" THEN request[k].now ELSE clock,
             revoked |-> FALSE, oauth |-> request[k].op = "oauth"]]
       /\ Answer(k, <<s, 0>>)
  /\ UNCHANGED banned

\* SetUserStatus locks the user, then updates the status and, for a ban, the sessions.
LockUser(k) ==
  /\ request[k].step = "begun" /\ request[k].op \in {"ban", "unban"}
  /\ Free(k, {request[k].user})
  /\ LockRow(k, request[k].user)

SessionsOf(u) == {s \in Sessions : Live(s) /\ session[s].user = u}

Ban(k) ==
  LET u == request[k].user
  IN /\ At(k, "ban", "locked")
     /\ Free(k, SessionsOf(u))
     /\ banned' = banned \cup {u}
     /\ session' = [s \in Sessions |->
          IF s \in SessionsOf(u) THEN [session[s] EXCEPT !.revoked = TRUE] ELSE session[s]]
     /\ Answer(k, None)

Unban(k) ==
  /\ At(k, "unban", "locked")
  /\ banned' = banned \ {request[k].user}
  /\ Answer(k, None)
  /\ UNCHANGED session

-----------------------------------------------------------------------------
(* Answers. *)

End(k) ==
  /\ request' = [request EXCEPT ![k] = Idle]
  /\ locked' = [locked EXCEPT ![k] = {}]
  /\ UNCHANGED <<clock, banned, session>>

NoLongerWaits(k) == [b \in Browsers |-> IF waiting[b] = k THEN None ELSE waiting[b]]

\* A refused login leaves the cookie alone, which is None then.
Deliver(k) ==
  LET b == request[k].browser
  IN /\ request[k].step = "reply"
     /\ b # None => waiting[b] = k \/ request[k].op = "logout"
     /\ cookie' = IF b = None THEN cookie ELSE [cookie EXCEPT ![b] = request[k].token]
     /\ lost' = IF b = None THEN lost ELSE [lost EXCEPT ![b] = 0]
     /\ waiting' = NoLongerWaits(k)
     /\ End(k)
     /\ UNCHANGED impatient

\* The answer does not reach the browser.
Lose(k) ==
  LET b == request[k].browser
  IN /\ At(k, "refresh", "reply")
     /\ lost[b] < MaxLost
     /\ waiting[b] = k
     /\ lost' = [lost EXCEPT ![b] = @ + 1]
     /\ waiting' = NoLongerWaits(k)
     /\ End(k)
     /\ UNCHANGED <<cookie, impatient>>

\* The browser stops waiting (its page is reloaded); the request goes on.
Abandon(k) ==
  LET b == request[k].browser
  IN /\ request[k] # Idle /\ request[k].op = "refresh"
     /\ lost[b] < MaxLost
     /\ waiting[b] = k
     /\ lost' = [lost EXCEPT ![b] = @ + 1]
     /\ waiting' = NoLongerWaits(k)
     /\ impatient' = impatient \cup {b}
     /\ UNCHANGED <<clock, banned, session, request, locked, cookie>>

\* Nobody waits for the answer any more.
Drop(k) ==
  /\ At(k, "refresh", "reply")
  /\ waiting[request[k].browser] # k
  /\ End(k)
  /\ UNCHANGED browser

\* An error or a rollback before the commit: the answer is a 500, which leaves the cookie.
Fail(k) ==
  /\ request[k].step \in {"sent", "begun", "locked"}
  /\ waiting' = NoLongerWaits(k)
  /\ End(k)
  /\ UNCHANGED <<cookie, lost, impatient>>

Begin(k) ==
  \/ \E b \in Browsers : SendRefresh(k, b) \/ SendLogout(k, b)
  \/ \E b \in Browsers, op \in {"login", "oauth"} : SendLogin(k, b, op)
  \/ \E u \in Users, op \in {"ban", "unban"} : SendStatus(k, u, op)

Serve(k) ==
  \/ Arrive(k) \/ LockSession(k) \/ Rotate(k) \/ RefuseRefresh(k) \/ Logout(k)
  \/ LockCredentials(k) \/ RefuseLogin(k) \/ CreateSession(k)
  \/ LockUser(k) \/ Ban(k) \/ Unban(k)

Next ==
  \/ Tick
  \/ \E k \in Conns : Begin(k) \/ Serve(k) \/ Deliver(k) \/ Lose(k) \/ Abandon(k) \/ Drop(k)
                        \/ Fail(k)

Spec == Init /\ [][Next]_vars

-----------------------------------------------------------------------------
(* Properties. *)

\* Tables, requests and cookies have the shape the code gives them; a row has a previous token
\* exactly when it has a window for it (chk_sessions_previous_token_pair).
TypeOK ==
  /\ clock \in 0..LastInstant
  /\ banned \subseteq Users
  /\ session \in [Sessions -> Row \cup {None}]
  /\ \A s \in Sessions : session[s] # None =>
       (session[s].previous = None <=> session[s].validUntil = None)
  /\ request \in [Conns -> Request \cup {Idle}]
  /\ locked \in [Conns -> SUBSET (Sessions \cup Users)]
  /\ cookie \in [Browsers -> Token \cup {None}]
  /\ waiting \in [Browsers -> Conns \cup {None}]
  /\ lost \in [Browsers -> 0..MaxLost]
  /\ impatient \subseteq Browsers

\* This step answers the first statement of operation op: a logout, or a refused refresh.
Answered(k, op) ==
  At(k, op, "begun") /\ request'[k] # Idle /\ request'[k].step = "reply"

\* A revoked session is never renewed: a refresh that looked at it before the logout or the ban
\* does not rotate it after (RotateSession's FOR UPDATE).
RevocationIsFinal ==
  [][\A s \in Sessions :
       session[s] # None /\ session[s].revoked => session'[s] = session[s]]_vars

\* A banned user has no live session that a password login began: neither a login nor a refresh
\* that runs beside the ban leaves one.  (An OAuth login reads no status.)
BannedHasNoSession ==
  \A s \in Sessions : Live(s) /\ session[s].user \in banned => session[s].oauth

\* A logout revokes the session of the cookie it came with, also when a refresh has rotated the
\* token since the logout was sent, provided the browser had missed no answer before.
LogoutEndsKnownSession ==
  [][\A k \in Conns :
       Answered(k, "logout") /\ request[k].missed = 0 /\ request[k].browser \notin impatient =>
         session'[request[k].token[1]].revoked]_vars

\* backend-requirements-poydem.md: a logout revokes the current refresh session.
LogoutEndsSession ==
  [][\A k \in Conns : Answered(k, "logout") => session'[request[k].token[1]].revoked]_vars

\* A browser that repeats a refresh whose answer was lost is served: one is refused only when the
\* session has ended or the window of the rotation it missed has passed.
RetryIsServed ==
  [][\A k \in Conns :
       Answered(k, "refresh") /\ request[k].browser \notin impatient =>
         LET row == session[request[k].token[1]]
             now == request[k].now
         IN row.revoked \/ row.expires <= now \/ row.validUntil < now]_vars
=============================================================================
