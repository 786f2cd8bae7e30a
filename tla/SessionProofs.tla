---------------------------- MODULE SessionProofs ----------------------------
(***************************************************************************)
(* For any number of users, browsers, sessions and concurrent requests:    *)
(* revoked sessions stay revoked, a banned user has no live session of a   *)
(* password login, a logout ends the session of a browser that has missed  *)
(* no answer, and a browser that has missed one is served when it repeats. *)
(*                                                                         *)
(* The first two need what the row locks guarantee (LockInv); the others   *)
(* also whose tokens are whose (Senders, OneHome, TokensLast) and what a   *)
(* browser knows of its session (KnownInv, RecentInv).                     *)
(***************************************************************************)
EXTENDS Sessions, FiniteSetTheorems, TLAPS

\* A request carries what its statements use.
RequestsFit ==
  \A k \in Conns : request[k] # Idle =>
    /\ request[k].op \in {"login", "oauth", "ban", "unban"} => request[k].user \in Users
    /\ request[k].op \in {"refresh", "logout"} /\ request[k].step # "reply" =>
         request[k].token \in Token

\* No row is locked by two transactions.
Exclusive == \A j, k \in Conns : j # k => locked[j] \cap locked[k] = {}

\* A transaction that is past its lock holds it, and what it saw then is still so.
StillSo ==
  \A k \in Conns : request[k].step = "locked" =>
    /\ request[k].op = "refresh" => request[k].token[1] \in locked[k] /\ Live(request[k].token[1])
    /\ request[k].op \in {"login", "ban", "unban"} => request[k].user \in locked[k]
    /\ request[k].op = "login" => MayLogin(request[k])

\* A browser has sent what it is to be answered; a request of an administrator brings no token.
Senders ==
  \A k \in Conns : request[k] # Idle =>
    /\ request[k].op \in {"login", "oauth", "refresh", "logout"} => request[k].browser \in Browsers
    /\ request[k].op \in {"ban", "unban"} => request[k].token = None

\* Browser b has a token of session s, or a request or an answer of its carries one.
Holds(b, s) ==
  \/ cookie[b] # None /\ cookie[b][1] = s
  \/ \E k \in Conns : /\ request[k] # Idle /\ request[k].browser = b
                      /\ request[k].token # None /\ request[k].token[1] = s

\* The tokens of a session are one browser's.
OneHome ==
  \A s \in Sessions : \A b, c \in Browsers :
    Holds(b, s) => session[s] # None /\ (Holds(c, s) => b = c)

\* The refreshes of a session that are still to rotate it, if they may.
Pending(s) ==
  {k \in Conns : request[k] # Idle /\ request[k].op = "refresh" /\ request[k].step # "reply"
                   /\ request[k].token[1] = s}

\* There are tokens enough for them.
TokensLast ==
  \A s \in Sessions : session[s] # None =>
    session[s].token + Cardinality(Pending(s)) <= MaxTokens

LockInv == TypeOK /\ RequestsFit /\ Exclusive /\ StillSo /\ BannedHasNoSession

IInv == LockInv /\ Senders /\ OneHome /\ TokensLast

-----------------------------------------------------------------------------

\* It holds before the first request.
LEMMA InitIInv == Init => IInv
BY SessionsAssumption
   DEF Init, IInv, LockInv, TypeOK, RequestsFit, Senders, Holds, OneHome, TokensLast, Exclusive, StillSo,
       BannedHasNoSession, Live, Idle

\* A connection that is at a step of its work serves a request.
LEMMA Serving ==
  ASSUME TypeOK, NEW k \in Conns, request[k].step # "idle"
  PROVE request[k] # Idle /\ request[k] \in Request
BY DEF TypeOK, Idle

\* A refresh that is still to rotate its session leaves it a token.
LEMMA RefreshIsPending ==
  ASSUME TypeOK, TokensLast, NEW k \in Conns, NEW s \in Sessions, session[s] # None,
         request[k] # Idle, request[k].op = "refresh", request[k].step # "reply",
         request[k].token[1] = s
  PROVE  session[s].token < MaxTokens
<1>1. k \in Pending(s)
  BY DEF Pending
<1>2. IsFiniteSet(Pending(s))
  BY SessionsAssumption, FS_Subset DEF Pending
<1>3. Cardinality(Pending(s)) \in Nat /\ Cardinality(Pending(s)) # 0
  BY <1>1, <1>2, FS_CardinalityType, FS_EmptySet
<1>4. session[s].token \in Nat
  BY SessionsAssumption DEF TypeOK, Row
<1> QED
  BY <1>3, <1>4, SessionsAssumption DEF TokensLast

\* A revoked row is a row.
LEMMA RevokedRow ==
  ASSUME NEW row \in Row
  PROVE  /\ [row EXCEPT !.revoked = TRUE] \in Row
         /\ [row EXCEPT !.revoked = TRUE].token = row.token
         /\ [row EXCEPT !.revoked = TRUE].previous = row.previous
         /\ [row EXCEPT !.revoked = TRUE].validUntil = row.validUntil
BY DEF Row

\* What a step writes to the tables of users and sessions has their types.
TablesOK ==
  /\ banned \subseteq Users
  /\ session \in [Sessions -> Row \cup {None}]
  /\ \A s \in Sessions : session[s] # None =>
       (session[s].previous = None <=> session[s].validUntil = None)

\* A commit and its answer keep the types of everything but the tables.
LEMMA AnswerTypes ==
  ASSUME TypeOK, NEW k \in Conns, request[k].step # "idle", NEW token \in Token \cup {None},
         Answer(k, token), TablesOK'
  PROVE  TypeOK'
<1>1. request[k] \in Request
  BY Serving
<1>2. [request[k] EXCEPT !.step = "reply", !.now = 0, !.token = token] \in Request
  <2>1. ASSUME NEW r \in Request PROVE [r EXCEPT !.step = "reply"] \in Request
    BY DEF Request
  <2>2. ASSUME NEW r \in Request PROVE [r EXCEPT !.now = 0] \in Request
    BY DEF Request
  <2>3. ASSUME NEW r \in Request PROVE [r EXCEPT !.token = token] \in Request
    BY DEF Request
  <2> QED
    BY <1>1, <2>1, <2>2, <2>3
<1>3. request' = [request EXCEPT ![k] =
                    [request[k] EXCEPT !.step = "reply", !.now = 0, !.token = token]]
  BY DEF Answer, TypeOK
<1> QED
  BY <1>2, <1>3 DEF Answer, TypeOK, TablesOK, browser

\* Taking a lock keeps the types.
LEMMA LockTypes ==
  ASSUME TypeOK, NEW k \in Conns, request[k].step # "idle", NEW row \in Sessions \cup Users,
         LockRow(k, row)
  PROVE  TypeOK'
<1>1. [request[k] EXCEPT !.step = "locked"] \in Request
  BY Serving DEF Request
<1>2. request' = [request EXCEPT ![k] = [request[k] EXCEPT !.step = "locked"]]
  BY DEF LockRow, TypeOK
<1> QED
  BY <1>1, <1>2 DEF LockRow, TypeOK, browser

\* So does the end of a request.
LEMMA EndTypes ==
  ASSUME TypeOK, NEW k \in Conns, End(k), waiting' = NoLongerWaits(k),
         cookie' \in [Browsers -> Token \cup {None}], lost' \in [Browsers -> 0..MaxLost],
         impatient' = impatient
  PROVE  TypeOK'
BY DEF End, NoLongerWaits, TypeOK

\* Each step of a browser or a transaction preserves it.
LEMMA StepKeepsLockInv == IInv /\ [Next]_vars => LockInv'
<1> SUFFICES ASSUME IInv, [Next]_vars PROVE LockInv'
  OBVIOUS
<1> USE SessionsAssumption, NoneAssumption DEF IInv, LockInv
<1>1. ASSUME NEW k \in Conns, NEW b \in Browsers, SendRefresh(k, b) PROVE LockInv'
  <2>1. TypeOK'
    BY <1>1 DEF SendRefresh, Send, TypeOK, Request, Idle
  <2>2. RequestsFit'
    BY <1>1 DEF SendRefresh, Send, TypeOK, RequestsFit
  <2>3. Exclusive'
    BY <1>1 DEF SendRefresh, Send, Exclusive
  <2>4. StillSo'
    BY <1>1 DEF SendRefresh, Send, TypeOK, StillSo, Live, MayLogin
  <2>5. BannedHasNoSession'
    BY <1>1 DEF SendRefresh, Send, BannedHasNoSession, Live
  <2> QED
    BY <2>1, <2>2, <2>3, <2>4, <2>5
<1>2. ASSUME NEW k \in Conns, NEW b \in Browsers, SendLogout(k, b) PROVE LockInv'
  <2>1. TypeOK'
    BY <1>2 DEF SendLogout, Send, TypeOK, Request, Idle
  <2>2. RequestsFit'
    BY <1>2 DEF SendLogout, Send, TypeOK, RequestsFit
  <2>3. Exclusive'
    BY <1>2 DEF SendLogout, Send, Exclusive
  <2>4. StillSo'
    BY <1>2 DEF SendLogout, Send, TypeOK, StillSo, Live, MayLogin
  <2>5. BannedHasNoSession'
    BY <1>2 DEF SendLogout, Send, BannedHasNoSession, Live
  <2> QED
    BY <2>1, <2>2, <2>3, <2>4, <2>5
<1>3. ASSUME NEW k \in Conns, NEW b \in Browsers, NEW op \in {"login", "oauth"}, SendLogin(k, b, op)
      PROVE LockInv'
  <2>1. TypeOK'
    BY <1>3 DEF SendLogin, Send, TypeOK, Request, Idle
  <2>2. RequestsFit'
    BY <1>3 DEF SendLogin, Send, TypeOK, RequestsFit
  <2>3. Exclusive'
    BY <1>3 DEF SendLogin, Send, Exclusive
  <2>4. StillSo'
    BY <1>3 DEF SendLogin, Send, TypeOK, StillSo, Live, MayLogin
  <2>5. BannedHasNoSession'
    BY <1>3 DEF SendLogin, Send, BannedHasNoSession, Live
  <2> QED
    BY <2>1, <2>2, <2>3, <2>4, <2>5
<1>4. ASSUME NEW k \in Conns, NEW u \in Users, NEW op \in {"ban", "unban"}, SendStatus(k, u, op)
      PROVE LockInv'
  <2>1. TypeOK'
    BY <1>4 DEF SendStatus, Send, TypeOK, Request, Idle
  <2>2. RequestsFit'
    BY <1>4 DEF SendStatus, Send, TypeOK, RequestsFit
  <2>3. Exclusive'
    BY <1>4 DEF SendStatus, Send, Exclusive
  <2>4. StillSo'
    BY <1>4 DEF SendStatus, Send, TypeOK, StillSo, Live, MayLogin
  <2>5. BannedHasNoSession'
    BY <1>4 DEF SendStatus, Send, BannedHasNoSession, Live
  <2> QED
    BY <2>1, <2>2, <2>3, <2>4, <2>5
<1>5. ASSUME NEW k \in Conns, Arrive(k) PROVE LockInv'
  <2>1. TypeOK'
    <3>1. request[k] \in Request
      BY <1>5, Serving DEF Arrive
    <3>2. [request[k] EXCEPT !.step = "begun", !.now = clock] \in Request
      <4>1. clock \in Nat
        BY DEF TypeOK
      <4>2. ASSUME NEW r \in Request PROVE [r EXCEPT !.step = "begun"] \in Request
        BY DEF Request
      <4>3. ASSUME NEW r \in Request PROVE [r EXCEPT !.now = clock] \in Request
        BY <4>1 DEF Request
      <4> QED
        BY <3>1, <4>2, <4>3
    <3>3. request' = [request EXCEPT ![k] =
                        [request[k] EXCEPT !.step = "begun", !.now = clock]]
      BY <1>5 DEF Arrive, TypeOK
    <3> QED
      BY <1>5, <3>2, <3>3 DEF Arrive, browser, TypeOK
  <2>2. RequestsFit'
    BY <1>5 DEF Arrive, TypeOK, RequestsFit, Idle
  <2>3. Exclusive'
    BY <1>5 DEF Arrive, Exclusive
  <2>4. StillSo'
    BY <1>5 DEF Arrive, TypeOK, StillSo, Live, MayLogin
  <2>5. BannedHasNoSession'
    BY <1>5 DEF Arrive, BannedHasNoSession, Live
  <2> QED
    BY <2>1, <2>2, <2>3, <2>4, <2>5
<1>6. ASSUME NEW k \in Conns, LockSession(k) PROVE LockInv'
  <2>1. TypeOK'
    <3>1. request[k].token[1] \in Sessions
      BY <1>6, Serving DEF LockSession, At, RequestsFit, Token
    <3> QED
      BY <1>6, <3>1, LockTypes DEF LockSession, At
  <2>2. RequestsFit'
    BY <1>6 DEF LockSession, LockRow, At, TypeOK, RequestsFit, Idle
  <2>3. Exclusive'
    BY <1>6 DEF LockSession, LockRow, At, TypeOK, Exclusive, Free
  <2>4. StillSo'
    <3>1. request[k].token[1] \in Sessions /\ request[k].op = "refresh"
      BY <1>6, Serving DEF LockSession, At, RequestsFit, Token
    <3>2. /\ request' = [request EXCEPT ![k].step = "locked"]
          /\ locked' = [locked EXCEPT ![k] = {request[k].token[1]}]
          /\ UNCHANGED <<banned, session>>
          /\ Live(request[k].token[1])
      BY <1>6 DEF LockSession, LockRow, Renewable
    <3>3. /\ request'[k].op = "refresh"
          /\ request'[k].token = request[k].token
          /\ locked'[k] = {request[k].token[1]}
      BY <1>6, <3>1, <3>2, Serving DEF LockSession, At, TypeOK, Request
    <3>4. DOMAIN request = Conns /\ DOMAIN locked = Conns
      BY DEF TypeOK
    <3>5. ASSUME NEW j \in Conns, j # k
          PROVE request'[j] = request[j] /\ locked'[j] = locked[j]
      BY <3>2, <3>4, <3>5
    <3> QED
      BY <3>2, <3>3, <3>5 DEF StillSo, Live, MayLogin
  <2>5. BannedHasNoSession'
    BY <1>6 DEF LockSession, LockRow, At, BannedHasNoSession, Live
  <2> QED
    BY <2>1, <2>2, <2>3, <2>4, <2>5
<1>7. ASSUME NEW k \in Conns, Rotate(k) PROVE LockInv'
  <2>1. TypeOK'
    <3>1. request[k].token[1] \in Sessions
      BY <1>7, Serving DEF Rotate, At, RequestsFit, Token
    <3>2. session[request[k].token[1]] \in Row /\ request[k].now \in Nat
      BY <1>7, <3>1, Serving DEF Rotate, At, StillSo, Live, TypeOK, Request
    <3>0. session[request[k].token[1]].token < MaxTokens
      <4>1. request[k] # Idle /\ request[k].op = "refresh" /\ request[k].step # "reply"
        BY <1>7, Serving DEF Rotate, At
      <4>2. session[request[k].token[1]] # None
        BY <1>7 DEF Rotate, At, StillSo, Live
      <4> QED
        BY <3>1, <4>1, <4>2, RefreshIsPending
    <3>3. ASSUME NEW row \in Row, NEW now \in Nat, row.token < MaxTokens
          PROVE  /\ Rotated(row, now) \in Row
                 /\ Rotated(row, now).previous # None /\ Rotated(row, now).validUntil # None
      <4>1. row.token \in 0..MaxTokens /\ row.token + 1 \in 0..MaxTokens /\ now + Window \in Nat
        BY <3>3 DEF Row
      <4>2. ASSUME NEW q \in Row, NEW i \in 0..MaxTokens, NEW n \in Nat
            PROVE /\ [q EXCEPT !.previous = i] \in Row
                  /\ [q EXCEPT !.validUntil = n] \in Row
                  /\ [q EXCEPT !.token = i] \in Row
        BY DEF Row
      <4>3. Rotated(row, now) \in Row
        BY <4>1, <4>2 DEF Rotated
      <4>4. Rotated(row, now).previous = row.token /\ Rotated(row, now).validUntil = now + Window
        BY DEF Rotated, Row
      <4> QED
        BY <4>1, <4>3, <4>4
    <3>4. TablesOK'
      BY <1>7, <3>0, <3>1, <3>2, <3>3 DEF Rotate, TypeOK, TablesOK
    <3>5. <<request[k].token[1], session'[request[k].token[1]].token>> \in Token
      BY <1>7, <3>0, <3>1, <3>2, <3>3 DEF Rotate, TypeOK, Row, Token
    <3> QED
      BY <1>7, <3>4, <3>5, AnswerTypes DEF Rotate, At
  <2>2. RequestsFit'
    BY <1>7 DEF Rotate, Rotated, Answer, At, TypeOK, RequestsFit
  <2>3. Exclusive'
    BY <1>7 DEF Rotate, Rotated, Answer, At, Exclusive
  <2>4. StillSo'
    BY <1>7 DEF Rotate, Rotated, Answer, At, TypeOK, StillSo, Live, MayLogin, Idle, Exclusive, Free
  <2>5. BannedHasNoSession'
    BY <1>7 DEF Rotate, Rotated, Answer, At, browser, TypeOK, RequestsFit, StillSo,
       BannedHasNoSession, Live, MayLogin, Row
  <2> QED
    BY <2>1, <2>2, <2>3, <2>4, <2>5
<1>8. ASSUME NEW k \in Conns, RefuseRefresh(k) PROVE LockInv'
  <2>1. TypeOK'
    BY <1>8, AnswerTypes DEF RefuseRefresh, At, TypeOK, TablesOK
  <2>2. RequestsFit'
    BY <1>8 DEF RefuseRefresh, Answer, At, TypeOK, RequestsFit
  <2>3. Exclusive'
    BY <1>8 DEF RefuseRefresh, Answer, At, Exclusive
  <2>4. StillSo'
    BY <1>8 DEF RefuseRefresh, Answer, At, TypeOK, StillSo, Live, MayLogin
  <2>5. BannedHasNoSession'
    BY <1>8 DEF RefuseRefresh, Answer, At, BannedHasNoSession, Live
  <2> QED
    BY <2>1, <2>2, <2>3, <2>4, <2>5
<1>9. ASSUME NEW k \in Conns, Logout(k) PROVE LockInv'
  <2>1. TypeOK'
    <3>1. \A s \in Sessions :
            \/ session'[s] = session[s]
            \/ session[s] # None /\ session'[s] = [session[s] EXCEPT !.revoked = TRUE]
      BY <1>9 DEF Logout, Live, TypeOK
    <3>2. banned' \subseteq Users
      BY <1>9 DEF Logout, TypeOK
    <3>3. TablesOK'
      <4>1. ASSUME NEW s \in Sessions
            PROVE  /\ session'[s] \in Row \cup {None}
                   /\ session'[s] # None =>
                        (session'[s].previous = None <=> session'[s].validUntil = None)
        <5>1. CASE session'[s] = session[s]
          BY <5>1 DEF TypeOK
        <5>2. CASE session[s] # None /\ session'[s] = [session[s] EXCEPT !.revoked = TRUE]
          <6>1. session[s] \in Row
            BY <5>2 DEF TypeOK
          <6> QED
            BY <5>2, <6>1, RevokedRow DEF TypeOK
        <5> QED
          BY <3>1, <5>1, <5>2
      <4>2. session' \in [Sessions -> Row \cup {None}]
        BY <1>9, <4>1 DEF Logout, TypeOK
      <4> QED
        BY <3>2, <4>1, <4>2 DEF TablesOK
    <3> QED
      BY <1>9, <3>3, AnswerTypes DEF Logout, At
  <2>2. RequestsFit'
    BY <1>9 DEF Logout, Answer, At, TypeOK, RequestsFit
  <2>3. Exclusive'
    BY <1>9 DEF Logout, Answer, At, Exclusive
  <2>4. StillSo'
    BY <1>9 DEF Logout, Answer, At, TypeOK, StillSo, Live, MayLogin, Idle, Exclusive, Free
  <2>5. BannedHasNoSession'
    BY <1>9 DEF Logout, Answer, At, BannedHasNoSession, Live
  <2> QED
    BY <2>1, <2>2, <2>3, <2>4, <2>5
<1>10. ASSUME NEW k \in Conns, LockCredentials(k) PROVE LockInv'
  <2>1. TypeOK'
    <3>1. request[k].user \in Users
      BY <1>10, Serving DEF LockCredentials, At, RequestsFit
    <3> QED
      BY <1>10, <3>1, LockTypes DEF LockCredentials, At
  <2>2. RequestsFit'
    BY <1>10 DEF LockCredentials, LockRow, At, TypeOK, RequestsFit, Idle
  <2>3. Exclusive'
    BY <1>10 DEF LockCredentials, LockRow, At, TypeOK, Exclusive, Free
  <2>4. StillSo'
    BY <1>10 DEF LockCredentials, LockRow, At, TypeOK, StillSo, Live, MayLogin
  <2>5. BannedHasNoSession'
    BY <1>10 DEF LockCredentials, LockRow, At, BannedHasNoSession, Live
  <2> QED
    BY <2>1, <2>2, <2>3, <2>4, <2>5
<1>11. ASSUME NEW k \in Conns, RefuseLogin(k) PROVE LockInv'
  <2>1. TypeOK'
    BY <1>11, AnswerTypes DEF RefuseLogin, At, TypeOK, TablesOK
  <2>2. RequestsFit'
    BY <1>11 DEF RefuseLogin, Answer, At, TypeOK, RequestsFit, Idle
  <2>3. Exclusive'
    BY <1>11 DEF RefuseLogin, Answer, At, Exclusive
  <2>4. StillSo'
    BY <1>11 DEF RefuseLogin, Answer, At, TypeOK, StillSo, Live, MayLogin
  <2>5. BannedHasNoSession'
    BY <1>11 DEF RefuseLogin, Answer, At, BannedHasNoSession, Live
  <2> QED
    BY <2>1, <2>2, <2>3, <2>4, <2>5
<1>12. ASSUME NEW k \in Conns, CreateSession(k) PROVE LockInv'
  <2>1. TypeOK'
    <3>1. PICK s \in Sessions :
            /\ session' = [session EXCEPT ![s] =
                 [user |-> request[k].user, token |-> 0, previous |-> None, validUntil |-> None,
                  expires |-> Lifetime + IF request[k].op = "oauth" THEN request[k].now ELSE
                     clock,
                  revoked |-> FALSE, oauth |-> request[k].op = "oauth"]]
            /\ Answer(k, <<s, 0>>)
      BY <1>12 DEF CreateSession
    <3>2. request[k].user \in Users /\ request[k].now \in Nat /\ clock \in Nat
      BY <1>12, Serving DEF CreateSession, At, RequestsFit, Request, TypeOK
    <3>3. Lifetime + (IF request[k].op = "oauth" THEN request[k].now ELSE clock) \in Nat
      BY <3>2
    <3>4. TablesOK'
      BY <1>12, <3>1, <3>2, <3>3 DEF CreateSession, TypeOK, TablesOK, Row
    <3>5. <<s, 0>> \in Token
      BY DEF Token
    <3> QED
      BY <1>12, <3>1, <3>4, <3>5, AnswerTypes DEF CreateSession, At
  <2>2. RequestsFit'
    BY <1>12 DEF CreateSession, Answer, At, TypeOK, RequestsFit, Idle
  <2>3. Exclusive'
    BY <1>12 DEF CreateSession, Answer, At, Exclusive
  <2>4. StillSo'
    BY <1>12 DEF CreateSession, Answer, At, TypeOK, StillSo, Live, MayLogin
  <2>5. BannedHasNoSession'
    <3>1. PICK s \in Sessions :
            session' = [session EXCEPT ![s] =
                 [user |-> request[k].user, token |-> 0, previous |-> None, validUntil |-> None,
                  expires |-> Lifetime + IF request[k].op = "oauth" THEN request[k].now ELSE
                     clock,
                  revoked |-> FALSE, oauth |-> request[k].op = "oauth"]]
      BY <1>12 DEF CreateSession
    <3>2. request[k].op = "oauth" \/ request[k].user \notin banned
      BY <1>12 DEF CreateSession, At, StillSo, MayLogin
    <3>3. banned' = banned
      BY <1>12 DEF CreateSession
    <3> QED
      BY <3>1, <3>2, <3>3 DEF BannedHasNoSession, Live, TypeOK
  <2> QED
    BY <2>1, <2>2, <2>3, <2>4, <2>5
<1>13. ASSUME NEW k \in Conns, LockUser(k) PROVE LockInv'
  <2>1. TypeOK'
    <3>1. request[k].user \in Users
      BY <1>13, Serving DEF LockUser, RequestsFit
    <3> QED
      BY <1>13, <3>1, LockTypes DEF LockUser
  <2>2. RequestsFit'
    BY <1>13 DEF LockUser, LockRow, TypeOK, RequestsFit, Idle
  <2>3. Exclusive'
    BY <1>13 DEF LockUser, LockRow, TypeOK, Exclusive, Free
  <2>4. StillSo'
    BY <1>13 DEF LockUser, LockRow, TypeOK, StillSo, Live, MayLogin
  <2>5. BannedHasNoSession'
    BY <1>13 DEF LockUser, LockRow, BannedHasNoSession, Live
  <2> QED
    BY <2>1, <2>2, <2>3, <2>4, <2>5
<1>14. ASSUME NEW k \in Conns, Ban(k) PROVE LockInv'
  <2>1. TypeOK'
    <3>1. \A s \in Sessions :
            \/ session'[s] = session[s]
            \/ session[s] # None /\ session'[s] = [session[s] EXCEPT !.revoked = TRUE]
      BY <1>14 DEF Ban, SessionsOf, Live
    <3>2. banned' \subseteq Users
      BY <1>14, Serving DEF Ban, At, RequestsFit, TypeOK
    <3>3. TablesOK'
      <4>1. ASSUME NEW s \in Sessions
            PROVE  /\ session'[s] \in Row \cup {None}
                   /\ session'[s] # None =>
                        (session'[s].previous = None <=> session'[s].validUntil = None)
        <5>1. CASE session'[s] = session[s]
          BY <5>1 DEF TypeOK
        <5>2. CASE session[s] # None /\ session'[s] = [session[s] EXCEPT !.revoked = TRUE]
          <6>1. session[s] \in Row
            BY <5>2 DEF TypeOK
          <6> QED
            BY <5>2, <6>1, RevokedRow DEF TypeOK
        <5> QED
          BY <3>1, <5>1, <5>2
      <4>2. session' \in [Sessions -> Row \cup {None}]
        BY <1>14, <4>1 DEF Ban
      <4> QED
        BY <3>2, <4>1, <4>2 DEF TablesOK
    <3> QED
      BY <1>14, <3>3, AnswerTypes DEF Ban, At
  <2>2. RequestsFit'
    BY <1>14 DEF Ban, SessionsOf, Answer, At, TypeOK, RequestsFit, Idle
  <2>3. Exclusive'
    BY <1>14 DEF Ban, SessionsOf, Answer, At, Exclusive
  <2>4. StillSo'
    <3>1. ASSUME NEW j \in Conns, request'[j].step = "locked"
          PROVE j # k /\ locked'[j] = locked[j]
      BY <1>14, <3>1 DEF Ban, Answer, At, TypeOK
    <3>2. ASSUME NEW j \in Conns \ {k} PROVE request'[j] = request[j]
      BY <1>14 DEF Ban, Answer, TypeOK
    <3>3. ASSUME NEW j \in Conns \ {k}, request[j].step = "locked", request[j].op = "refresh"
          PROVE Live(request[j].token[1])'
      <4>1. request[j].token[1] \in locked[j] /\ Live(request[j].token[1])
        BY <3>3 DEF StillSo
      <4>2. request[j].token[1] \in Sessions
        BY <3>3, Serving DEF RequestsFit, Token
      <4>3. request[j].token[1] \notin SessionsOf(request[k].user)
        BY <1>14, <4>1 DEF Ban, Free
      <4>4. session'[request[j].token[1]] = session[request[j].token[1]]
        BY <1>14, <4>2, <4>3 DEF Ban
      <4> QED
        BY <3>2, <4>1, <4>4 DEF Live
    <3>4. ASSUME NEW j \in Conns \ {k}, request[j].step = "locked", request[j].op = "login"
          PROVE MayLogin(request[j])'
      BY <1>14, <3>4, <3>2 DEF Ban, At, StillSo, Exclusive, MayLogin, TypeOK
    <3> QED
      BY <3>1, <3>3, <3>4, <3>2 DEF StillSo, Live, MayLogin
  <2>5. BannedHasNoSession'
    BY <1>14 DEF Ban, SessionsOf, Answer, At, BannedHasNoSession, Live
  <2> QED
    BY <2>1, <2>2, <2>3, <2>4, <2>5
<1>15. ASSUME NEW k \in Conns, Unban(k) PROVE LockInv'
  <2>1. TypeOK'
    BY <1>15, AnswerTypes DEF Unban, At, TypeOK, TablesOK
  <2>2. RequestsFit'
    BY <1>15 DEF Unban, Answer, At, TypeOK, RequestsFit, Idle
  <2>3. Exclusive'
    BY <1>15 DEF Unban, Answer, At, Exclusive
  <2>4. StillSo'
    BY <1>15 DEF Unban, Answer, At, TypeOK, StillSo, Live, MayLogin
  <2>5. BannedHasNoSession'
    BY <1>15 DEF Unban, Answer, At, BannedHasNoSession, Live
  <2> QED
    BY <2>1, <2>2, <2>3, <2>4, <2>5
<1>16. ASSUME NEW k \in Conns, Deliver(k) PROVE LockInv'
  <2>1. TypeOK'
    <3>1. request[k] \in Request
      BY <1>16, Serving DEF Deliver
    <3>2. /\ cookie' \in [Browsers -> Token \cup {None}]
          /\ lost' \in [Browsers -> 0..MaxLost]
      BY <1>16, <3>1 DEF Deliver, TypeOK, Request
    <3> QED
      BY <1>16, <3>2, EndTypes DEF Deliver
  <2>2. RequestsFit'
    BY <1>16 DEF Deliver, End, TypeOK, RequestsFit
  <2>3. Exclusive'
    BY <1>16 DEF Deliver, End, Exclusive
  <2>4. StillSo'
    BY <1>16 DEF Deliver, End, TypeOK, StillSo, Live, MayLogin, Idle
  <2>5. BannedHasNoSession'
    BY <1>16 DEF Deliver, End, BannedHasNoSession, Live
  <2> QED
    BY <2>1, <2>2, <2>3, <2>4, <2>5
<1>17. ASSUME NEW k \in Conns, Lose(k) PROVE LockInv'
  <2>1. TypeOK'
    <3>1. lost' \in [Browsers -> 0..MaxLost]
      <4>1. \A b \in Browsers : lost[b] < MaxLost => lost[b] + 1 \in 0..MaxLost
        BY DEF TypeOK
      <4> QED
        BY <1>17, <4>1 DEF Lose, TypeOK
    <3> QED
      BY <1>17, <3>1, EndTypes DEF Lose, TypeOK
  <2>2. RequestsFit'
    BY <1>17 DEF Lose, End, At, TypeOK, RequestsFit
  <2>3. Exclusive'
    BY <1>17 DEF Lose, End, At, Exclusive
  <2>4. StillSo'
    BY <1>17 DEF Lose, End, At, TypeOK, StillSo, Live, MayLogin, Idle
  <2>5. BannedHasNoSession'
    BY <1>17 DEF Lose, End, At, BannedHasNoSession, Live
  <2> QED
    BY <2>1, <2>2, <2>3, <2>4, <2>5
<1>18. ASSUME NEW k \in Conns, Abandon(k) PROVE LockInv'
  <2>1. TypeOK'
    <3>1. lost' \in [Browsers -> 0..MaxLost]
      <4>1. \A b \in Browsers : lost[b] < MaxLost => lost[b] + 1 \in 0..MaxLost
        BY DEF TypeOK
      <4> QED
        BY <1>18, <4>1 DEF Abandon, TypeOK
    <3> QED
      BY <1>18, <3>1 DEF Abandon, NoLongerWaits, TypeOK
  <2>2. RequestsFit'
    BY <1>18 DEF Abandon, TypeOK, RequestsFit
  <2>3. Exclusive'
    BY <1>18 DEF Abandon, Exclusive
  <2>4. StillSo'
    BY <1>18 DEF Abandon, TypeOK, StillSo, Live, MayLogin
  <2>5. BannedHasNoSession'
    BY <1>18 DEF Abandon, BannedHasNoSession, Live
  <2> QED
    BY <2>1, <2>2, <2>3, <2>4, <2>5
<1>19. ASSUME NEW k \in Conns, Drop(k) PROVE LockInv'
  <2>1. TypeOK'
    BY <1>19 DEF Drop, End, At, browser, TypeOK
  <2>2. RequestsFit'
    BY <1>19 DEF Drop, End, At, TypeOK, RequestsFit
  <2>3. Exclusive'
    BY <1>19 DEF Drop, End, At, Exclusive
  <2>4. StillSo'
    BY <1>19 DEF Drop, End, At, TypeOK, StillSo, Live, MayLogin, Idle
  <2>5. BannedHasNoSession'
    BY <1>19 DEF Drop, End, At, BannedHasNoSession, Live
  <2> QED
    BY <2>1, <2>2, <2>3, <2>4, <2>5
<1>20. ASSUME NEW k \in Conns, Fail(k) PROVE LockInv'
  <2>1. TypeOK'
    BY <1>20, EndTypes DEF Fail, TypeOK
  <2>2. RequestsFit'
    BY <1>20 DEF Fail, End, TypeOK, RequestsFit
  <2>3. Exclusive'
    BY <1>20 DEF Fail, End, Exclusive
  <2>4. StillSo'
    BY <1>20 DEF Fail, End, TypeOK, StillSo, Live, MayLogin, Idle
  <2>5. BannedHasNoSession'
    BY <1>20 DEF Fail, End, BannedHasNoSession, Live
  <2> QED
    BY <2>1, <2>2, <2>3, <2>4, <2>5
<1>21. CASE Tick
  BY <1>21 DEF Tick, browser, TypeOK, RequestsFit, Exclusive, StillSo, BannedHasNoSession, Live,
     MayLogin
<1>22. CASE UNCHANGED vars
  BY <1>22 DEF vars, browser, TypeOK, RequestsFit, Exclusive, StillSo, BannedHasNoSession, Live,
     MayLogin
<1> QED
  BY <1>1, <1>2, <1>3, <1>4, <1>5, <1>6, <1>7, <1>8, <1>9, <1>10, <1>11, <1>12, <1>13, <1>14,
     <1>15, <1>16, <1>17, <1>18, <1>19, <1>20, <1>21, <1>22 DEF Next, Begin, Serve

-----------------------------------------------------------------------------
(* What a step does to tokens. *)

\* No session is begun or rotated.
SameTokens ==
  \A s \in Sessions :
    /\ session'[s] = None <=> session[s] = None
    /\ session[s] # None =>
         session'[s].token = session[s].token /\ session'[s].previous = session[s].previous

\* Only connection k may change its request,
Others(k) == \A j \in Conns \ {k} : request'[j] = request[j]

\* which stays the same browser's.
SameSender(k) ==
  /\ request[k] # Idle /\ request'[k] # Idle
  /\ request'[k].op = request[k].op /\ request'[k].browser = request[k].browser
  /\ request'[k].missed = request[k].missed

\* The request goes on, or is answered without a token.
GoesOn(k) ==
  /\ SameTokens /\ Others(k) /\ SameSender(k) /\ UNCHANGED browser
  /\ request[k].step # "reply"
  /\ \/ request'[k].step # "reply" /\ request'[k].token = request[k].token
     \/ request'[k].step = "reply" /\ request'[k].token = None

\* A tick of the clock, or nothing.
Stays == SameTokens /\ UNCHANGED <<request, browser>>

\* The end of a request.
Leaves(k) == Deliver(k) \/ Lose(k) \/ Drop(k) \/ Fail(k)

\* Only a rotation and a new session touch tokens.
LEMMA RequestGoesOn ==
  ASSUME IInv, NEW k \in Conns,
         \/ Arrive(k) \/ LockSession(k) \/ RefuseRefresh(k) \/ Logout(k) \/ LockCredentials(k)
         \/ RefuseLogin(k) \/ LockUser(k) \/ Ban(k) \/ Unban(k)
  PROVE  GoesOn(k)
<1> USE DEF IInv, LockInv, GoesOn, Others, SameSender
<1>0. DOMAIN request = Conns
  BY DEF TypeOK
<1>1. ASSUME request[k].step # "idle" PROVE request[k] # Idle /\ request[k] \in Request
  BY <1>1, Serving
<1>2. ASSUME UNCHANGED session PROVE SameTokens
  BY <1>2 DEF SameTokens
<1>3. ASSUME request[k].step \in {"begun", "locked"}, Answer(k, None)
      PROVE  Others(k) /\ SameSender(k) /\ UNCHANGED browser
             /\ request'[k].step = "reply" /\ request'[k].token = None
  BY <1>0, <1>1, <1>3 DEF Answer, Request, Idle
<1>4. ASSUME NEW row, LockRow(k, row), request[k].step = "begun" PROVE GoesOn(k)
  BY <1>0, <1>1, <1>2, <1>4 DEF LockRow, Request, Idle
<1>5. CASE Arrive(k)
  BY <1>0, <1>1, <1>2, <1>5 DEF Arrive, Request, Idle
<1>6. CASE LockSession(k)
  BY <1>4, <1>6 DEF LockSession, At
<1>7. CASE RefuseRefresh(k)
  BY <1>2, <1>3, <1>7 DEF RefuseRefresh, At
<1>8. CASE Logout(k)
  <2>1. SameTokens
    BY <1>8, RevokedRow, NoneAssumption DEF Logout, Live, SameTokens, TypeOK
  <2> QED
    BY <2>1, <1>3, <1>8 DEF Logout, At
<1>9. CASE LockCredentials(k)
  BY <1>4, <1>9 DEF LockCredentials, At
<1>10. CASE RefuseLogin(k)
  BY <1>2, <1>3, <1>10 DEF RefuseLogin, At
<1>11. CASE LockUser(k)
  BY <1>4, <1>11 DEF LockUser
<1>12. CASE Ban(k)
  <2>1. SameTokens
    BY <1>12, RevokedRow, NoneAssumption DEF Ban, SessionsOf, Live, SameTokens, TypeOK
  <2> QED
    BY <2>1, <1>3, <1>12 DEF Ban, At
<1>13. CASE Unban(k)
  BY <1>2, <1>3, <1>13 DEF Unban, At
<1> QED
  BY <1>5, <1>6, <1>7, <1>8, <1>9, <1>10, <1>11, <1>12, <1>13

\* The kinds of step that the proofs about tokens tell apart.
LEMMA StepKind ==
  ASSUME IInv, [Next]_vars
  PROVE  \/ Stays
         \/ \E k \in Conns : \/ GoesOn(k) \/ Rotate(k) \/ CreateSession(k) \/ Begin(k)
                             \/ Leaves(k) \/ Abandon(k)
<1>1. CASE Tick \/ UNCHANGED vars
  BY <1>1 DEF Tick, vars, Stays, SameTokens
<1>2. ASSUME NEW k \in Conns, Serve(k) PROVE GoesOn(k) \/ Rotate(k) \/ CreateSession(k)
  BY <1>2, RequestGoesOn DEF Serve
<1> QED
  BY <1>1, <1>2 DEF Next, Leaves

\* A rotation replaces the token of one session, which it answers with.
LEMMA RotateEffect ==
  ASSUME IInv, NEW k \in Conns, Rotate(k), NEW s \in Sessions, s = request[k].token[1]
  PROVE  /\ Others(k) /\ SameSender(k) /\ UNCHANGED browser
         /\ request[k].op = "refresh" /\ request[k].step = "locked"
         /\ session[s] # None /\ session'[s] # None
         /\ request'[k].step = "reply" /\ request'[k].token = <<s, session[s].token + 1>>
         /\ session'[s].token = session[s].token + 1 /\ session'[s].previous = session[s].token
         /\ \A q \in Sessions \ {s} : session'[q] = session[q]
<1> USE DEF IInv, LockInv
<1>1. request[k] # Idle /\ request[k] \in Request /\ request[k].step = "locked"
        /\ request[k].op = "refresh"
  BY Serving DEF Rotate, At
<1>2. session[s] # None /\ session[s] \in Row
  BY <1>1 DEF StillSo, Live, TypeOK
<1>3. ASSUME NEW row \in Row, NEW now
      PROVE  /\ Rotated(row, now).token = row.token + 1 /\ Rotated(row, now).previous = row.token
             /\ Rotated(row, now).validUntil = now + Window
  BY DEF Rotated, Row
<1>4. session' = [session EXCEPT ![s] = Rotated(session[s], request[k].now)]
  BY DEF Rotate
<1>5. session'[s] = Rotated(session[s], request[k].now)
        /\ \A q \in Sessions \ {s} : session'[q] = session[q]
  BY <1>4 DEF TypeOK
<1>6. session'[s] # None
  <2>1. request[k].now + Window \in Nat
    BY <1>1, SessionsAssumption DEF Request
  <2>2. session[s].token < MaxTokens
    BY <1>1, <1>2, RefreshIsPending
  <2>3. session[s].token + 1 \in 0..MaxTokens /\ session[s].token \in 0..MaxTokens
    BY <1>2, <2>2, SessionsAssumption DEF Row
  <2>4. Rotated(session[s], request[k].now) \in Row
    BY <1>2, <2>1, <2>3 DEF Rotated, Row
  <2> QED
    BY <1>5, <2>4, NoneAssumption
<1>7. /\ request'[k].step = "reply" /\ request'[k].token = <<s, session'[s].token>>
      /\ Others(k) /\ SameSender(k) /\ UNCHANGED browser
  BY <1>1 DEF Rotate, Answer, Others, SameSender, TypeOK, Request, Idle
<1> QED
  BY <1>1, <1>2, <1>3, <1>5, <1>6, <1>7

\* A login's session is new, and its first token goes to the browser that logs in.
LEMMA CreateEffect ==
  ASSUME IInv, NEW k \in Conns, CreateSession(k)
  PROVE  \E s \in Sessions :
           /\ Others(k) /\ SameSender(k) /\ UNCHANGED browser
           /\ request[k].op \in {"login", "oauth"} /\ request[k].step # "reply"
           /\ session[s] = None /\ session'[s] # None
           /\ request'[k].step = "reply" /\ request'[k].token = <<s, 0>>
           /\ session'[s].token = 0
           /\ \A q \in Sessions \ {s} : session'[q] = session[q]
<1> USE DEF IInv, LockInv
<1>1. /\ request[k] # Idle /\ request[k] \in Request /\ request[k].step # "reply"
      /\ request[k].op \in {"login", "oauth"}
  BY Serving DEF CreateSession, At
<1>2. PICK s \in Sessions :
        /\ session[s] = None
        /\ session' = [session EXCEPT ![s] =
             [user |-> request[k].user, token |-> 0, previous |-> None, validUntil |-> None,
              expires |-> Lifetime + IF request[k].op = "oauth" THEN request[k].now ELSE clock,
              revoked |-> FALSE, oauth |-> request[k].op = "oauth"]]
        /\ Answer(k, <<s, 0>>)
  BY DEF CreateSession
<1>3. session'[s].token = 0 /\ \A q \in Sessions \ {s} : session'[q] = session[q]
  BY <1>2 DEF TypeOK
<1>4. session'[s] # None
  <2>1. request[k].user \in Users /\ request[k].now \in Nat /\ clock \in Nat
    BY <1>1 DEF RequestsFit, Request, TypeOK
  <2>2. Lifetime + (IF request[k].op = "oauth" THEN request[k].now ELSE clock) \in Nat
    BY <2>1, SessionsAssumption
  <2>3. session'[s] \in Row
    BY <1>2, <2>1, <2>2, SessionsAssumption DEF TypeOK, Row
  <2> QED
    BY <2>3, NoneAssumption
<1>5. /\ request'[k].step = "reply" /\ request'[k].token = <<s, 0>>
      /\ Others(k) /\ SameSender(k) /\ UNCHANGED browser
  BY <1>1, <1>2 DEF Answer, Others, SameSender, TypeOK, Request, Idle
<1> QED
  BY <1>1, <1>2, <1>3, <1>4, <1>5

\* What a browser, or an administrator, sends.
LEMMA BeginEffect ==
  ASSUME IInv, NEW k \in Conns, Begin(k)
  PROVE  /\ Others(k) /\ request[k] = Idle /\ request'[k] # Idle /\ request'[k].step = "sent"
         /\ UNCHANGED <<session, cookie, lost, impatient>>
         /\ \/ /\ request'[k].op \in {"ban", "unban"} /\ request'[k].token = None
               /\ waiting' = waiting
            \/ \E b \in Browsers :
                 /\ request'[k].browser = b /\ request'[k].missed = lost[b]
                 /\ request'[k].token = cookie[b]
                 /\ \/ /\ request'[k].op \in {"login", "oauth"}
                       /\ cookie[b] = None
                       /\ waiting[b] = None /\ waiting' = [waiting EXCEPT ![b] = k]
                    \/ /\ request'[k].op = "refresh"
                       /\ cookie[b] # None
                       /\ \A j \in Conns : request[j] # Idle /\ request[j].op = "logout" =>
                            request[j].browser # b
                       /\ session[cookie[b][1]].token + Cardinality(InFlight("refresh")) < MaxTokens
                       /\ waiting[b] = None /\ waiting' = [waiting EXCEPT ![b] = k]
                    \/ /\ request'[k].op = "logout"
                       /\ cookie[b] # None
                       /\ waiting' = waiting
<1> USE NoneAssumption DEF IInv, LockInv, Others, Idle
<1>0. DOMAIN request = Conns
  BY DEF TypeOK
<1>1. ASSUME NEW b \in Browsers, SendRefresh(k, b)
      PROVE  /\ Others(k) /\ request[k] = Idle /\ request'[k] # Idle /\ request'[k].step = "sent"
             /\ UNCHANGED <<session, cookie, lost, impatient>>
             /\ request'[k].browser = b /\ request'[k].missed = lost[b]
             /\ request'[k].token = cookie[b] /\ request'[k].op = "refresh"
             /\ cookie[b] # None
             /\ \A j \in Conns : request[j] # Idle /\ request[j].op = "logout" =>
                  request[j].browser # b
             /\ session[cookie[b][1]].token + Cardinality(InFlight("refresh")) < MaxTokens
             /\ waiting[b] = None /\ waiting' = [waiting EXCEPT ![b] = k]
  <2>1. \A j \in Conns : request[j] # Idle /\ request[j].op = "logout" => request[j].browser # b
    BY <1>1 DEF SendRefresh, InFlight
  <2> QED
    BY <1>0, <1>1, <2>1 DEF SendRefresh, Send
<1>2. ASSUME NEW b \in Browsers, SendLogout(k, b)
      PROVE  /\ Others(k) /\ request[k] = Idle /\ request'[k] # Idle /\ request'[k].step = "sent"
             /\ UNCHANGED <<session, cookie, lost, impatient>>
             /\ request'[k].browser = b /\ request'[k].missed = lost[b]
             /\ request'[k].token = cookie[b] /\ request'[k].op = "logout"
             /\ cookie[b] # None /\ waiting' = waiting
  BY <1>0, <1>2 DEF SendLogout, Send
<1>3. ASSUME NEW b \in Browsers, NEW op \in {"login", "oauth"}, SendLogin(k, b, op)
      PROVE  /\ Others(k) /\ request[k] = Idle /\ request'[k] # Idle /\ request'[k].step = "sent"
             /\ UNCHANGED <<session, cookie, lost, impatient>>
             /\ request'[k].browser = b /\ request'[k].missed = lost[b]
             /\ request'[k].token = cookie[b] /\ request'[k].op \in {"login", "oauth"}
             /\ cookie[b] = None
             /\ waiting[b] = None /\ waiting' = [waiting EXCEPT ![b] = k]
  BY <1>0, <1>3 DEF SendLogin, Send
<1>4. ASSUME NEW u \in Users, NEW op \in {"ban", "unban"}, SendStatus(k, u, op)
      PROVE  /\ Others(k) /\ request[k] = Idle /\ request'[k] # Idle /\ request'[k].step = "sent"
             /\ UNCHANGED <<session, cookie, lost, impatient>>
             /\ request'[k].op \in {"ban", "unban"} /\ request'[k].token = None
             /\ waiting' = waiting
  BY <1>0, <1>4 DEF SendStatus, Send
<1> QED
  BY <1>1, <1>2, <1>3, <1>4 DEF Begin

\* What the end of a request changes.
LEMMA LeaveEffect ==
  ASSUME IInv, NEW k \in Conns, Leaves(k)
  PROVE  /\ SameTokens /\ Others(k) /\ request[k] # Idle /\ request'[k] = Idle
         /\ impatient' = impatient
         /\ \A b \in Browsers :
              /\ waiting[b] # k => waiting'[b] = waiting[b]
              /\ \/ cookie'[b] = cookie[b]
                 \/ Deliver(k) /\ b = request[k].browser /\ cookie'[b] = request[k].token
<1> USE DEF IInv, LockInv
<1>1. /\ Others(k) /\ request[k] # Idle /\ request'[k] = Idle /\ UNCHANGED session
      /\ impatient' = impatient
  BY Serving DEF Leaves, Deliver, Lose, Drop, Fail, At, End, browser, Others, TypeOK
<1>2. SameTokens
  BY <1>1 DEF SameTokens
<1>3. waiting' = NoLongerWaits(k) \/ waiting' = waiting
  BY DEF Leaves, Deliver, Lose, Drop, Fail, browser
<1>4. ASSUME NEW b \in Browsers
      PROVE  \/ cookie'[b] = cookie[b]
             \/ Deliver(k) /\ b = request[k].browser /\ cookie'[b] = request[k].token
  BY DEF Leaves, Deliver, Lose, Drop, Fail, browser, TypeOK
<1> QED
  BY <1>1, <1>2, <1>3, <1>4 DEF NoLongerWaits

\* Which requests carry a token.
LEMMA CarriesToken ==
  ASSUME IInv, NEW k \in Conns, request[k] # Idle
  PROVE  /\ request[k].token # None => request[k].token \in Token
         /\ request[k].op \in {"refresh", "logout"} /\ request[k].step # "reply" =>
              request[k].token # None
BY NoneAssumption DEF IInv, LockInv, TypeOK, RequestsFit, Request

\* With no refresh more and no token more, those that are left suffice.
LEMMA FewerPending ==
  ASSUME IInv, NEW s \in Sessions, session'[s] # None, session[s] # None,
         session'[s].token = session[s].token, Pending(s)' \subseteq Pending(s)
  PROVE  session'[s].token + Cardinality(Pending(s)') <= MaxTokens
<1> DEFINE before == Pending(s)
           after == Pending(s)'
<1>1. IsFiniteSet(before)
  BY SessionsAssumption, FS_Subset DEF Pending
<1>2. after \subseteq before
  OBVIOUS
<1>3. session[s].token + Cardinality(before) <= MaxTokens
  BY DEF IInv, TokensLast
<1>4. session[s].token \in Nat
  BY SessionsAssumption DEF IInv, LockInv, TypeOK, Row
<1> HIDE DEF before, after
<1>5. IsFiniteSet(after) /\ Cardinality(after) <= Cardinality(before)
  BY <1>1, <1>2, FS_Subset
<1>6. Cardinality(after) \in Nat /\ Cardinality(before) \in Nat
  BY <1>1, <1>5, FS_CardinalityType
<1>7. session'[s].token + Cardinality(after) <= MaxTokens
  BY <1>3, <1>4, <1>5, <1>6, SessionsAssumption
<1> QED
  BY <1>7 DEF after

\* A step that creates no session gives no browser a token of a session it had none of.
LEMMA NobodyElse ==
  ASSUME IInv, [Next]_vars, \A k \in Conns : ~CreateSession(k),
         NEW b \in Browsers, NEW s \in Sessions, Holds(b, s)'
  PROVE  Holds(b, s)
<1> USE DEF Holds
<1>1. CASE Stays
  BY <1>1 DEF Stays, browser
<1>2. ASSUME NEW k \in Conns, GoesOn(k) PROVE Holds(b, s)
  BY <1>2 DEF GoesOn, SameSender, Others, browser
<1>3. ASSUME NEW k \in Conns, Rotate(k) PROVE Holds(b, s)
  <2>1. request[k].token # None /\ request[k].token[1] \in Sessions
    BY <1>3, Serving, CarriesToken DEF Rotate, At, IInv, LockInv, Token
  <2>2. /\ Others(k) /\ SameSender(k) /\ UNCHANGED browser
        /\ request'[k].token[1] = request[k].token[1]
    BY <1>3, <2>1, RotateEffect
  <2> QED
    BY <2>1, <2>2 DEF SameSender, Others, browser
<1>4. ASSUME NEW k \in Conns, Begin(k) PROVE Holds(b, s)
  <2>1. Others(k) /\ request[k] = Idle /\ cookie' = cookie
    BY <1>4, BeginEffect
  <2>2. request'[k].token # None /\ request'[k].browser = b => request'[k].token = cookie[b]
    BY <1>4, BeginEffect
  <2> QED
    BY <2>1, <2>2 DEF Others
<1>5. ASSUME NEW k \in Conns, Leaves(k) PROVE Holds(b, s)
  <2>1. /\ Others(k) /\ request[k] # Idle /\ request'[k] = Idle
        /\ cookie'[b] = cookie[b] \/ (b = request[k].browser /\ cookie'[b] = request[k].token)
    BY <1>5, LeaveEffect
  <2> QED
    BY <2>1 DEF Others
<1>6. ASSUME NEW k \in Conns, Abandon(k) PROVE Holds(b, s)
  BY <1>6 DEF Abandon
<1> QED
  BY <1>1, <1>2, <1>3, <1>4, <1>5, <1>6, StepKind

\* No step but a new session's changes which sessions there are.
LEMMA SessionsStay ==
  ASSUME IInv, [Next]_vars, \A k \in Conns : ~CreateSession(k), NEW s \in Sessions
  PROVE  session'[s] = None <=> session[s] = None
<1>1. ASSUME NEW k \in Conns, Rotate(k) PROVE session'[s] = None <=> session[s] = None
  <2>1. request[k].token[1] \in Sessions
    BY <1>1, Serving, CarriesToken DEF Rotate, At, IInv, LockInv, Token
  <2> QED
    BY <1>1, <2>1, RotateEffect
<1>2. ASSUME NEW k \in Conns, Begin(k) \/ Abandon(k) PROVE session' = session
  BY <1>2, BeginEffect DEF Abandon
<1>3. ASSUME NEW k \in Conns, Leaves(k) PROVE session'[s] = None <=> session[s] = None
  BY <1>3, LeaveEffect DEF SameTokens
<1> QED
  BY <1>1, <1>2, <1>3, StepKind DEF Stays, GoesOn, SameTokens

\* Tokens stay one browser's: a new session's are its browser's alone.
LEMMA StepKeepsOneHome == ASSUME IInv, [Next]_vars PROVE OneHome'
<1>1. CASE \A k \in Conns : ~CreateSession(k)
  BY <1>1, NobodyElse, SessionsStay DEF IInv, OneHome
<1>2. ASSUME NEW k \in Conns, CreateSession(k) PROVE OneHome'
  <2>1. PICK n \in Sessions :
          /\ Others(k) /\ SameSender(k) /\ UNCHANGED browser
          /\ request[k].op \in {"login", "oauth"} /\ request[k].step # "reply"
          /\ session[n] = None /\ session'[n] # None
          /\ request'[k].step = "reply" /\ request'[k].token = <<n, 0>>
          /\ session'[n].token = 0
          /\ \A q \in Sessions \ {n} : session'[q] = session[q]
    BY <1>2, CreateEffect
  <2>2. ASSUME NEW b \in Browsers, NEW s \in Sessions, Holds(b, s)'
        PROVE  Holds(b, s) \/ (s = n /\ b = request[k].browser)
    BY <2>1, <2>2 DEF Holds, Others, SameSender, browser
  <2> QED
    BY <2>1, <2>2 DEF IInv, OneHome
<1> QED
  BY <1>1, <1>2

\* A request keeps its sender.
LEMMA StepKeepsSenders == ASSUME IInv, [Next]_vars PROVE Senders'
<1> USE DEF IInv, Senders
<1>1. CASE Stays
  BY <1>1 DEF Stays
<1>2. ASSUME NEW k \in Conns, GoesOn(k) PROVE Senders'
  BY <1>2 DEF GoesOn, SameSender, Others
<1>3. ASSUME NEW k \in Conns, Rotate(k) PROVE Senders'
  <2>1. request[k].token[1] \in Sessions
    BY <1>3, Serving, CarriesToken DEF Rotate, At, LockInv, Token
  <2> QED
    BY <1>3, <2>1, RotateEffect DEF SameSender, Others
<1>4. ASSUME NEW k \in Conns, CreateSession(k) PROVE Senders'
  BY <1>4, CreateEffect DEF SameSender, Others
<1>5. ASSUME NEW k \in Conns, Begin(k) PROVE Senders'
  BY <1>5, BeginEffect DEF Others
<1>6. ASSUME NEW k \in Conns, Leaves(k) PROVE Senders'
  BY <1>6, LeaveEffect DEF Others
<1>7. ASSUME NEW k \in Conns, Abandon(k) PROVE Senders'
  BY <1>7 DEF Abandon
<1> QED
  BY <1>1, <1>2, <1>3, <1>4, <1>5, <1>6, <1>7, StepKind

\* No step but the sending of a refresh adds one that is to rotate a session.
LEMMA NoMorePending ==
  ASSUME IInv, [Next]_vars, \A k \in Conns : ~Begin(k), NEW s \in Sessions
  PROVE  Pending(s)' \subseteq Pending(s)
<1> USE DEF Pending
<1>1. ASSUME NEW k \in Conns, GoesOn(k) PROVE Pending(s)' \subseteq Pending(s)
  BY <1>1 DEF GoesOn, SameSender, Others
<1>2. ASSUME NEW k \in Conns, Rotate(k) PROVE Pending(s)' \subseteq Pending(s)
  <2>1. request[k].token[1] \in Sessions
    BY <1>2, Serving, CarriesToken DEF Rotate, At, IInv, LockInv, Token
  <2> QED
    BY <1>2, <2>1, RotateEffect DEF SameSender, Others
<1>3. ASSUME NEW k \in Conns, CreateSession(k) PROVE Pending(s)' \subseteq Pending(s)
  BY <1>3, CreateEffect DEF SameSender, Others
<1>4. ASSUME NEW k \in Conns, Leaves(k) PROVE Pending(s)' \subseteq Pending(s)
  BY <1>4, LeaveEffect DEF Others
<1>5. ASSUME Stays \/ \E k \in Conns : Abandon(k) PROVE Pending(s)' = Pending(s)
  BY <1>5 DEF Stays, Abandon
<1> QED
  BY <1>1, <1>2, <1>3, <1>4, <1>5, StepKind

\* A rotation uses the token kept for it, and a refresh is sent when there is one more.
LEMMA StepKeepsTokensLast == ASSUME IInv, [Next]_vars PROVE TokensLast'
<1> SUFFICES ASSUME NEW s \in Sessions, session'[s] # None
             PROVE  session'[s].token + Cardinality(Pending(s)') <= MaxTokens
  BY DEF TokensLast
<1> DEFINE before == Pending(s)
           after == Pending(s)'
           under == InFlight("refresh")
<1>0. IsFiniteSet(before) /\ IsFiniteSet(after) /\ IsFiniteSet(under)
  BY SessionsAssumption, FS_Subset DEF Pending, InFlight
<1>1. /\ Cardinality(before) \in Nat /\ Cardinality(after) \in Nat /\ Cardinality(under) \in Nat
      /\ session[s] # None => session[s].token \in Nat
  BY <1>0, FS_CardinalityType, SessionsAssumption DEF IInv, LockInv, TypeOK, Row
<1>2. ASSUME NEW k \in Conns, CreateSession(k)
      PROVE  session'[s].token + Cardinality(after) <= MaxTokens
  <2>1. after \subseteq before
    BY <1>2, CreateEffect DEF Pending, Others, SameSender
  <2>2. CASE session[s] # None
    BY <1>2, <2>1, <2>2, CreateEffect, FewerPending
  <2>3. CASE session[s] = None
    <3>1. before = {}
      BY <2>3, CarriesToken DEF Pending, IInv, Senders, OneHome, Holds
    <3>2. Cardinality(after) = 0
      BY <2>1, <3>1, FS_EmptySet
    <3>3. session'[s].token = 0
      BY <1>2, <2>3, CreateEffect
    <3> QED
      BY <3>2, <3>3, SessionsAssumption
  <2> QED
    BY <2>2, <2>3
<1>3. ASSUME NEW k \in Conns, Rotate(k)
      PROVE  session'[s].token + Cardinality(after) <= MaxTokens
  <2>1. request[k].token[1] \in Sessions
    BY <1>3, Serving, CarriesToken DEF Rotate, At, IInv, LockInv, Token
  <2>2. CASE s # request[k].token[1]
    <3>1. session'[s] = session[s] /\ after \subseteq before
      BY <1>3, <2>1, <2>2, RotateEffect DEF Pending, Others, SameSender
    <3> QED
      BY <3>1, FewerPending
  <2>3. CASE s = request[k].token[1]
    <3>1. /\ session[s] # None /\ session'[s].token = session[s].token + 1
          /\ k \in before /\ after = before \ {k}
      BY <1>3, <2>1, <2>3, RotateEffect DEF Pending, Others, SameSender
    <3>2. session[s].token + Cardinality(before) <= MaxTokens
      BY <3>1 DEF IInv, TokensLast
    <3> HIDE DEF before, after
    <3>3. Cardinality(after) = Cardinality(before) - 1
      BY <1>0, <3>1, FS_RemoveElement
    <3>4. session'[s].token + Cardinality(after) <= MaxTokens
      BY <1>1, <3>1, <3>2, <3>3, SessionsAssumption
    <3> QED
      BY <3>4 DEF after
  <2> QED
    BY <2>2, <2>3
<1>4. ASSUME NEW k \in Conns, Begin(k)
      PROVE  session'[s].token + Cardinality(after) <= MaxTokens
  <2>1. session' = session /\ Others(k) /\ request[k] = Idle
    BY <1>4, BeginEffect
  <2>2. CASE after \subseteq before
    BY <2>1, <2>2, FewerPending
  <2>3. CASE ~(after \subseteq before)
    <3>1. k \in after /\ after \subseteq before \cup {k}
      BY <2>1, <2>3 DEF Pending, Others
    <3>2. request'[k].op = "refresh" /\ request'[k].token[1] = s
      BY <3>1 DEF Pending
    <3>3. session[s].token + Cardinality(under) < MaxTokens
      BY <1>4, <3>2, BeginEffect
    <3>4. before \subseteq under /\ k \notin under
      BY <2>1 DEF Pending, InFlight
    <3> HIDE DEF before, after, under
    <3>5. after \subseteq under \cup {k}
      BY <3>1, <3>4
    <3>6. IsFiniteSet(under \cup {k}) /\ Cardinality(under \cup {k}) = Cardinality(under) + 1
      BY <1>0, <3>4, FS_AddElement
    <3>7. Cardinality(after) <= Cardinality(under) + 1
      BY <3>5, <3>6, FS_Subset
    <3>8. session'[s].token + Cardinality(after) <= MaxTokens
      BY <1>1, <2>1, <3>3, <3>7, SessionsAssumption
    <3> QED
      BY <3>8 DEF after
  <2> QED
    BY <2>2, <2>3
<1>5. CASE \A k \in Conns : ~CreateSession(k) /\ ~Rotate(k) /\ ~Begin(k)
  <2>1. SameTokens
    BY <1>5, StepKind, LeaveEffect DEF Stays, GoesOn, Abandon, SameTokens
  <2>2. session[s] # None /\ session'[s].token = session[s].token
    BY <2>1 DEF SameTokens
  <2> QED
    BY <1>5, <2>2, NoMorePending, FewerPending
<1> QED
  BY <1>2, <1>3, <1>4, <1>5

\* So the invariant is inductive.
LEMMA NextIInv == IInv /\ [Next]_vars => IInv'
BY StepKeepsLockInv, StepKeepsSenders, StepKeepsOneHome, StepKeepsTokensLast DEF IInv

-----------------------------------------------------------------------------
(* What a browser knows of its session. *)

Waited == {"login", "oauth", "refresh"}

\* A browser that never gave up waits for every request of its that may bring it a token.
Awaited ==
  \A k \in Conns : request[k] # Idle =>
    /\ request[k].op \notin Waited /\ request[k].step = "reply" => request[k].token = None
    /\ request[k].op \in Waited /\ request[k].browser \notin impatient =>
         waiting[request[k].browser] = k

\* The answer it waits for carries the token that is in the row.
AnswerIsCurrent ==
  \A k \in Conns :
    request[k] # Idle /\ request[k].op \in Waited /\ request[k].step = "reply"
      /\ request[k].token # None /\ request[k].browser \notin impatient =>
         session[request[k].token[1]].token = request[k].token[2]

\* An answer to browser b is under way that carries a new token of session s.
Underway(b, s) ==
  \E k \in Conns :
    /\ waiting[b] = k /\ request[k] # Idle /\ request[k].browser = b
    /\ request[k].op = "refresh" /\ request[k].step = "reply"
    /\ request[k].token # None /\ request[k].token[1] = s

\* A browser that has missed no answer has the current token, or the one before while an answer
\* is under way.
CookieIsKnown ==
  \A b \in Browsers :
    cookie[b] # None /\ lost[b] = 0 /\ b \notin impatient =>
      LET row == session[cookie[b][1]]
      IN \/ row.token = cookie[b][2]
         \/ row.previous = cookie[b][2] /\ Underway(b, cookie[b][1])

\* A logout such a browser has sent names the session, and no refresh will change that.
LogoutIsKnown ==
  \A k \in Conns :
    request[k] # Idle /\ request[k].op = "logout" /\ request[k].step # "reply"
      /\ request[k].missed = 0 /\ request[k].browser \notin impatient =>
         LET row == session[request[k].token[1]]
         IN \/ row.token = request[k].token[2]
            \/ row.previous = request[k].token[2] /\ Pending(request[k].token[1]) = {}

KnownInv == IInv /\ Awaited /\ AnswerIsCurrent /\ CookieIsKnown /\ LogoutIsKnown

\* A browser that has missed an answer has the current token or the one before,
CookieIsRecent ==
  \A b \in Browsers :
    cookie[b] # None /\ b \notin impatient =>
      \/ cookie[b][2] \in {session[cookie[b][1]].token, session[cookie[b][1]].previous}
      \/ Underway(b, cookie[b][1])

\* and so has its refresh.
RefreshIsRecent ==
  \A k \in Conns :
    request[k] # Idle /\ request[k].op = "refresh" /\ request[k].step # "reply"
      /\ request[k].browser \notin impatient =>
         request[k].token[2] \in {session[request[k].token[1]].token,
                                  session[request[k].token[1]].previous}

RecentInv == KnownInv /\ CookieIsRecent /\ RefreshIsRecent

\* Nothing is known before the first request.
LEMMA InitRecentInv == Init => RecentInv
BY InitIInv, NoneAssumption
   DEF Init, RecentInv, KnownInv, Awaited, AnswerIsCurrent, CookieIsKnown, LogoutIsKnown,
       CookieIsRecent, RefreshIsRecent, Idle

\* A token that a request carries is one of a session, which its browser holds.
LEMMA RequestHolds ==
  ASSUME IInv, NEW k \in Conns, request[k] # Idle, request[k].token # None
  PROVE  /\ request[k].browser \in Browsers
         /\ request[k].token \in Token /\ request[k].token[1] \in Sessions
         /\ request[k].token[2] \in Nat
         /\ session[request[k].token[1]] # None
         /\ \A c \in Browsers : Holds(c, request[k].token[1]) => c = request[k].browser
<1>1. request[k].token \in Token /\ request[k] \in Request
  BY CarriesToken DEF IInv, LockInv, TypeOK
<1>2. request[k].browser \in Browsers
  BY <1>1 DEF IInv, Senders, Request
<1>3. Holds(request[k].browser, request[k].token[1])
  BY DEF Holds
<1> QED
  BY <1>1, <1>2, <1>3, SessionsAssumption DEF IInv, OneHome, Token

\* So is the token of a cookie.
LEMMA CookieHolds ==
  ASSUME IInv, NEW b \in Browsers, cookie[b] # None
  PROVE  /\ cookie[b] \in Token /\ cookie[b][1] \in Sessions
         /\ session[cookie[b][1]] # None
         /\ \A c \in Browsers : Holds(c, cookie[b][1]) => c = b
<1>1. cookie[b] \in Token
  BY DEF IInv, LockInv, TypeOK
<1>2. Holds(b, cookie[b][1])
  BY DEF Holds
<1> QED
  BY <1>1, <1>2 DEF IInv, OneHome, Token

\* A patient browser waits for one request at a time.
LEMMA OneAwaited ==
  ASSUME Awaited, NEW j \in Conns, NEW k \in Conns, request[j] # Idle, request[k] # Idle,
         request[j].op \in Waited, request[k].op \in Waited,
         request[j].browser = request[k].browser, request[k].browser \notin impatient
  PROVE  j = k
BY DEF Awaited

\* While the answer to a refresh is under way to a patient browser, no other will rotate.
LEMMA NonePendingUnderway ==
  ASSUME IInv, Awaited, NEW b \in Browsers, b \notin impatient, NEW s \in Sessions,
         Underway(b, s)
  PROVE  Pending(s) = {}
<1> SUFFICES ASSUME NEW j \in Pending(s) PROVE FALSE
  OBVIOUS
<1>1. PICK k \in Conns : /\ request[k] # Idle /\ request[k].browser = b
                         /\ request[k].op = "refresh" /\ request[k].step = "reply"
                         /\ request[k].token # None /\ request[k].token[1] = s
  BY DEF Underway
<1>2. j \in Conns /\ request[j] # Idle /\ request[j].op = "refresh" /\ request[j].step # "reply"
        /\ request[j].token # None /\ request[j].token[1] = s
  BY CarriesToken DEF Pending
<1>3. Holds(b, s)
  BY <1>1 DEF Holds
<1>4. request[j].browser = b
  BY <1>2, <1>3, RequestHolds
<1> QED
  BY <1>1, <1>2, <1>4, OneAwaited DEF Waited

\* A rotation, and who may know of it: one browser, which waits for its answer.
LEMMA Rotation ==
  ASSUME IInv, Awaited, NEW k \in Conns, Rotate(k)
  PROVE  \E s \in Sessions, b \in Browsers :
           /\ Others(k) /\ SameSender(k) /\ UNCHANGED browser
           /\ request[k].browser = b /\ request[k].op = "refresh" /\ request[k].step = "locked"
           /\ request[k].token # None /\ request[k].token[1] = s
           /\ session[s] # None
           /\ request'[k].step = "reply" /\ request'[k].token = <<s, session[s].token + 1>>
           /\ request'[k].token # None
           /\ session'[s].token = session[s].token + 1 /\ session'[s].previous = session[s].token
           /\ \A q \in Sessions \ {s} : session'[q] = session[q]
           /\ \A c \in Browsers : Holds(c, s) => c = b
           /\ b \notin impatient =>
                waiting[b] = k /\ \A j \in Conns : j # k /\ request[j] # Idle /\ request[j].op \in Waited
                                                      => request[j].browser # b
<1>1. request[k] # Idle /\ request[k].op = "refresh" /\ request[k].step = "locked"
  BY Serving DEF Rotate, At, IInv, LockInv
<1>2. request[k].token # None
  BY <1>1, CarriesToken
<1>3. PICK s \in Sessions, b \in Browsers : s = request[k].token[1] /\ b = request[k].browser
  BY <1>1, <1>2, RequestHolds
<1>4. \A c \in Browsers : Holds(c, s) => c = b
  BY <1>1, <1>2, <1>3, RequestHolds
<1>5. b \notin impatient =>
        waiting[b] = k /\ \A j \in Conns : j # k /\ request[j] # Idle /\ request[j].op \in Waited
                                             => request[j].browser # b
  BY <1>1, <1>3 DEF Awaited, Waited
<1>6. /\ Others(k) /\ SameSender(k) /\ UNCHANGED browser
      /\ session[s] # None
      /\ request'[k].step = "reply" /\ request'[k].token = <<s, session[s].token + 1>>
      /\ session'[s].token = session[s].token + 1 /\ session'[s].previous = session[s].token
      /\ \A q \in Sessions \ {s} : session'[q] = session[q]
  BY <1>3, RotateEffect
<1>7. request'[k].token # None
  <2>1. session[s].token < MaxTokens
    BY <1>1, <1>3, <1>6, RefreshIsPending DEF IInv, LockInv
  <2>2. session[s].token \in Nat
    BY <1>6, SessionsAssumption DEF IInv, LockInv, TypeOK, Row
  <2>3. <<s, session[s].token + 1>> \in Token
    BY <2>1, <2>2, SessionsAssumption DEF Token
  <2> QED
    BY <1>6, <2>3, NoneAssumption
<1> QED
  BY <1>1, <1>2, <1>3, <1>4, <1>5, <1>6, <1>7

\* What giving up changes.
LEMMA AbandonEffect ==
  ASSUME IInv, NEW k \in Conns, Abandon(k)
  PROVE  /\ SameTokens /\ request' = request /\ cookie' = cookie
         /\ request[k] # Idle /\ request[k].browser \in impatient' /\ impatient \subseteq impatient'
         /\ \A b \in Browsers :
              /\ waiting[b] # k => waiting'[b] = waiting[b]
              /\ b \notin impatient' => lost'[b] = lost[b]
<1>1. request[k].browser \in Browsers
  BY DEF Abandon, IInv, Senders
<1> QED
  BY <1>1 DEF Abandon, SameTokens, NoLongerWaits, IInv, LockInv, TypeOK

\* What is under way to a patient browser stays so until it arrives.
LEMMA UnderwayStays ==
  ASSUME IInv, Awaited, [Next]_vars, NEW b \in Browsers, b \notin impatient', NEW s,
         Underway(b, s), \A k \in Conns : Leaves(k) => waiting[b] # k
  PROVE  Underway(b, s)'
<1>1. PICK w \in Conns :
        /\ waiting[b] = w /\ request[w] # Idle /\ request[w].browser = b
        /\ request[w].op = "refresh" /\ request[w].step = "reply"
        /\ request[w].token # None /\ request[w].token[1] = s
  BY DEF Underway
<1>2. SUFFICES request'[w] = request[w] /\ waiting'[b] = w
  BY <1>1 DEF Underway
<1>3. CASE Stays
  BY <1>1, <1>3 DEF Stays, browser
<1>4. ASSUME NEW k \in Conns, GoesOn(k) PROVE request'[w] = request[w] /\ waiting'[b] = w
  BY <1>1, <1>4 DEF GoesOn, Others, browser
<1>5. ASSUME NEW k \in Conns, Rotate(k) PROVE request'[w] = request[w] /\ waiting'[b] = w
  BY <1>1, <1>5, Rotation DEF Others, browser
<1>6. ASSUME NEW k \in Conns, CreateSession(k) PROVE request'[w] = request[w] /\ waiting'[b] = w
  BY <1>1, <1>6, CreateEffect DEF Others, browser
<1>7. ASSUME NEW k \in Conns, Begin(k) PROVE request'[w] = request[w] /\ waiting'[b] = w
  <2>1. request[k] = Idle /\ Others(k)
    BY <1>7, BeginEffect
  <2>2. waiting' = waiting
          \/ \E c \in Browsers : waiting[c] = None /\ waiting' = [waiting EXCEPT ![c] = k]
    BY <1>7, BeginEffect
  <2> QED
    BY <1>1, <2>1, <2>2, NoneAssumption DEF Others, IInv, LockInv, TypeOK
<1>8. ASSUME NEW k \in Conns, Leaves(k) PROVE request'[w] = request[w] /\ waiting'[b] = w
  <2>1. waiting[b] # k
    BY <1>8
  <2>2. /\ Others(k) /\ request[k] # Idle /\ request'[k] = Idle
        /\ waiting'[b] = waiting[b]
    BY <1>8, <2>1, LeaveEffect
  <2> QED
    BY <1>1, <2>1, <2>2 DEF Others
<1>9. ASSUME NEW k \in Conns, Abandon(k) PROVE request'[w] = request[w] /\ waiting'[b] = w
  BY <1>1, <1>9, AbandonEffect
<1> QED
  BY <1>3, <1>4, <1>5, <1>6, <1>7, <1>8, <1>9, StepKind

\* A patient browser goes on waiting for what it has sent.
LEMMA StepKeepsAwaited == ASSUME IInv, Awaited, [Next]_vars PROVE Awaited'
<1> USE DEF Waited
<1> SUFFICES ASSUME NEW j \in Conns, request'[j] # Idle
             PROVE  /\ request'[j].op \notin Waited /\ request'[j].step = "reply" =>
                         request'[j].token = None
                    /\ request'[j].op \in Waited /\ request'[j].browser \notin impatient' =>
                         waiting'[request'[j].browser] = j
  BY DEF Awaited
<1>1. CASE Stays
  BY <1>1 DEF Stays, browser, Awaited
<1>2. ASSUME NEW k \in Conns, GoesOn(k) PROVE Awaited'
  BY <1>2 DEF GoesOn, Others, SameSender, browser, Awaited
<1>3. ASSUME NEW k \in Conns, Rotate(k) PROVE Awaited'
  BY <1>3, Rotation DEF Others, SameSender, browser, Awaited
<1>4. ASSUME NEW k \in Conns, CreateSession(k) PROVE Awaited'
  BY <1>4, CreateEffect DEF Others, SameSender, browser, Awaited
<1>5. ASSUME NEW k \in Conns, Begin(k) PROVE Awaited'
  <2>1. /\ request[k] = Idle /\ Others(k) /\ impatient' = impatient
        /\ request'[k].step = "sent" /\ DOMAIN waiting = Browsers
    BY <1>5, BeginEffect DEF IInv, LockInv, TypeOK
  <2>2. \/ request'[k].op \notin Waited /\ waiting' = waiting
        \/ \E c \in Browsers : /\ waiting[c] = None /\ waiting' = [waiting EXCEPT ![c] = k]
                               /\ request'[k].browser = c
    BY <1>5, BeginEffect
  <2>3. ASSUME NEW i \in Conns \ {k}, request[i] # Idle, request[i].op \in Waited,
               request[i].browser \notin impatient
        PROVE  waiting'[request[i].browser] = i
    <3>1. waiting[request[i].browser] = i /\ request[i].browser \in Browsers /\ i # None
      BY <2>3, NoneAssumption DEF Awaited, IInv, Senders
    <3> QED
      BY <2>1, <2>2, <3>1
  <2> QED
    BY <2>1, <2>2, <2>3 DEF Others, Awaited
<1>6. ASSUME NEW k \in Conns, Leaves(k) PROVE Awaited'
  <2>1. ASSUME NEW i \in Conns, request[i] # Idle, request[i].op \in Waited
        PROVE  request[i].browser \in Browsers
    BY <2>1 DEF IInv, Senders
  <2>2. /\ Others(k) /\ request'[k] = Idle /\ impatient' = impatient
        /\ \A b \in Browsers : waiting[b] # k => waiting'[b] = waiting[b]
    BY <1>6, LeaveEffect
  <2> QED
    BY <2>1, <2>2 DEF Others, Awaited
<1>7. ASSUME NEW k \in Conns, Abandon(k) PROVE Awaited'
  <2>1. ASSUME NEW i \in Conns, request[i] # Idle, request[i].op \in Waited
        PROVE  request[i].browser \in Browsers
    BY <2>1 DEF IInv, Senders
  <2> QED
    BY <1>7, <2>1, AbandonEffect DEF Awaited
<1> QED
  BY <1>1, <1>2, <1>3, <1>4, <1>5, <1>6, <1>7, StepKind DEF Awaited

\* The session of an answer under way is not rotated before the answer arrives: the one browser
\* that could ask for it waits.
LEMMA StepKeepsAnswer ==
  ASSUME IInv, Awaited, AnswerIsCurrent, [Next]_vars PROVE AnswerIsCurrent'
<1> SUFFICES ASSUME NEW j \in Conns, request'[j] # Idle, request'[j].op \in Waited,
                    request'[j].step = "reply", request'[j].token # None,
                    request'[j].browser \notin impatient'
             PROVE  session'[request'[j].token[1]].token = request'[j].token[2]
  BY DEF AnswerIsCurrent
<1>1. ASSUME request'[j] = request[j], request'[j].browser \notin impatient
      PROVE  /\ request[j].token[1] \in Sessions /\ session[request[j].token[1]] # None
             /\ session[request[j].token[1]].token = request[j].token[2]
             /\ request[j].browser \in Browsers /\ Holds(request[j].browser, request[j].token[1])
             /\ request[j] # Idle /\ request[j].step = "reply" /\ request[j].op \in Waited
  BY <1>1, RequestHolds DEF AnswerIsCurrent, Holds
<1>2. CASE Stays
  BY <1>1, <1>2 DEF Stays, browser, SameTokens
<1>3. ASSUME NEW k \in Conns, GoesOn(k)
      PROVE  session'[request'[j].token[1]].token = request'[j].token[2]
  BY <1>1, <1>3 DEF GoesOn, Others, browser, SameTokens
<1>4. ASSUME NEW k \in Conns, Rotate(k)
      PROVE  session'[request'[j].token[1]].token = request'[j].token[2]
  BY <1>1, <1>4, Rotation DEF Others, browser
<1>5. ASSUME NEW k \in Conns, CreateSession(k)
      PROVE  session'[request'[j].token[1]].token = request'[j].token[2]
  BY <1>1, <1>5, CreateEffect DEF Others, browser
<1>6. ASSUME NEW k \in Conns, Begin(k)
      PROVE  session'[request'[j].token[1]].token = request'[j].token[2]
  BY <1>1, <1>6, BeginEffect DEF Others
<1>7. ASSUME NEW k \in Conns, Leaves(k)
      PROVE  session'[request'[j].token[1]].token = request'[j].token[2]
  BY <1>1, <1>7, LeaveEffect DEF Others, SameTokens
<1>8. ASSUME NEW k \in Conns, Abandon(k)
      PROVE  session'[request'[j].token[1]].token = request'[j].token[2]
  BY <1>1, <1>8, AbandonEffect DEF SameTokens
<1> QED
  BY <1>2, <1>3, <1>4, <1>5, <1>6, <1>7, <1>8, StepKind

\* What the end of a request brings a patient browser: nothing, the token of the row, or a loss.
LEMMA DeliveryEffect ==
  ASSUME IInv, Awaited, AnswerIsCurrent, NEW k \in Conns, Leaves(k), NEW b \in Browsers,
         cookie'[b] # None, b \notin impatient
  PROVE  \/ cookie'[b] = cookie[b] /\ lost'[b] = lost[b] /\ (waiting[b] = k /\ request[k].browser = b
                                                               => request[k].step # "reply")
         \/ cookie'[b][1] \in Sessions /\ session[cookie'[b][1]] # None
              /\ session[cookie'[b][1]].token = cookie'[b][2]
         \/ Lose(k) /\ b = request[k].browser /\ cookie'[b] = cookie[b]
<1> USE DEF IInv, LockInv
<1>1. request[k] # Idle
  BY LeaveEffect
<1>2. CASE Deliver(k)
  <2>1. CASE b = request[k].browser
    <3>1. cookie'[b] = request[k].token /\ request[k].step = "reply"
      BY <1>2, <2>1, NoneAssumption DEF Deliver, TypeOK
    <3>2. request[k].op \in Waited
      BY <1>1, <3>1 DEF Awaited
    <3> QED
      BY <1>1, <2>1, <3>1, <3>2, RequestHolds DEF AnswerIsCurrent
  <2>2. CASE b # request[k].browser
    BY <1>2, <2>2 DEF Deliver, TypeOK
  <2> QED
    BY <2>1, <2>2
<1>3. CASE Lose(k)
  BY <1>3 DEF Lose, TypeOK
<1>4. CASE Drop(k)
  BY <1>4 DEF Drop, At, browser
<1>5. CASE Fail(k)
  BY <1>5 DEF Fail
<1> QED
  BY <1>2, <1>3, <1>4, <1>5 DEF Leaves

\* Who gave up once is not patient again.
LEMMA PatienceIsLost == ASSUME IInv, Awaited, [Next]_vars PROVE impatient \subseteq impatient'
<1>1. ASSUME NEW k \in Conns, Leaves(k) \/ Begin(k) \/ Abandon(k) PROVE impatient \subseteq impatient'
  BY <1>1, LeaveEffect, BeginEffect, AbandonEffect
<1>2. ASSUME NEW k \in Conns, Rotate(k) \/ CreateSession(k) PROVE impatient \subseteq impatient'
  BY <1>2, Rotation, CreateEffect DEF browser
<1> QED
  BY <1>1, <1>2, StepKind DEF Stays, GoesOn, browser

\* What a step does to the cookie of a patient browser and to the row it names: it brings the
\* current token; the answer is lost; nothing; or a rotation begins to be under way.
LEMMA CookieMoves ==
  ASSUME IInv, Awaited, AnswerIsCurrent, [Next]_vars,
         NEW b \in Browsers, cookie'[b] # None, b \notin impatient',
         NEW s, s = cookie[b][1]
  PROVE  \/ session'[cookie'[b][1]].token = cookie'[b][2]
         \/ \E k \in Conns : Lose(k) /\ b = request[k].browser /\ cookie'[b] = cookie[b] /\ SameTokens
         \/ /\ cookie'[b] = cookie[b] /\ lost'[b] = lost[b]
            /\ \/ /\ session'[s].token = session[s].token
                  /\ session'[s].previous = session[s].previous
                  /\ Underway(b, s) => Underway(b, s)'
               \/ /\ ~Underway(b, s)
                  /\ session'[s].previous = session[s].token
                  /\ Underway(b, s)'
<1> DEFINE Kept == cookie'[b] = cookie[b] /\ lost'[b] = lost[b]
           SameRow == session'[s].token = session[s].token
                        /\ session'[s].previous = session[s].previous
           Same == Kept /\ SameRow /\ (Underway(b, s) => Underway(b, s)')
           Rotates == Kept /\ ~Underway(b, s) /\ session'[s].previous = session[s].token
                        /\ Underway(b, s)'
           Fresh == session'[cookie'[b][1]].token = cookie'[b][2]
           Lost == \E k \in Conns :
                     Lose(k) /\ b = request[k].browser /\ cookie'[b] = cookie[b] /\ SameTokens
<1> SUFFICES Fresh \/ Lost \/ Same \/ Rotates
  OBVIOUS
<1>0. b \notin impatient
  BY PatienceIsLost
<1>1. ASSUME Kept, SameTokens PROVE SameRow
  BY <1>1, CookieHolds DEF SameTokens
<1>2. ASSUME NEW k \in Conns, Leaves(k)
      PROVE  Fresh \/ Lost \/ Same
  <2>0. SameTokens /\ Others(k)
    BY <1>2, LeaveEffect
  <2>1. CASE Kept /\ (waiting[b] = k /\ request[k].browser = b => request[k].step # "reply")
    <3>1. ASSUME Underway(b, s) PROVE waiting[b] # k
      BY <2>1, <3>1 DEF Underway
    <3>2. \A j \in Conns : Leaves(j) => j = k
      BY <2>0, LeaveEffect DEF Others
    <3> QED
      BY <1>0, <1>1, <2>0, <2>1, <3>1, <3>2, UnderwayStays
  <2>2. CASE cookie'[b][1] \in Sessions /\ session[cookie'[b][1]] # None
               /\ session[cookie'[b][1]].token = cookie'[b][2]
    BY <2>0, <2>2 DEF SameTokens
  <2>3. CASE Lose(k) /\ b = request[k].browser /\ cookie'[b] = cookie[b]
    BY <2>0, <2>3
  <2>4. \/ cookie'[b] = cookie[b] /\ lost'[b] = lost[b] /\ (waiting[b] = k /\ request[k].browser = b
                                                               => request[k].step # "reply")
        \/ cookie'[b][1] \in Sessions /\ session[cookie'[b][1]] # None
             /\ session[cookie'[b][1]].token = cookie'[b][2]
        \/ Lose(k) /\ b = request[k].browser /\ cookie'[b] = cookie[b]
    BY <1>0, <1>2, DeliveryEffect
  <2> HIDE DEF Fresh, Lost, Same
  <2> QED
    BY <2>1, <2>2, <2>3, <2>4
<1>3. CASE \A k \in Conns : ~Leaves(k)
  <2>0. Underway(b, s) => Underway(b, s)'
    BY <1>0, <1>3, UnderwayStays
  <2>1. ASSUME NEW k \in Conns, Rotate(k) PROVE Same \/ Rotates
    <3>1. PICK n \in Sessions, c \in Browsers :
           /\ Others(k) /\ SameSender(k) /\ UNCHANGED browser
           /\ request[k].browser = c /\ request[k].op = "refresh" /\ request[k].step = "locked"
           /\ request'[k].step = "reply" /\ request'[k].token = <<n, session[n].token + 1>>
           /\ request'[k].token # None
           /\ session'[n].previous = session[n].token
           /\ \A q \in Sessions \ {n} : session'[q] = session[q]
           /\ \A d \in Browsers : Holds(d, n) => d = c
           /\ c \notin impatient => waiting[c] = k
      BY <2>1, Rotation
    <3>2. Kept
      BY <3>1 DEF browser
    <3>3. CASE s # n
      BY <2>0, <3>1, <3>2, <3>3, CookieHolds
    <3>4. CASE s = n
      <4>1. c = b /\ waiting[b] = k
        BY <1>0, <3>1, <3>2, <3>4 DEF Holds
      <4>2. ~Underway(b, s)
        BY <3>1, <4>1 DEF Underway
      <4>3. /\ waiting'[b] = k /\ request'[k] # Idle /\ request'[k].browser = b
            /\ request'[k].op = "refresh" /\ request'[k].step = "reply"
            /\ request'[k].token # None /\ request'[k].token[1] = s
        BY <3>1, <3>4, <4>1 DEF SameSender, browser
      <4>4. Underway(b, s)'
        BY <4>3 DEF Underway
      <4> QED
        BY <3>1, <3>2, <3>4, <4>2, <4>4
    <3> HIDE DEF Same, Rotates
    <3> QED
      BY <3>3, <3>4
  <2>2. ASSUME NEW k \in Conns, CreateSession(k) PROVE Same
    BY <2>0, <2>2, CreateEffect, CookieHolds DEF browser
  <2>3. ASSUME NEW k \in Conns, Begin(k) PROVE Same
    BY <2>0, <2>3, BeginEffect
  <2>4. ASSUME NEW k \in Conns, Abandon(k) PROVE Same
    BY <1>1, <2>0, <2>4, AbandonEffect
  <2>5. ASSUME NEW k \in Conns, GoesOn(k) PROVE Same
    BY <1>1, <2>0, <2>5 DEF GoesOn, browser
  <2>6. ASSUME Stays PROVE Same
    BY <1>1, <2>0, <2>6 DEF Stays, browser
  <2> HIDE DEF Same, Rotates
  <2> QED
    BY <1>3, <2>1, <2>2, <2>3, <2>4, <2>5, <2>6, StepKind
<1> HIDE DEF Fresh, Lost, Same, Rotates
<1> QED
  BY <1>2, <1>3

\* So a browser that has missed no answer goes on knowing its session,
LEMMA StepKeepsCookie ==
  ASSUME IInv, Awaited, AnswerIsCurrent, CookieIsKnown, [Next]_vars PROVE CookieIsKnown'
<1> SUFFICES ASSUME NEW b \in Browsers, cookie'[b] # None, lost'[b] = 0, b \notin impatient'
             PROVE  \/ session'[cookie'[b][1]].token = cookie'[b][2]
                    \/ /\ session'[cookie'[b][1]].previous = cookie'[b][2]
                       /\ Underway(b, cookie[b][1])'
  BY DEF CookieIsKnown
<1>1. b \notin impatient
  BY PatienceIsLost
<1>2. ASSUME NEW k \in Conns, Lose(k), b = request[k].browser PROVE FALSE
  <2>1. lost'[b] = lost[b] + 1 /\ lost[b] \in Nat
    BY <1>2, SessionsAssumption DEF Lose, IInv, LockInv, TypeOK
  <2> QED
    BY <2>1
<1>3. PICK s : s = cookie[b][1]
  OBVIOUS
<1>4. \/ session'[cookie'[b][1]].token = cookie'[b][2]
      \/ cookie'[b] = cookie[b] /\ lost'[b] = lost[b]
           /\ \/ /\ session'[s].token = session[s].token
                 /\ session'[s].previous = session[s].previous
                 /\ Underway(b, s) => Underway(b, s)'
              \/ /\ ~Underway(b, s)
                 /\ session'[s].previous = session[s].token
                 /\ Underway(b, s)'
  BY <1>2, <1>3, CookieMoves
<1>5. CASE cookie'[b] = cookie[b] /\ lost'[b] = lost[b]
  <2>1. \/ session[s].token = cookie[b][2]
        \/ session[s].previous = cookie[b][2] /\ Underway(b, s)
    BY <1>1, <1>3, <1>5 DEF CookieIsKnown
  <2>2. cookie'[b][1] = s /\ cookie'[b][2] = cookie[b][2]
    BY <1>3, <1>5
  <2>3. Underway(b, cookie[b][1])' <=> Underway(b, s)'
    BY <2>2 DEF Underway
  <2> QED
    BY <1>4, <2>1, <2>2, <2>3
<1> QED
  BY <1>4, <1>5

\* and one that misses an answer had the current token, which one rotation makes the previous.
LEMMA StepKeepsRecentCookie ==
  ASSUME MaxLost <= 1, KnownInv, CookieIsRecent, [Next]_vars PROVE CookieIsRecent'
<1> USE DEF KnownInv
<1> SUFFICES ASSUME NEW b \in Browsers, cookie'[b] # None, b \notin impatient'
             PROVE  \/ cookie'[b][2] \in {session'[cookie'[b][1]].token,
                                          session'[cookie'[b][1]].previous}
                    \/ Underway(b, cookie[b][1])'
  BY DEF CookieIsRecent
<1>1. b \notin impatient
  BY PatienceIsLost
<1>2. ASSUME NEW k \in Conns, Lose(k), b = request[k].browser, cookie'[b] = cookie[b], SameTokens
      PROVE  cookie[b][2] \in {session'[cookie[b][1]].token, session'[cookie[b][1]].previous}
  <2>1. lost[b] = 0
    BY <1>2, SessionsAssumption DEF Lose, IInv, LockInv, TypeOK
  <2>2. cookie[b][2] \in {session[cookie[b][1]].token, session[cookie[b][1]].previous}
    BY <1>1, <1>2, <2>1 DEF CookieIsKnown
  <2> QED
    BY <1>2, <2>2, CookieHolds DEF SameTokens
<1>3. PICK s : s = cookie[b][1]
  OBVIOUS
<1>4. \/ session'[cookie'[b][1]].token = cookie'[b][2]
      \/ \E k \in Conns : Lose(k) /\ b = request[k].browser /\ cookie'[b] = cookie[b] /\ SameTokens
      \/ cookie'[b] = cookie[b]
           /\ \/ /\ session'[s].token = session[s].token
                 /\ session'[s].previous = session[s].previous
                 /\ Underway(b, s) => Underway(b, s)'
              \/ Underway(b, s)'
  BY <1>3, CookieMoves
<1>5. CASE cookie'[b] = cookie[b]
  <2>1. cookie[b][2] \in {session[s].token, session[s].previous} \/ Underway(b, s)
    BY <1>1, <1>3, <1>5 DEF CookieIsRecent
  <2>2. cookie'[b][1] = s /\ cookie'[b][2] = cookie[b][2]
    BY <1>3, <1>5
  <2>3. Underway(b, cookie[b][1])' <=> Underway(b, s)'
    BY <2>2 DEF Underway
  <2> QED
    BY <1>2, <1>3, <1>4, <1>5, <2>1, <2>2, <2>3
<1> QED
  BY <1>4, <1>5

\* A request that is still to be served was sent before, or is being sent.
LEMMA StillInFlight ==
  ASSUME IInv, Awaited, [Next]_vars, NEW j \in Conns, request'[j] # Idle,
         request'[j].op \in {"refresh", "logout"}, request'[j].step # "reply"
  PROVE  \/ Begin(j)
         \/ /\ request[j] # Idle /\ request[j].step # "reply"
            /\ request'[j].op = request[j].op /\ request'[j].browser = request[j].browser
            /\ request'[j].token = request[j].token /\ request'[j].missed = request[j].missed
            /\ request[j].token # None
<1> DEFINE Same == /\ request[j] # Idle /\ request[j].step # "reply"
                   /\ request'[j].op = request[j].op /\ request'[j].browser = request[j].browser
                   /\ request'[j].token = request[j].token /\ request'[j].missed = request[j].missed
<1>1. ASSUME request'[j] = request[j] PROVE Same
  BY <1>1
<1>2. ASSUME NEW k \in Conns, GoesOn(k) PROVE Same
  BY <1>1, <1>2 DEF GoesOn, Others, SameSender
<1>3. ASSUME NEW k \in Conns, Rotate(k) PROVE Same
  BY <1>1, <1>3, Rotation DEF Others
<1>4. ASSUME NEW k \in Conns, CreateSession(k) PROVE Same
  BY <1>1, <1>4, CreateEffect DEF Others
<1>5. ASSUME NEW k \in Conns, Begin(k) PROVE Begin(j) \/ Same
  BY <1>1, <1>5, BeginEffect DEF Others
<1>6. ASSUME NEW k \in Conns, Leaves(k) PROVE Same
  BY <1>1, <1>6, LeaveEffect DEF Others
<1>7. ASSUME NEW k \in Conns, Abandon(k) PROVE Same
  BY <1>1, <1>7, AbandonEffect
<1>8. ASSUME Stays PROVE Same
  BY <1>1, <1>8 DEF Stays
<1>9. ASSUME Same PROVE request[j].token # None
  BY <1>9, CarriesToken
<1> HIDE DEF Same
<1>10. Begin(j) \/ Same
  BY <1>2, <1>3, <1>4, <1>5, <1>6, <1>7, <1>8, StepKind
<1> QED
  BY <1>9, <1>10 DEF Same

\* What a step does to the tokens of a session that is there.
LEMMA TokensMove ==
  ASSUME IInv, Awaited, [Next]_vars, NEW s \in Sessions, session[s] # None
  PROVE  \/ session'[s].token = session[s].token /\ session'[s].previous = session[s].previous
         \/ \E k \in Conns : Rotate(k) /\ request[k].token[1] = s
<1>1. ASSUME NEW k \in Conns, Rotate(k), request[k].token[1] # s PROVE session'[s] = session[s]
  BY <1>1, Rotation
<1>2. ASSUME NEW k \in Conns, CreateSession(k) PROVE session'[s] = session[s]
  BY <1>2, CreateEffect
<1>3. ASSUME NEW k \in Conns, Begin(k) PROVE session' = session
  BY <1>3, BeginEffect
<1>4. ASSUME NEW k \in Conns, Leaves(k) \/ Abandon(k) PROVE SameTokens
  BY <1>4, LeaveEffect, AbandonEffect
<1> QED
  BY <1>1, <1>2, <1>3, <1>4, StepKind DEF Stays, GoesOn, SameTokens

\* A logout goes on naming its session: after the one rotation that was pending there is no other.
LEMMA StepKeepsLogout ==
  ASSUME IInv, Awaited, CookieIsKnown, LogoutIsKnown, [Next]_vars PROVE LogoutIsKnown'
<1> SUFFICES ASSUME NEW j \in Conns, request'[j] # Idle, request'[j].op = "logout",
                    request'[j].step # "reply", request'[j].missed = 0,
                    request'[j].browser \notin impatient'
             PROVE  \/ session'[request'[j].token[1]].token = request'[j].token[2]
                    \/ /\ session'[request'[j].token[1]].previous = request'[j].token[2]
                       /\ Pending(request[j].token[1])' = {}
  BY DEF LogoutIsKnown
<1>0. request'[j].browser \notin impatient
  BY PatienceIsLost
<1>1. CASE Begin(j)
  <2>1. PICK b \in Browsers :
          /\ request'[j].browser = b /\ request'[j].missed = lost[b]
          /\ request'[j].token = cookie[b] /\ cookie[b] # None
    BY <1>1, BeginEffect
  <2>2. session' = session /\ Others(j) /\ request[j] = Idle
    BY <1>1, BeginEffect
  <2>3. PICK s \in Sessions : s = cookie[b][1]
    BY <2>1, CookieHolds
  <2>4. Pending(s)' = Pending(s)
    BY <2>2 DEF Pending, Others
  <2>5. \/ session[s].token = cookie[b][2]
        \/ session[s].previous = cookie[b][2] /\ Pending(s) = {}
    BY <1>0, <2>1, <2>3, NonePendingUnderway DEF CookieIsKnown
  <2>6. request'[j].token[1] = s /\ request'[j].token[2] = cookie[b][2]
    BY <2>1, <2>3
  <2>7. Pending(request[j].token[1])' = Pending(s)'
    BY <2>6 DEF Pending
  <2> QED
    BY <2>2, <2>4, <2>5, <2>6, <2>7
<1>2. CASE ~Begin(j)
  <2>1. /\ request[j] # Idle /\ request[j].step # "reply" /\ request[j].op = "logout"
        /\ request'[j].browser = request[j].browser /\ request'[j].token = request[j].token
        /\ request[j].missed = 0 /\ request[j].token # None
    BY <1>2, StillInFlight
  <2>2. PICK s \in Sessions, b \in Browsers : s = request[j].token[1] /\ b = request[j].browser
    BY <2>1, RequestHolds
  <2>3. session[s] # None /\ \A c \in Browsers : Holds(c, s) => c = b
    BY <2>1, <2>2, RequestHolds
  <2>4. \/ session[s].token = request[j].token[2]
        \/ session[s].previous = request[j].token[2] /\ Pending(s) = {}
    BY <1>0, <2>1, <2>2 DEF LogoutIsKnown
  <2>5. SUFFICES \/ session'[s].token = request[j].token[2]
                 \/ session'[s].previous = request[j].token[2] /\ Pending(s)' = {}
    <3>1. Pending(request[j].token[1])' = Pending(s)'
      BY <2>1, <2>2 DEF Pending
    <3> QED
      BY <2>1, <2>2, <3>1
  <2>6. CASE session'[s].token = session[s].token /\ session'[s].previous = session[s].previous
    <3>1. Pending(s)' \subseteq Pending(s)
      <4>1. SUFFICES ASSUME NEW k \in Conns, Begin(k) PROVE Pending(s)' \subseteq Pending(s)
        BY NoMorePending
      <4>2. Others(k) /\ request[k] = Idle
        BY <4>1, BeginEffect
      <4>3. ASSUME request'[k].op = "refresh", request'[k].token[1] = s PROVE FALSE
        <5>1. PICK c \in Browsers :
                /\ request'[k].token = cookie[c] /\ cookie[c] # None
                /\ \A i \in Conns : request[i] # Idle /\ request[i].op = "logout" =>
                     request[i].browser # c
          BY <4>1, <4>3, BeginEffect
        <5>2. c = b
          BY <2>3, <4>3, <5>1 DEF Holds
        <5> QED
          BY <2>1, <2>2, <5>1, <5>2
      <4> QED
        BY <4>2, <4>3 DEF Pending, Others
    <3> QED
      BY <2>4, <2>6, <3>1
  <2>7. ASSUME NEW k \in Conns, Rotate(k), request[k].token[1] = s
        PROVE  session'[s].previous = request[j].token[2] /\ Pending(s)' = {}
    <3>1. /\ Others(k) /\ SameSender(k) /\ request'[k].step = "reply"
          /\ request[k].op = "refresh" /\ request[k].step = "locked" /\ request[k] # Idle
          /\ session'[s].previous = session[s].token
          /\ request[k].browser = b
          /\ \A i \in Conns : i # k /\ request[i] # Idle /\ request[i].op \in Waited
                                => request[i].browser # b
      <4>1. PICK c \in Browsers :
              /\ Others(k) /\ SameSender(k) /\ request'[k].step = "reply"
              /\ request[k].op = "refresh" /\ request[k].step = "locked"
              /\ request[k].token # None
              /\ session'[s].previous = session[s].token
              /\ request[k].browser = c
              /\ c \notin impatient =>
                   \A i \in Conns : i # k /\ request[i] # Idle /\ request[i].op \in Waited
                                      => request[i].browser # c
        BY <2>7, Rotation
      <4>2. request[k] # Idle /\ c = b
        BY <2>3, <2>7, <4>1 DEF SameSender, Holds
      <4> QED
        BY <1>0, <2>1, <2>2, <4>1, <4>2
    <3>2. k \in Pending(s)
      BY <2>7, <3>1 DEF Pending
    <3>3. Pending(s)' = {}
      <4>1. SUFFICES ASSUME NEW i \in Conns, request'[i] # Idle, request'[i].op = "refresh",
                            request'[i].step # "reply", request'[i].token[1] = s
                     PROVE FALSE
        BY DEF Pending
      <4>2. i # k /\ request'[i] = request[i]
        BY <3>1, <4>1 DEF Others
      <4>3. request[i].token # None /\ request[i].browser = b
        BY <2>2, <2>3, <4>1, <4>2, CarriesToken, RequestHolds DEF Holds
      <4> QED
        BY <3>1, <4>1, <4>2, <4>3 DEF Waited
    <3> QED
      BY <2>4, <3>1, <3>2, <3>3
  <2> QED
    BY <2>3, <2>6, <2>7, TokensMove
<1> QED
  BY <1>1, <1>2

\* Nobody rotates the session while the refresh of its browser is to be served.
LEMMA StepKeepsRecentRefresh ==
  ASSUME KnownInv, CookieIsRecent, RefreshIsRecent, [Next]_vars PROVE RefreshIsRecent'
<1> USE DEF KnownInv
<1> SUFFICES ASSUME NEW j \in Conns, request'[j] # Idle, request'[j].op = "refresh",
                    request'[j].step # "reply", request'[j].browser \notin impatient'
             PROVE  request'[j].token[2] \in {session'[request'[j].token[1]].token,
                                              session'[request'[j].token[1]].previous}
  BY DEF RefreshIsRecent
<1>0. request'[j].browser \notin impatient
  BY PatienceIsLost
<1>1. CASE Begin(j)
  <2>1. PICK b \in Browsers :
          /\ request'[j].browser = b /\ request'[j].token = cookie[b] /\ cookie[b] # None
          /\ waiting[b] = None
    BY <1>1, BeginEffect
  <2>2. session' = session
    BY <1>1, BeginEffect
  <2>3. ~Underway(b, cookie[b][1])
    BY <2>1, NoneAssumption DEF Underway
  <2> QED
    BY <1>0, <2>1, <2>2, <2>3 DEF CookieIsRecent
<1>2. CASE ~Begin(j)
  <2>1. /\ request[j] # Idle /\ request[j].step # "reply" /\ request[j].op = "refresh"
        /\ request'[j].browser = request[j].browser /\ request'[j].token = request[j].token
        /\ request[j].token # None
    BY <1>2, StillInFlight
  <2>2. PICK s \in Sessions, b \in Browsers : s = request[j].token[1] /\ b = request[j].browser
    BY <2>1, RequestHolds
  <2>3. session[s] # None /\ \A c \in Browsers : Holds(c, s) => c = b
    BY <2>1, <2>2, RequestHolds
  <2>4. request[j].token[2] \in {session[s].token, session[s].previous}
    BY <1>0, <2>1, <2>2 DEF RefreshIsRecent
  <2>5. ASSUME NEW k \in Conns, Rotate(k), request[k].token[1] = s PROVE FALSE
    <3>1. PICK c \in Browsers :
            /\ SameSender(k) /\ request'[k].step = "reply" /\ request[k].op = "refresh"
            /\ request[k].token # None /\ request[k].browser = c
      BY <2>5, Rotation
    <3>2. request[k] # Idle /\ c = b
      BY <2>3, <2>5, <3>1 DEF SameSender, Holds
    <3>3. j = k
      BY <1>0, <2>1, <2>2, <3>1, <3>2, OneAwaited DEF Waited
    <3> QED
      BY <3>1, <3>3
  <2>6. session'[s].token = session[s].token /\ session'[s].previous = session[s].previous
    BY <2>3, <2>5, TokensMove
  <2> QED
    BY <2>1, <2>2, <2>4, <2>6
<1> QED
  BY <1>1, <1>2

\* A browser's knowledge is kept by every step,
LEMMA NextKnownInv == KnownInv /\ [Next]_vars => KnownInv'
BY NextIInv, StepKeepsAwaited, StepKeepsAnswer, StepKeepsCookie, StepKeepsLogout DEF KnownInv

\* and so is that of one that has missed at most one answer.
LEMMA NextRecentInv == ASSUME MaxLost <= 1 PROVE RecentInv /\ [Next]_vars => RecentInv'
BY NextKnownInv, StepKeepsRecentCookie, StepKeepsRecentRefresh DEF RecentInv

-----------------------------------------------------------------------------

\* No interleaving of a login, a refresh and a ban leaves a banned user a live session that a
\* password login began: a login keeps the lock of the user's row from its look at the status to
\* its insert, and a refresh the lock of the session (CredentialService.Login, RotateSession).
THEOREM NoSessionWhileBanned == Spec => []BannedHasNoSession
<1>1. IInv => BannedHasNoSession
  BY DEF IInv, LockInv
<1> QED
  BY <1>1, InitIInv, NextIInv, PTL DEF Spec

\* Only these steps write the table.
LEMMA SessionWriter ==
  ASSUME [Next]_vars, session' # session
  PROVE \E k \in Conns : Rotate(k) \/ Logout(k) \/ CreateSession(k) \/ Ban(k)
BY DEF Next, Begin, Serve, vars, browser, Tick, Send, SendRefresh, SendLogout, SendLogin,
       SendStatus, Arrive, LockSession, LockRow, RefuseRefresh, LockCredentials, RefuseLogin,
       LockUser, Unban, Deliver, End, Lose, Abandon, Drop, Fail

\* A revoked session is never written again: what a refresh found live under FOR UPDATE is still
\* live when it writes, since a logout and a ban wait for that lock (RotateSession).
THEOREM RevokedStaysRevoked == Spec => RevocationIsFinal
<1>1. IInv /\ [Next]_vars =>
        [\A s \in Sessions :
           session[s] # None /\ session[s].revoked => session'[s] = session[s]]_vars
  <2> SUFFICES ASSUME IInv, [Next]_vars, NEW s \in Sessions, session[s] # None,
                      session[s].revoked, session' # session
               PROVE session'[s] = session[s]
    OBVIOUS
  <2>1. PICK k \in Conns : Rotate(k) \/ Logout(k) \/ CreateSession(k) \/ Ban(k)
    BY SessionWriter
  <2>2. CASE Rotate(k)
    <3>1. Live(request[k].token[1])
      BY <2>2 DEF Rotate, At, IInv, LockInv, StillSo
    <3> QED
      BY <2>2, <3>1 DEF Rotate, Live, IInv, LockInv, TypeOK
  <2>3. CASE Logout(k)
    BY <2>3 DEF Logout, Live, IInv, LockInv, TypeOK
  <2>4. CASE CreateSession(k)
    BY <2>4 DEF CreateSession, IInv, LockInv, TypeOK
  <2>5. CASE Ban(k)
    BY <2>5 DEF Ban, SessionsOf, Live
  <2> QED
    BY <2>1, <2>2, <2>3, <2>4, <2>5
<1> QED
  BY <1>1, InitIInv, NextIInv, PTL DEF Spec, RevocationIsFinal

\* Tables, requests, locks and cookies keep their shape; a row has a previous token exactly when
\* it has a window for it (chk_sessions_previous_token_pair).
THEOREM SessionTypeCorrect == Spec => []TypeOK
<1>1. IInv => TypeOK
  BY DEF IInv, LockInv
<1> QED
  BY <1>1, InitIInv, NextIInv, PTL DEF Spec

\* A first statement is answered by the request's own step.
LEMMA AnswersItself ==
  ASSUME IInv, [Next]_vars, NEW k \in Conns, NEW op, Answered(k, op)
  PROVE  /\ request[k] # Idle
         /\ op = "logout" => Logout(k)
         /\ op = "refresh" => RefuseRefresh(k)
<1> USE DEF Answered, At
<1>1. request[k] # Idle /\ request[k].step = "begun" /\ request[k].op = op
        /\ request'[k].step = "reply" /\ request'[k] # request[k]
  BY Serving DEF IInv, LockInv
<1>2. ASSUME NEW j \in Conns, Serve(j) PROVE j = k
  <2>1. GoesOn(j) \/ Rotate(j) \/ CreateSession(j)
    BY <1>2, RequestGoesOn DEF Serve
  <2>2. Others(j)
    <3>1. ASSUME Rotate(j) PROVE Others(j)
      <4>1. request[j].token[1] \in Sessions
        BY <3>1, Serving, CarriesToken DEF Rotate, IInv, LockInv, Token
      <4> QED
        BY <3>1, <4>1, RotateEffect
    <3> QED
      BY <2>1, <3>1, CreateEffect DEF GoesOn
  <2> QED
    BY <1>1, <2>2 DEF Others
<1>3. ASSUME NEW j \in Conns, Leaves(j) PROVE FALSE
  BY <1>1, <1>3, LeaveEffect DEF Others
<1>4. ASSUME NEW j \in Conns, Begin(j) PROVE FALSE
  BY <1>1, <1>4, BeginEffect DEF Others
<1>5. ASSUME NEW j \in Conns, Abandon(j) PROVE FALSE
  BY <1>1, <1>5 DEF Abandon
<1>6. Serve(k)
  <2>1. ASSUME Tick \/ UNCHANGED vars PROVE FALSE
    BY <1>1, <2>1 DEF Tick, vars
  <2>2. PICK j \in Conns : Begin(j) \/ Serve(j) \/ Leaves(j) \/ Abandon(j)
    BY <2>1 DEF Next, Leaves
  <2> QED
    BY <1>2, <1>3, <1>4, <1>5, <2>2
<1>7. ~Arrive(k)
  BY <1>1 DEF Arrive
<1>8. ~LockSession(k)
  <2>1. request[k] \in Request
    BY <1>1, Serving DEF IInv, LockInv
  <2>2. ASSUME LockSession(k) PROVE request'[k] = [request[k] EXCEPT !.step = "locked"]
    BY <2>2 DEF LockSession, LockRow, IInv, LockInv, TypeOK
  <2> QED
    BY <1>1, <2>1, <2>2 DEF Request
<1>9. ASSUME LockSession(k) \/ RefuseRefresh(k) PROVE request[k].op = "refresh"
  BY <1>9 DEF LockSession, RefuseRefresh
<1>10. ~Rotate(k)
  BY <1>1 DEF Rotate
<1>11. ASSUME Logout(k) PROVE request[k].op = "logout"
  BY <1>11 DEF Logout
<1>12. ASSUME LockCredentials(k) \/ RefuseLogin(k) \/ CreateSession(k)
       PROVE  request[k].op \in {"login", "oauth"}
  BY <1>12 DEF LockCredentials, RefuseLogin, CreateSession
<1>13. ASSUME LockUser(k) \/ Ban(k) \/ Unban(k) PROVE request[k].op \in {"ban", "unban"}
  BY <1>13 DEF LockUser, Ban, Unban
<1> QED
  BY <1>1, <1>6, <1>7, <1>8, <1>9, <1>10, <1>11, <1>12, <1>13 DEF Serve

\* The logout of a browser that has missed no answer revokes its session, in any interleaving
\* with the refreshes of that browser: RevokeSession accepts the previous token, too.
THEOREM LogoutEndsTheSession == Spec => LogoutEndsKnownSession
<1>1. Init => KnownInv
  BY InitRecentInv DEF RecentInv
<1>2. KnownInv /\ [Next]_vars =>
        [\A k \in Conns :
           Answered(k, "logout") /\ request[k].missed = 0 /\ request[k].browser \notin impatient =>
             session'[request[k].token[1]].revoked]_vars
  <2> SUFFICES ASSUME KnownInv, [Next]_vars, NEW k \in Conns, Answered(k, "logout"),
                      request[k].missed = 0, request[k].browser \notin impatient
               PROVE  session'[request[k].token[1]].revoked
    OBVIOUS
  <2> USE DEF KnownInv
  <2>1. Logout(k) /\ request[k] # Idle
    BY AnswersItself
  <2>2. request[k].op = "logout" /\ request[k].step # "reply" /\ request[k].token # None
    BY <2>1, CarriesToken DEF Logout, At
  <2>3. PICK s \in Sessions : s = request[k].token[1]
    BY <2>1, <2>2, RequestHolds
  <2>4. session[s] # None /\ session[s] \in Row
    BY <2>1, <2>2, <2>3, RequestHolds DEF IInv, LockInv, TypeOK
  <2>5. request[k].token[2] \in {session[s].token, session[s].previous}
    BY <2>1, <2>2, <2>3 DEF LogoutIsKnown
  <2>6. Presents(s, request[k].token)
    BY <2>3, <2>4, <2>5 DEF Presents
  <2>7. session' = IF Live(s) THEN [session EXCEPT ![s].revoked = TRUE] ELSE session
    BY <2>1, <2>3, <2>6 DEF Logout
  <2> QED
    BY <2>3, <2>4, <2>7 DEF Live, Row, IInv, LockInv, TypeOK
<1> QED
  BY <1>1, <1>2, NextKnownInv, PTL DEF Spec, LogoutEndsKnownSession

\* A browser that loses at most one answer in a row, as the API expects (api/openapi.yaml:143),
\* and repeats the refresh is refused only when the session has ended or the window of the
\* rotation it missed has passed, whatever else runs: RotateSession accepts the token before.
THEOREM LostAnswerIsRepeated ==
  ASSUME MaxLost <= 1
  PROVE  Spec => RetryIsServed
<1>1. RecentInv /\ [Next]_vars =>
        [\A k \in Conns :
           Answered(k, "refresh") /\ request[k].browser \notin impatient =>
             LET row == session[request[k].token[1]]
                 now == request[k].now
             IN row.revoked \/ row.expires <= now \/ row.validUntil < now]_vars
  <2> SUFFICES ASSUME RecentInv, [Next]_vars, NEW k \in Conns, Answered(k, "refresh"),
                      request[k].browser \notin impatient
               PROVE  LET row == session[request[k].token[1]]
                          now == request[k].now
                      IN row.revoked \/ row.expires <= now \/ row.validUntil < now
    OBVIOUS
  <2> USE DEF RecentInv, KnownInv
  <2>1. RefuseRefresh(k) /\ request[k] # Idle
    BY AnswersItself
  <2>2. request[k].op = "refresh" /\ request[k].step # "reply" /\ request[k].token # None
    BY <2>1, CarriesToken DEF RefuseRefresh, At
  <2>3. PICK s \in Sessions : s = request[k].token[1]
    BY <2>1, <2>2, RequestHolds
  <2>4. /\ session[s] # None /\ session[s] \in Row /\ request[k].token[2] \in Nat
        /\ request[k].now \in Nat
        /\ session[s].previous = None <=> session[s].validUntil = None
    BY <2>1, <2>2, <2>3, RequestHolds DEF IInv, LockInv, TypeOK, Request
  <2>5. request[k].token[2] \in {session[s].token, session[s].previous}
    BY <2>1, <2>2, <2>3 DEF RefreshIsRecent
  <2>6. ~Renewable(s, request[k])
    BY <2>1, <2>3 DEF RefuseRefresh
  <2>7. CASE ~Matches(s, request[k])
    <3>1. request[k].token[2] = session[s].previous /\ ~(session[s].validUntil >= request[k].now)
      BY <2>3, <2>4, <2>5, <2>7, NoneAssumption DEF Matches, Accepted
    <3>2. session[s].validUntil \in Nat
      BY <2>4, <3>1, NoneAssumption DEF Row
    <3> QED
      BY <2>3, <2>4, <3>1, <3>2
  <2>8. CASE Matches(s, request[k])
    <3>1. session[s].revoked \/ ~(session[s].expires > request[k].now)
      BY <2>4, <2>6, <2>8 DEF Renewable, Live
    <3>2. session[s].expires \in Nat
      BY <2>4 DEF Row
    <3> QED
      BY <2>3, <2>4, <3>1, <3>2
  <2> QED
    BY <2>7, <2>8
<1> QED
  BY <1>1, InitRecentInv, NextRecentInv, PTL DEF Spec, RetryIsServed
=============================================================================
