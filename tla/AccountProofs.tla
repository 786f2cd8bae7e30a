--------------------------- MODULE AccountProofs ---------------------------
(***************************************************************************)
(* Accounts, for any number of concurrent requests.                        *)
(*   Avatars: the avatar a user has exists, and no object is left behind.  *)
(*   Registration: one user for each external identity, one password for   *)
(*   each username.                                                        *)
(*   OAuthFlow: a login that comes back in time is served unless another   *)
(*   flow of its provider has disturbed its cookie.                        *)
(*   Profiles: whoever takes part has a complete profile and the age the   *)
(*   company admits.                                                       *)
(***************************************************************************)
EXTENDS Avatars, Registration, OAuthFlow, Profiles, TLAPS

-----------------------------------------------------------------------------
(* Avatars. *)

\* A request past its commit or given up: the only ones whose key may be in use.
Settled(r) == step[r] \in {"committed", "discard", "ended"}

\* The row lock: a request that holds it holds it alone, and knows the key in the row.
Serialised ==
  \A r \in Requests : step[r] = "locked" =>
    /\ old[r] = avatar[Owner[r]]
    /\ \A q \in Requests : step[q] = "locked" /\ Owner[q] = Owner[r] => q = r

\* A key in a row is that of an upload of its user, made and not failed.
RowsAreOwn ==
  \A u \in Users : avatar[u] # None =>
    /\ Owner[avatar[u]] = u
    /\ Settled(avatar[u])
    /\ step[avatar[u]] = "discard" => avatar[u] \in unclear

\* A key that has been replaced is in no row and cannot come back.
ReplacedIsGone ==
  \A r \in Requests : old[r] # None =>
    /\ Settled(old[r])
    /\ step[r] = "committed" => \A u \in Users : avatar[u] # old[r]

\* An upload that has not written the row yet has its object.
UnderWayExists == \A x \in Uploads : step[x] \in {"stored", "locked"} => x \in object

AvatarInv ==
  /\ TypeOK /\ Serialised /\ RowsAreOwn /\ ReplacedIsGone /\ UnderWayExists
  /\ AvatarExists /\ NoOrphan

\* It holds before the first request.
LEMMA InitAvatarInv == Init => AvatarInv
BY AvatarAssumption
   DEF Init, AvatarInv, TypeOK, Serialised, RowsAreOwn, ReplacedIsGone, UnderWayExists, AvatarExists,
       NoOrphan, Requests, Steps

\* Each step of a request preserves it.
LEMMA NextAvatarInv == AvatarInv /\ [Next]_vars => AvatarInv'
<1> SUFFICES ASSUME AvatarInv, [Next]_vars PROVE AvatarInv'
  OBVIOUS
<1> USE AvatarAssumption DEF AvatarInv, TypeOK, Requests, Goto, Settled
<1>1. ASSUME NEW r \in Requests, Put(r) PROVE AvatarInv'
  <2>1. TypeOK'
    BY <1>1 DEF Put, Steps
  <2>2. Serialised'
    BY <1>1 DEF Put, Serialised
  <2>3. RowsAreOwn'
    BY <1>1 DEF Put, RowsAreOwn
  <2>4. ReplacedIsGone'
    BY <1>1 DEF Put, ReplacedIsGone
  <2>5. UnderWayExists'
    BY <1>1 DEF Put, UnderWayExists
  <2>6. AvatarExists'
    BY <1>1 DEF Put, AvatarExists
  <2>7. NoOrphan'
    BY <1>1 DEF Put, Doomed, NoOrphan
  <2> QED
    BY <2>1, <2>2, <2>3, <2>4, <2>5, <2>6, <2>7 DEF AvatarInv
<1>2. ASSUME NEW r \in Requests, PutFails(r) PROVE AvatarInv'
  <2>1. TypeOK'
    BY <1>2 DEF PutFails, Steps
  <2>2. Serialised'
    BY <1>2 DEF PutFails, Serialised
  <2>3. RowsAreOwn'
    BY <1>2 DEF PutFails, RowsAreOwn
  <2>4. ReplacedIsGone'
    BY <1>2 DEF PutFails, ReplacedIsGone
  <2>5. UnderWayExists'
    BY <1>2 DEF PutFails, UnderWayExists
  <2>6. AvatarExists'
    BY <1>2 DEF PutFails, AvatarExists
  <2>7. NoOrphan'
    BY <1>2 DEF PutFails, Doomed, NoOrphan
  <2> QED
    BY <2>1, <2>2, <2>3, <2>4, <2>5, <2>6, <2>7 DEF AvatarInv
<1>3. ASSUME NEW r \in Requests, LockUser(r) PROVE AvatarInv'
  <2>1. TypeOK'
    BY <1>3 DEF LockUser, Steps
  <2>2. Serialised'
    BY <1>3 DEF LockUser, Free, Serialised
  <2>3. RowsAreOwn'
    BY <1>3 DEF LockUser, Before, RowsAreOwn
  <2>4. ReplacedIsGone'
    BY <1>3 DEF LockUser, Before, ReplacedIsGone, RowsAreOwn
  <2>5. UnderWayExists'
    BY <1>3 DEF LockUser, Before, UnderWayExists
  <2>6. AvatarExists'
    BY <1>3 DEF LockUser, AvatarExists
  <2>7. NoOrphan'
    BY <1>3 DEF LockUser, Before, Doomed, NoOrphan
  <2> QED
    BY <2>1, <2>2, <2>3, <2>4, <2>5, <2>6, <2>7 DEF AvatarInv
<1>4. ASSUME NEW r \in Requests, Commit(r) PROVE AvatarInv'
  <2>1. TypeOK'
    BY <1>4 DEF Commit, NewKey, Steps
  <2>2. Serialised'
    BY <1>4 DEF Commit, Serialised
  <2>3. RowsAreOwn'
    BY <1>4 DEF Commit, NewKey, RowsAreOwn
  <2>4. ReplacedIsGone'
    BY <1>4 DEF Commit, NewKey, ReplacedIsGone, RowsAreOwn, Serialised
  <2>5. UnderWayExists'
    BY <1>4 DEF Commit, UnderWayExists
  <2>6. AvatarExists'
    BY <1>4 DEF Commit, NewKey, AvatarExists, UnderWayExists
  <2>7. NoOrphan'
    BY <1>4 DEF Commit, NewKey, Doomed, NoOrphan, Serialised
  <2> QED
    BY <2>1, <2>2, <2>3, <2>4, <2>5, <2>6, <2>7 DEF AvatarInv
<1>5. ASSUME NEW r \in Requests, RollBack(r) PROVE AvatarInv'
  <2>1. TypeOK'
    BY <1>5 DEF RollBack, AfterError, Steps
  <2>2. Serialised'
    BY <1>5 DEF RollBack, AfterError, Serialised
  <2>3. RowsAreOwn'
    BY <1>5 DEF RollBack, Before, RowsAreOwn
  <2>4. ReplacedIsGone'
    BY <1>5 DEF RollBack, AfterError, ReplacedIsGone
  <2>5. UnderWayExists'
    BY <1>5 DEF RollBack, AfterError, UnderWayExists
  <2>6. AvatarExists'
    BY <1>5 DEF RollBack, AvatarExists
  <2>7. NoOrphan'
    BY <1>5 DEF RollBack, Before, AfterError, Doomed, NoOrphan
  <2> QED
    BY <2>1, <2>2, <2>3, <2>4, <2>5, <2>6, <2>7 DEF AvatarInv
<1>6. ASSUME NEW r \in Requests, CommitUnclear(r) PROVE AvatarInv'
  <2>1. TypeOK'
    BY <1>6 DEF CommitUnclear, NewKey, AfterError, Steps
  <2>2. Serialised'
    BY <1>6 DEF CommitUnclear, AfterError, Serialised
  <2>3. RowsAreOwn'
    BY <1>6 DEF CommitUnclear, NewKey, AfterError, RowsAreOwn
  <2>4. ReplacedIsGone'
    BY <1>6 DEF CommitUnclear, NewKey, ReplacedIsGone, RowsAreOwn, Serialised
  <2>5. UnderWayExists'
    BY <1>6 DEF CommitUnclear, UnderWayExists
  <2>6. AvatarExists'
    BY <1>6 DEF CommitUnclear, NewKey, AvatarExists
  <2>7. NoOrphan'
    BY <1>6 DEF CommitUnclear, AfterError, Doomed, NoOrphan, Serialised
  <2> QED
    BY <2>1, <2>2, <2>3, <2>4, <2>5, <2>6, <2>7 DEF AvatarInv
<1>7. ASSUME NEW r \in Requests, Remove(r) PROVE AvatarInv'
  <2>1. TypeOK'
    BY <1>7 DEF Remove, Doomed, Steps
  <2>2. Serialised'
    BY <1>7 DEF Remove, Serialised
  <2>3. RowsAreOwn'
    BY <1>7 DEF Remove, RowsAreOwn
  <2>4. ReplacedIsGone'
    BY <1>7 DEF Remove, ReplacedIsGone
  <2>5. UnderWayExists'
    BY <1>7 DEF Remove, Doomed, UnderWayExists, ReplacedIsGone
  <2>6. AvatarExists'
    BY <1>7 DEF Remove, Doomed, AvatarExists, RowsAreOwn, ReplacedIsGone
  <2>7. NoOrphan'
    BY <1>7 DEF Remove, Doomed, NoOrphan
  <2> QED
    BY <2>1, <2>2, <2>3, <2>4, <2>5, <2>6, <2>7 DEF AvatarInv
<1>8. ASSUME NEW r \in Requests, Crash(r) PROVE AvatarInv'
  <2>1. TypeOK'
    BY <1>8 DEF Crash, Doomed, Steps
  <2>2. Serialised'
    BY <1>8 DEF Crash, Serialised
  <2>3. RowsAreOwn'
    BY <1>8 DEF Crash, RowsAreOwn
  <2>4. ReplacedIsGone'
    BY <1>8 DEF Crash, ReplacedIsGone
  <2>5. UnderWayExists'
    BY <1>8 DEF Crash, UnderWayExists
  <2>6. AvatarExists'
    BY <1>8 DEF Crash, AvatarExists
  <2>7. NoOrphan'
    BY <1>8 DEF Crash, Doomed, NoOrphan
  <2> QED
    BY <2>1, <2>2, <2>3, <2>4, <2>5, <2>6, <2>7 DEF AvatarInv
<1>9. CASE UNCHANGED vars
  BY <1>9 DEF vars, Serialised, RowsAreOwn, ReplacedIsGone, UnderWayExists, AvatarExists,
              NoOrphan, Doomed
<1> QED
  BY <1>1, <1>2, <1>3, <1>4, <1>5, <1>6, <1>7, <1>8, <1>9 DEF Next

\* The store, the rows and the requests keep their shape.
THEOREM AvatarTypeCorrect == Spec => []TypeOK
<1>1. AvatarInv => TypeOK
  BY DEF AvatarInv
<1> QED
  BY <1>1, InitAvatarInv, NextAvatarInv, PTL DEF Spec

\* Whatever requests run beside each other and whichever calls fail, the avatar in a user's row
\* is an object of the store, but for the commit whose success is not learnt of (AvatarService.Upload).
THEOREM AvatarsExist == Spec => []AvatarExists
<1>1. AvatarInv => AvatarExists
  BY DEF AvatarInv
<1> QED
  BY <1>1, InitAvatarInv, NextAvatarInv, PTL DEF Spec

\* The row lock of ReplaceAvatar and ClearAvatar leaves no object behind while calls succeed.
THEOREM NoOrphans == Spec => []NoOrphan
<1>1. AvatarInv => NoOrphan
  BY DEF AvatarInv
<1> QED
  BY <1>1, InitAvatarInv, NextAvatarInv, PTL DEF Spec

-----------------------------------------------------------------------------
(* Registration. *)

\* The advisory lock admits one transaction of each identity.
OnePerIdentity ==
  \A r, q \in Logins :
    /\ stage[r] \in InTransaction /\ stage[q] \in InTransaction
    /\ Identity[r] = Identity[q]
    => r = q

\* What a login has found is still so, and its user stays the one of the identity.
FindingsHold ==
  \A r \in Logins :
    /\ stage[r] # "refused"
    /\ stage[r] \in {"missing", "inserted"} => linked[Identity[r]] = Nobody
    /\ stage[r] = "inserted" => signed[r] = r
    /\ stage[r] \in {"found", "served"} =>
         linked[Identity[r]] # Nobody /\ signed[r] = linked[Identity[r]]

\* A registration stores the normalised username, and no other before its commit.
RowsAreNormal ==
  \A r \in Registrations :
    /\ stage[r] \in {"new", "inserted", "served", "refused", "failed"}
    /\ username[r] \in {{}, {Stored(r)}}
    /\ username[r] # {} => stage[r] \in {"served", "failed"}
    /\ stage[r] = "served" => username[r] = {Stored(r)}

Holds(r) == stage[r] = "inserted" \/ username[r] # {}

\* The unique index: usernames that are inserted or committed differ.
NamesDiffer ==
  \A r, q \in Registrations : Holds(r) /\ Holds(q) /\ SameName(r, q) => r = q

RegistrationInv ==
  RegistrationTypeOK /\ OnePerIdentity /\ FindingsHold /\ RowsAreNormal /\ NamesDiffer

\* It holds before the first request.
LEMMA InitRegistrationInv == RegistrationInit => RegistrationInv
BY RegistrationAssumption
   DEF RegistrationInit, RegistrationInv, RegistrationTypeOK, OnePerIdentity, FindingsHold,
       RowsAreNormal, NamesDiffer, Holds, InTransaction, Attempts, Stages

\* Each step of an attempt preserves it.
LEMMA NextRegistrationInv ==
  RegistrationInv /\ [RegistrationNext]_registrationVars => RegistrationInv'
<1> SUFFICES ASSUME RegistrationInv, [RegistrationNext]_registrationVars PROVE RegistrationInv'
  OBVIOUS
<1> USE RegistrationAssumption DEF RegistrationInv, RegistrationTypeOK, Attempts, Stages, To
<1>1. ASSUME NEW r \in Attempts, InsertUser(r) PROVE RegistrationInv'
  <2>1. RegistrationTypeOK'
    BY <1>1 DEF InsertUser
  <2>2. OnePerIdentity'
    BY <1>1 DEF InsertUser, OnePerIdentity
  <2>3. FindingsHold'
    BY <1>1 DEF InsertUser, FindingsHold
  <2>4. RowsAreNormal'
    BY <1>1 DEF InsertUser, RowsAreNormal
  <2>5. NamesDiffer'
    BY <1>1 DEF InsertUser, NamesDiffer, Holds, SameName
  <2> QED
    BY <2>1, <2>2, <2>3, <2>4, <2>5 DEF RegistrationInv
<1>2. ASSUME NEW r \in Attempts, LockIdentity(r) PROVE RegistrationInv'
  <2>1. RegistrationTypeOK'
    BY <1>2 DEF LockIdentity
  <2>2. OnePerIdentity'
    BY <1>2 DEF LockIdentity, OnePerIdentity, Unlocked
  <2>3. FindingsHold'
    BY <1>2 DEF LockIdentity, FindingsHold
  <2>4. RowsAreNormal'
    BY <1>2 DEF LockIdentity, RowsAreNormal
  <2>5. NamesDiffer'
    BY <1>2 DEF LockIdentity, NamesDiffer, Holds
  <2> QED
    BY <2>1, <2>2, <2>3, <2>4, <2>5 DEF RegistrationInv
<1>3. ASSUME NEW r \in Attempts, FindAccount(r) PROVE RegistrationInv'
  <2>0. r \in Logins
    BY <1>3 DEF FindAccount, RowsAreNormal
  <2>1. RegistrationTypeOK'
    BY <1>3, <2>0 DEF FindAccount
  <2>2. OnePerIdentity'
    BY <1>3 DEF FindAccount, OnePerIdentity, InTransaction
  <2>3. FindingsHold'
    BY <1>3 DEF FindAccount, FindingsHold
  <2>4. RowsAreNormal'
    BY <1>3 DEF FindAccount, RowsAreNormal
  <2>5. NamesDiffer'
    BY <1>3 DEF FindAccount, NamesDiffer, Holds
  <2> QED
    BY <2>1, <2>2, <2>3, <2>4, <2>5 DEF RegistrationInv
<1>4. ASSUME NEW r \in Attempts, InsertAccount(r) PROVE RegistrationInv'
  <2>1. RegistrationTypeOK'
    BY <1>4 DEF InsertAccount
  <2>2. OnePerIdentity'
    BY <1>4 DEF InsertAccount, OnePerIdentity, InTransaction
  <2>3. FindingsHold'
    BY <1>4 DEF InsertAccount, FindingsHold
  <2>4. RowsAreNormal'
    BY <1>4 DEF InsertAccount, RowsAreNormal
  <2>5. NamesDiffer'
    BY <1>4 DEF InsertAccount, NamesDiffer, RowsAreNormal, Holds
  <2> QED
    BY <2>1, <2>2, <2>3, <2>4, <2>5 DEF RegistrationInv
<1>5. ASSUME NEW r \in Attempts, CommitAttempt(r) PROVE RegistrationInv'
  <2>1. RegistrationTypeOK'
    BY <1>5 DEF CommitAttempt, Stored, FindingsHold
  <2>2. OnePerIdentity'
    BY <1>5 DEF CommitAttempt, OnePerIdentity, InTransaction
  <2>3. FindingsHold'
    BY <1>5 DEF CommitAttempt, FindingsHold, OnePerIdentity, InTransaction
  <2>4. RowsAreNormal'
    BY <1>5 DEF CommitAttempt, RowsAreNormal
  <2>5. NamesDiffer'
    BY <1>5 DEF CommitAttempt, NamesDiffer, RowsAreNormal, Holds
  <2> QED
    BY <2>1, <2>2, <2>3, <2>4, <2>5 DEF RegistrationInv
<1>6. ASSUME NEW r \in Attempts, AttemptFails(r) PROVE RegistrationInv'
  <2>1. RegistrationTypeOK'
    BY <1>6 DEF AttemptFails
  <2>2. OnePerIdentity'
    BY <1>6 DEF AttemptFails, OnePerIdentity, InTransaction
  <2>3. FindingsHold'
    BY <1>6 DEF AttemptFails, FindingsHold
  <2>4. RowsAreNormal'
    BY <1>6 DEF AttemptFails, RowsAreNormal
  <2>5. NamesDiffer'
    BY <1>6 DEF AttemptFails, NamesDiffer, Holds
  <2> QED
    BY <2>1, <2>2, <2>3, <2>4, <2>5 DEF RegistrationInv
<1>7. CASE UNCHANGED registrationVars
  BY <1>7 DEF registrationVars, OnePerIdentity, FindingsHold, RowsAreNormal, NamesDiffer, Holds
<1> QED
  BY <1>1, <1>2, <1>3, <1>4, <1>5, <1>6, <1>7 DEF RegistrationNext

\* A request is at a stage the code has, and usernames and users are none or of its own.
THEOREM RegistrationTypeCorrect == RegistrationSpec => []RegistrationTypeOK
<1>1. RegistrationInv => RegistrationTypeOK
  BY DEF RegistrationInv
<1> QED
  BY <1>1, InitRegistrationInv, NextRegistrationInv, PTL DEF RegistrationSpec

\* Concurrent first callbacks of an external identity sign in one and the same user, and the
\* advisory lock spares each of them the unique key (FindOrCreateOAuthUser).
THEOREM IdentitiesAreOneUser == RegistrationSpec => []IdentityIsOneUser
<1>1. RegistrationInv => IdentityIsOneUser
  BY DEF RegistrationInv, FindingsHold, IdentityIsOneUser
<1> QED
  BY <1>1, InitRegistrationInv, NextRegistrationInv, PTL DEF RegistrationSpec

\* Whoever has registered can log in under any spelling of the username, and nobody else can
\* (Register, Login and the unique index on lower(username)).
THEOREM RegisteredCanAlwaysLogIn == RegistrationSpec => []RegisteredCanLogIn
<1>1. RegistrationInv => RegisteredCanLogIn
  <2> SUFFICES ASSUME RegistrationInv, NEW r \in Registrations, stage[r] = "served",
                      NEW s \in Spellings, Normal[s] = Normal[Spelled[r]]
               PROVE {q \in Registrations : LogsIn(q, s)} = {r}
    BY DEF RegisteredCanLogIn
  <2>1. LogsIn(r, s)
    BY DEF RegistrationInv, RowsAreNormal, LogsIn, Stored
  <2>2. ASSUME NEW q \in Registrations, LogsIn(q, s) PROVE q = r
    <3>1. username[q] = {Stored(q)} /\ Stored(q) = Stored(r)
      BY <2>2 DEF RegistrationInv, RowsAreNormal, LogsIn, Stored
    <3>2. username[r] = {Stored(r)}
      BY DEF RegistrationInv, RowsAreNormal
    <3> QED
      BY <3>1, <3>2 DEF RegistrationInv, NamesDiffer, Holds, SameName
  <2> QED
    BY <2>1, <2>2
<1> QED
  BY <1>1, InitRegistrationInv, NextRegistrationInv, PTL DEF RegistrationSpec

-----------------------------------------------------------------------------
(* OAuthFlow: the cookie. *)

\* Who is at the provider undisturbed has the cookie, for as long as the flow lives.
HasItsCookie ==
  \A f \in Flows : flow[f] = "away" /\ f \notin spoilt =>
    jar[Provider[f]] = f /\ until[Provider[f]] >= started[f] + Ttl

\* Who has come back undisturbed has brought the cookie.
BroughtItsCookie ==
  \A f \in Flows : flow[f] \in {"callback", "denied"} /\ f \notin spoilt => sent[f] = f

\* A flow that is not back yet was started in the past.
Shape ==
  /\ FlowTypeOK
  /\ \A f \in Flows : flow[f] \in {"starting", "away"} => started[f] <= moment

FlowInv == Shape /\ HasItsCookie /\ BroughtItsCookie /\ PromptFlowIsServed

\* It holds before the first flow.
LEMMA InitFlowInv == FlowInit => FlowInv
BY FlowAssumption
   DEF FlowInit, FlowInv, Shape, FlowTypeOK, HasItsCookie, BroughtItsCookie, PromptFlowIsServed

\* Each step of the browser, of a provider or of the server preserves it.
LEMMA NextFlowInv == FlowInv /\ [FlowNext]_flowVars => FlowInv'
<1> SUFFICES ASSUME FlowInv, [FlowNext]_flowVars PROVE FlowInv'
  OBVIOUS
<1> USE FlowAssumption DEF FlowInv, Shape, FlowTypeOK, Becomes
<1>1. ASSUME NEW f \in Flows, StartFlow(f) PROVE FlowInv'
  <2>1. Shape'
    BY <1>1 DEF StartFlow
  <2>2. HasItsCookie'
    BY <1>1 DEF StartFlow, HasItsCookie
  <2>3. BroughtItsCookie'
    BY <1>1 DEF StartFlow, BroughtItsCookie
  <2>4. PromptFlowIsServed'
    BY <1>1 DEF StartFlow, PromptFlowIsServed
  <2> QED
    BY <2>1, <2>2, <2>3, <2>4 DEF FlowInv
<1>2. ASSUME NEW f \in Flows, GoToProvider(f) PROVE FlowInv'
  <2>1. Shape'
    BY <1>2 DEF GoToProvider, SetCookie
  <2>2. HasItsCookie'
    BY <1>2 DEF GoToProvider, SetCookie, CookieOf, HasItsCookie
  <2>3. BroughtItsCookie'
    BY <1>2 DEF GoToProvider, SetCookie, BroughtItsCookie
  <2>4. PromptFlowIsServed'
    BY <1>2 DEF GoToProvider, SetCookie, PromptFlowIsServed
  <2> QED
    BY <2>1, <2>2, <2>3, <2>4 DEF FlowInv
<1>3. ASSUME NEW f \in Flows, ComeBack(f) PROVE FlowInv'
  <2>1. Shape'
    BY <1>3 DEF ComeBack
  <2>2. HasItsCookie'
    BY <1>3 DEF ComeBack, HasItsCookie
  <2>3. BroughtItsCookie'
    BY <1>3 DEF ComeBack, BroughtItsCookie, HasItsCookie
  <2>4. PromptFlowIsServed'
    BY <1>3 DEF ComeBack, PromptFlowIsServed
  <2> QED
    BY <2>1, <2>2, <2>3, <2>4 DEF FlowInv
<1>4. ASSUME NEW f \in Flows, Callback(f) PROVE FlowInv'
  <2>1. Shape'
    BY <1>4 DEF Callback
  <2>2. HasItsCookie'
    BY <1>4 DEF Callback, HasItsCookie
  <2>3. BroughtItsCookie'
    BY <1>4 DEF Callback, BroughtItsCookie
  <2>4. PromptFlowIsServed'
    BY <1>4 DEF Callback, Verified, PromptFlowIsServed, BroughtItsCookie
  <2> QED
    BY <2>1, <2>2, <2>3, <2>4 DEF FlowInv
<1>5. ASSUME NEW f \in Flows, AnswerCallback(f) PROVE FlowInv'
  <2>1. Shape'
    BY <1>5 DEF AnswerCallback, SetCookie
  <2>2. HasItsCookie'
    BY <1>5 DEF AnswerCallback, SetCookie, CookieOf, HasItsCookie
  <2>3. BroughtItsCookie'
    BY <1>5 DEF AnswerCallback, SetCookie, BroughtItsCookie
  <2>4. PromptFlowIsServed'
    BY <1>5 DEF AnswerCallback, SetCookie, PromptFlowIsServed
  <2> QED
    BY <2>1, <2>2, <2>3, <2>4 DEF FlowInv
<1>6. CASE FlowTick
  BY <1>6 DEF FlowTick, HasItsCookie, BroughtItsCookie, PromptFlowIsServed
<1>7. CASE UNCHANGED flowVars
  BY <1>7 DEF flowVars, HasItsCookie, BroughtItsCookie, PromptFlowIsServed
<1> QED
  BY <1>1, <1>2, <1>3, <1>4, <1>5, <1>6, <1>7 DEF FlowNext

\* Only an answer to another flow of the same provider, or time, makes Verify refuse a login.
THEOREM PromptFlowsAreServed == FlowSpec => []PromptFlowIsServed
<1>1. FlowInv => PromptFlowIsServed
  BY DEF FlowInv
<1> QED
  BY <1>1, InitFlowInv, NextFlowInv, PTL DEF FlowSpec

\* A cookie names a flow of the browser or none, and no flow is started beyond the clock.
THEOREM FlowTypeCorrect == FlowSpec => []FlowTypeOK
<1>1. FlowInv => FlowTypeOK
  BY DEF FlowInv, Shape
<1> QED
  BY <1>1, InitFlowInv, NextFlowInv, PTL DEF FlowSpec

-----------------------------------------------------------------------------
(* Profiles. *)

\* FOR UPDATE: one edit at a time, whose patch is valid and whose row is the one it has read.
EditsAreAlone ==
  \A r \in Edits : at[r] = "locked" =>
    /\ Valid(Patch[r])
    /\ read[r] = profile
    /\ \A q \in Edits : at[q] = "locked" => q = r

\* FOR KEY SHARE: while an entry holds the row no edit does, and the birth date stays.
AgeIsKept ==
  \A r \in Entries : at[r] = "aged" =>
    /\ profile.birth \in OfAge
    /\ \A q \in Edits : at[q] # "locked"

ProfileInv == ProfileTypeOK /\ EditsAreAlone /\ AgeIsKept /\ ActorIsComplete

\* It holds before the first request.
LEMMA InitProfileInv == ProfileInit => ProfileInv
BY ProfileAssumption
   DEF ProfileInit, ProfileInv, ProfileTypeOK, Row, EditsAreAlone, AgeIsKept, ActorIsComplete

\* A patch that passes the checks of the service and of the repository leaves a row of users.
LEMMA PatchedRow ==
  ASSUME NEW r \in Edits, profile \in Row, Valid(Patch[r]), PatchAllowed(r), SaveProfile(r)
  PROVE  profile' \in Row
<1> USE ProfileAssumption DEF Row, SaveProfile
<1>1. Patch[r] \in PatchInputs
  OBVIOUS
<1>2. profile'.city \in Cities \cup {Absent}
  BY <1>1 DEF PatchInputs, New, PatchAllowed
<1>3. profile'.birth \in Births \cup {Absent}
  BY <1>1 DEF PatchInputs, New, Valid
<1>4. profile'.interests \in SUBSET Interests
  BY <1>1 DEF PatchInputs, New, Valid, PatchAllowed, NoSuchInterest
<1>5. profile'.named \in BOOLEAN
  OBVIOUS
<1>6. profile' = [named |-> profile'.named, city |-> profile'.city, birth |-> profile'.birth,
                  interests |-> profile'.interests]
  OBVIOUS
<1> QED
  BY <1>2, <1>3, <1>4, <1>5, <1>6

\* Each step of an edit or of an entry preserves it.
LEMMA NextProfileInv == ProfileInv /\ [ProfileNext]_profileVars => ProfileInv'
<1> SUFFICES ASSUME ProfileInv, [ProfileNext]_profileVars PROVE ProfileInv'
  OBVIOUS
<1> USE ProfileAssumption DEF ProfileInv, ProfileTypeOK, Reach
<1>1. ASSUME NEW r \in Edits \cup Entries, LockProfile(r) PROVE ProfileInv'
  <2>1. ProfileTypeOK'
    BY <1>1 DEF LockProfile
  <2>2. EditsAreAlone'
    BY <1>1 DEF LockProfile, EditsAreAlone, MayEdit
  <2>3. AgeIsKept'
    BY <1>1 DEF LockProfile, AgeIsKept, MayEdit
  <2>4. ActorIsComplete'
    BY <1>1 DEF LockProfile, ActorIsComplete
  <2> QED
    BY <2>1, <2>2, <2>3, <2>4 DEF ProfileInv
<1>2. ASSUME NEW r \in Edits \cup Entries, SaveProfile(r) PROVE ProfileInv'
  <2>1. ProfileTypeOK'
    BY <1>2, PatchedRow DEF SaveProfile, EditsAreAlone
  <2>2. EditsAreAlone'
    BY <1>2 DEF SaveProfile, EditsAreAlone
  <2>3. AgeIsKept'
    BY <1>2 DEF SaveProfile, AgeIsKept
  <2>4. ActorIsComplete'
    BY <1>2 DEF SaveProfile, ActorIsComplete, EditsAreAlone, IsComplete, PatchAllowed, New
  <2> QED
    BY <2>1, <2>2, <2>3, <2>4 DEF ProfileInv
<1>3. ASSUME NEW r \in Edits \cup Entries, PassGate(r) PROVE ProfileInv'
  <2>1. ProfileTypeOK'
    BY <1>3 DEF PassGate
  <2>2. EditsAreAlone'
    BY <1>3 DEF PassGate, EditsAreAlone
  <2>3. AgeIsKept'
    BY <1>3 DEF PassGate, AgeIsKept
  <2>4. ActorIsComplete'
    BY <1>3 DEF PassGate, ActorIsComplete
  <2> QED
    BY <2>1, <2>2, <2>3, <2>4 DEF ProfileInv
<1>4. ASSUME NEW r \in Edits \cup Entries, CheckAge(r) PROVE ProfileInv'
  <2>1. ProfileTypeOK'
    BY <1>4 DEF CheckAge
  <2>2. EditsAreAlone'
    BY <1>4 DEF CheckAge, EditsAreAlone
  <2>3. AgeIsKept'
    BY <1>4 DEF CheckAge, AgeIsKept
  <2>4. ActorIsComplete'
    BY <1>4 DEF CheckAge, ActorIsComplete
  <2> QED
    BY <2>1, <2>2, <2>3, <2>4 DEF ProfileInv
<1>5. ASSUME NEW r \in Edits \cup Entries, EnterCompany(r) PROVE ProfileInv'
  <2>1. ProfileTypeOK'
    BY <1>5 DEF EnterCompany
  <2>2. EditsAreAlone'
    BY <1>5 DEF EnterCompany, EditsAreAlone
  <2>3. AgeIsKept'
    BY <1>5 DEF EnterCompany, AgeIsKept
  <2>4. ActorIsComplete'
    BY <1>5 DEF EnterCompany, ActorIsComplete
  <2> QED
    BY <2>1, <2>2, <2>3, <2>4 DEF ProfileInv
<1>6. ASSUME NEW r \in Edits \cup Entries, GiveUp(r) PROVE ProfileInv'
  <2>1. ProfileTypeOK'
    BY <1>6 DEF GiveUp
  <2>2. EditsAreAlone'
    BY <1>6 DEF GiveUp, EditsAreAlone
  <2>3. AgeIsKept'
    BY <1>6 DEF GiveUp, AgeIsKept
  <2>4. ActorIsComplete'
    BY <1>6 DEF GiveUp, ActorIsComplete
  <2> QED
    BY <2>1, <2>2, <2>3, <2>4 DEF ProfileInv
<1>7. CASE UNCHANGED profileVars
  BY <1>7 DEF profileVars, EditsAreAlone, AgeIsKept, ActorIsComplete
<1> QED
  BY <1>1, <1>2, <1>3, <1>4, <1>5, <1>6, <1>7 DEF ProfileNext

\* A profile's nullable columns hold NULL or a value that was given, never a marker of the body.
THEOREM ProfileTypeCorrect == ProfileSpec => []ProfileTypeOK
<1>1. ProfileInv => ProfileTypeOK
  BY DEF ProfileInv
<1> QED
  BY <1>1, InitProfileInv, NextProfileInv, PTL DEF ProfileSpec

\* A request that RequireCompleteProfile has let pass takes effect for a complete profile: the
\* check outside the transaction is not outrun by any edit.
THEOREM ActorsAreComplete == ProfileSpec => []ActorIsComplete
<1>1. ProfileInv => ActorIsComplete
  BY DEF ProfileInv
<1> QED
  BY <1>1, InitProfileInv, NextProfileInv, PTL DEF ProfileSpec

\* The FOR KEY SHARE of ensureAgeEligible keeps the birth date until the entry is committed.
THEOREM AllEnterOfAge == ProfileSpec => EntersOfAge
<1>1. ProfileInv /\ [ProfileNext]_profileVars =>
        [\A r \in Entries : at[r] = "aged" /\ at'[r] = "done" => profile.birth \in OfAge]_profileVars
  BY DEF ProfileInv, AgeIsKept
<1> QED
  BY <1>1, InitProfileInv, NextProfileInv, PTL DEF ProfileSpec, EntersOfAge
=============================================================================
