---------------------------- MODULE Registration ----------------------------
(***************************************************************************)
(* internal/account: how an account comes to be.  A registration inserts a *)
(* user under the normalised username; a login through an OAuth provider   *)
(* finds the user linked to the external identity or inserts user and link *)
(* under an advisory lock.  Each attempt is one transaction that also      *)
(* creates the session.  A row inserted by an attempt carries the          *)
(* attempt's name as its id.                                               *)
(***************************************************************************)
CONSTANTS
  Registrations,  \* POST /auth/register, each with a password of its own
  Logins,         \* callbacks of an OAuth provider
  Spellings,      \* usernames as typed
  Normal,         \* normalizeUsername: trimmed, in lower case
  Spelled,        \* the username each registration sends
  Identities,     \* provider and provider_user_id
  Identity,       \* the identity each login presents
  Nobody          \* no such row

Attempts == Registrations \cup Logins

ASSUME RegistrationAssumption ==
  /\ Registrations \cap Logins = {}
  /\ Normal \in [Spellings -> Spellings]
  /\ \A s \in Spellings : Normal[Normal[s]] = Normal[s]
  /\ Spelled \in [Registrations -> Spellings]
  /\ Identity \in [Logins -> Identities]
  /\ Nobody \notin Attempts

VARIABLES
  stage,     \* how far each attempt has come
  username,  \* usernames of the committed rows of users
  linked,    \* committed rows of auth_accounts: the user of each identity
  signed     \* the user each attempt has found or inserted

registrationVars == <<stage, username, linked, signed>>

Stages == {"new", "locked", "missing", "inserted", "found", "served", "refused", "failed"}

RegistrationInit ==
  /\ stage = [r \in Attempts |-> "new"]
  /\ username = [r \in Registrations |-> {}]
  /\ linked = [i \in Identities |-> Nobody]
  /\ signed = [r \in Attempts |-> Nobody]

To(r, s) == stage' = [stage EXCEPT ![r] = s]

-----------------------------------------------------------------------------
(* Register.  A row of users has at most one username. *)

\* Variant: the username is stored as it was typed.
StoredAsTyped(r) == Spelled[r]

Stored(r) == Normal[Spelled[r]]

\* The unique index on lower(username).
SameName(r, q) == Normal[Stored(r)] = Normal[Stored(q)]

\* An insert waits for another transaction that has inserted the same key.
InsertUser(r) ==
  /\ r \in Registrations /\ stage[r] = "new"
  /\ \A q \in Registrations : stage[q] = "inserted" => ~SameName(r, q)
  /\ IF \E q \in Registrations : username[q] # {} /\ SameName(r, q)
     THEN To(r, "refused") /\ UNCHANGED signed
     ELSE To(r, "inserted") /\ signed' = [signed EXCEPT ![r] = r]
  /\ UNCHANGED <<username, linked>>

-----------------------------------------------------------------------------
(* FindOrCreateOAuthUser, one statement at a time. *)

InTransaction == {"locked", "missing", "inserted", "found"}

\* Variant: no advisory lock.
Unguarded(r) == r \in Logins

\* pg_advisory_xact_lock on provider and provider_user_id.
Unlocked(r) ==
  \A q \in Logins : Identity[q] = Identity[r] => stage[q] \notin InTransaction

LockIdentity(r) ==
  /\ r \in Logins /\ stage[r] = "new"
  /\ Unlocked(r)
  /\ To(r, "locked")
  /\ UNCHANGED <<username, linked, signed>>

FindAccount(r) ==
  /\ stage[r] = "locked"
  /\ To(r, IF linked[Identity[r]] = Nobody THEN "missing" ELSE "found")
  /\ signed' = [signed EXCEPT ![r] = linked[Identity[r]]]
  /\ UNCHANGED <<username, linked>>

\* Inserts the user and its link, whose unique key another transaction may hold or have taken.
InsertAccount(r) ==
  /\ stage[r] = "missing"
  /\ \A q \in Logins : Identity[q] = Identity[r] => stage[q] # "inserted"
  /\ IF linked[Identity[r]] # Nobody
     THEN To(r, "refused") /\ UNCHANGED signed
     ELSE To(r, "inserted") /\ signed' = [signed EXCEPT ![r] = r]
  /\ UNCHANGED <<username, linked>>

-----------------------------------------------------------------------------

\* The session is inserted and the transaction commits; its answer may be lost, or the access
\* token of a registration may not be issued, which the client takes for a failure.
CommitAttempt(r) ==
  /\ stage[r] \in {"inserted", "found"}
  /\ \E end \in {"served", "failed"} : To(r, end)
  /\ IF r \in Registrations
     THEN username' = [username EXCEPT ![r] = {Stored(r)}] /\ UNCHANGED linked
     ELSE linked' = [linked EXCEPT ![Identity[r]] = signed[r]] /\ UNCHANGED username
  /\ UNCHANGED signed

\* The transaction is rolled back, and nothing of it remains.
AttemptFails(r) ==
  /\ stage[r] \in InTransaction \cup {"new"}
  /\ To(r, "failed")
  /\ UNCHANGED <<username, linked, signed>>

RegistrationNext ==
  \E r \in Attempts :
    \/ InsertUser(r) \/ LockIdentity(r) \/ FindAccount(r) \/ InsertAccount(r)
    \/ CommitAttempt(r) \/ AttemptFails(r)

RegistrationSpec == RegistrationInit /\ [][RegistrationNext]_registrationVars

-----------------------------------------------------------------------------
(* Properties. *)

RegistrationTypeOK ==
  /\ stage \in [Attempts -> Stages]
  /\ username \in [Registrations -> SUBSET Spellings]
  /\ linked \in [Identities -> Logins \cup {Nobody}]
  /\ signed \in [Attempts -> Attempts \cup {Nobody}]

\* Callbacks of one identity that nobody has used before arrive at once: none is refused by the
\* unique key of auth_accounts, and all sign in the same user (FindOrCreateOAuthUser).
IdentityIsOneUser ==
  \A r, q \in Logins :
    /\ stage[r] # "refused"
    /\ stage[r] = "served" /\ stage[q] = "served" /\ Identity[r] = Identity[q] =>
         signed[r] = signed[q] /\ signed[r] = linked[Identity[r]]

\* Who typed s and the password of registration r: Login looks for the normalised username.
LogsIn(r, s) == username[r] = {Normal[s]}

\* Whoever was told that the registration succeeded can log in ever after, with whatever case
\* and blanks the username is typed, and is the only one who can under that username.
RegisteredCanLogIn ==
  \A r \in Registrations : stage[r] = "served" =>
    \A s \in Spellings : Normal[s] = Normal[Spelled[r]] =>
      {q \in Registrations : LogsIn(q, s)} = {r}
=============================================================================
