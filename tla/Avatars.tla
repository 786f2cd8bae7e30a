------------------------------ MODULE Avatars ------------------------------
(***************************************************************************)
(* internal/account: the avatar of a user is an object in the store whose  *)
(* key the row of the user names.  An upload stores its object, replaces   *)
(* the key in a transaction and then removes the object of the key it      *)
(* replaced; a deletion clears the key likewise.  Requests of one user run *)
(* concurrently, and each call of the store or the database may fail, or   *)
(* succeed and look failed.                                                *)
(***************************************************************************)
EXTENDS FiniteSets

CONSTANTS
  Uploads,       \* bound: uploads ever sent; each stands for the key it draws at random
  Deletions,     \* bound: deletions ever sent
  Users, None,
  Owner          \* the user who sends a request

Requests == Uploads \cup Deletions

ASSUME AvatarAssumption ==
  /\ Owner \in [Requests -> Users]
  /\ Uploads \cap Deletions = {} /\ None \notin Requests

VARIABLES
  object,   \* keys in the object store
  avatar,   \* avatar_object_key of each user
  step,     \* how far each request has come
  old,      \* oldKey of each request
  unclear,  \* history: uploads whose commit succeeded and looked failed
  leaked    \* history: keys whose removal failed, or that a crash left behind

vars == <<object, avatar, step, old, unclear, leaked>>

Steps == {"new", "stored", "locked", "committed", "discard", "ended"}

Init ==
  /\ object = {}
  /\ avatar = [u \in Users |-> None]
  /\ step = [r \in Requests |-> "new"]
  /\ old = [r \in Requests |-> None]
  /\ unclear = {}
  /\ leaked = {}

Goto(r, s) == step' = [step EXCEPT ![r] = s]

Put(x) ==
  /\ x \in Uploads /\ step[x] = "new"
  /\ object' = object \cup {x}
  /\ Goto(x, "stored")
  /\ UNCHANGED <<avatar, old, unclear, leaked>>

\* The store reports an error, whether or not it has the object; nothing is removed.
PutFails(x) ==
  /\ x \in Uploads /\ step[x] = "new"
  /\ \E kept \in SUBSET {x} : object' = object \cup kept /\ leaked' = leaked \cup kept
  /\ Goto(x, "ended")
  /\ UNCHANGED <<avatar, old, unclear>>

-----------------------------------------------------------------------------
(* ReplaceAvatar and ClearAvatar. *)

Before(r) == IF r \in Uploads THEN "stored" ELSE "new"

\* Variant: SELECT without FOR UPDATE.
AlwaysFree(u) == u \in Users

Free(u) == \A r \in Requests : Owner[r] = u => step[r] # "locked"

LockUser(r) ==
  /\ step[r] = Before(r)
  /\ Free(Owner[r])
  /\ old' = [old EXCEPT ![r] = avatar[Owner[r]]]
  /\ Goto(r, "locked")
  /\ UNCHANGED <<object, avatar, unclear, leaked>>

NewKey(r) == IF r \in Uploads THEN r ELSE None

Commit(r) ==
  /\ step[r] = "locked"
  /\ avatar' = [avatar EXCEPT ![Owner[r]] = NewKey(r)]
  /\ Goto(r, "committed")
  /\ UNCHANGED <<object, old, unclear, leaked>>

\* The steps after an error: an upload removes its object again, a deletion removes nothing.
AfterError(r) == IF r \in Uploads THEN "discard" ELSE "ended"

RollBack(r) ==
  /\ step[r] \in {Before(r), "locked"}
  /\ Goto(r, AfterError(r))
  /\ UNCHANGED <<object, avatar, old, unclear, leaked>>

\* The answer of the COMMIT is lost.
CommitUnclear(r) ==
  /\ step[r] = "locked"
  /\ avatar' = [avatar EXCEPT ![Owner[r]] = NewKey(r)]
  /\ unclear' = unclear \cup ({r} \cap Uploads)
  /\ leaked' = leaked \cup ({old[r]} \ {None})
  /\ Goto(r, AfterError(r))
  /\ UNCHANGED <<object, old>>

-----------------------------------------------------------------------------
(* The removal of an object; an error of the store is ignored. *)

\* Variant: an upload that failed removes the avatar the user had.
DoomedOld(r) == {old[r]} \ {None}

\* The key request r is to remove.
Doomed(r) ==
  {x \in Uploads : \/ step[r] = "discard" /\ x = r
                   \/ step[r] = "committed" /\ x = old[r]}

Remove(r) ==
  /\ step[r] \in {"committed", "discard"}
  /\ \E kept \in SUBSET Doomed(r) :
       /\ object' = object \ (Doomed(r) \ kept)
       /\ leaked' = leaked \cup kept
  /\ Goto(r, "ended")
  /\ UNCHANGED <<avatar, old, unclear>>

\* The process ends between two calls: the database rolls back what is not committed.
Crash(r) ==
  /\ step[r] \in {"stored", "locked", "committed", "discard"}
  /\ leaked' = leaked \cup Doomed(r)
       \cup (IF step[r] \in {"stored", "locked"} THEN {r} \cap Uploads ELSE {})
  /\ Goto(r, "ended")
  /\ UNCHANGED <<object, avatar, old, unclear>>

Next ==
  \E r \in Requests :
    \/ Put(r) \/ PutFails(r) \/ LockUser(r) \/ Commit(r) \/ RollBack(r) \/ CommitUnclear(r)
    \/ Remove(r) \/ Crash(r)

Spec == Init /\ [][Next]_vars

-----------------------------------------------------------------------------
(* Properties. *)

\* The store, the users' rows and the requests have the shape the code gives them.
TypeOK ==
  /\ object \subseteq Uploads /\ unclear \subseteq Uploads /\ leaked \subseteq Uploads
  /\ avatar \in [Users -> Uploads \cup {None}]
  /\ step \in [Requests -> Steps]
  /\ old \in [Requests -> Uploads \cup {None}]

\* The avatar a user has can be fetched, whatever other requests of the user do and whichever
\* call fails, unless it is that of an upload whose commit looked failed.
AvatarExists ==
  \A u \in Users : avatar[u] \in object \cup unclear \cup {None}

\* An object is some user's avatar, or a request under way is to use or to remove it, unless a
\* call failed: two uploads at once, or an upload and a deletion, do not leave one behind.
NoOrphan ==
  \A x \in object :
    \/ \E u \in Users : avatar[u] = x
    \/ step[x] \in {"stored", "locked"}
    \/ \E r \in Requests : x \in Doomed(r)
    \/ x \in leaked
=============================================================================
