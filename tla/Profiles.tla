------------------------------ MODULE Profiles ------------------------------
(***************************************************************************)
(* internal/account: the profile of one user, edited by concurrent         *)
(* requests, beside the user's requests to take part.  Those read the      *)
(* profile twice: Authenticate, outside any transaction, for its           *)
(* completeness, and the company's age limit, inside.                      *)
(***************************************************************************)
CONSTANTS
  Edits,       \* PATCH /users/me
  Patch,       \* the patch each edit sends
  Entries,     \* requests behind RequireCompleteProfile, to a company with an age limit
  Cities,      \* rows of cities
  Interests,   \* rows of interests
  Births,      \* birth dates, by what the age limit tells apart
  OfAge,       \* those the limit admits
  Absent,      \* NULL, or a field the patch leaves alone
  Cleared      \* a field the patch sets to null

\* The values a patch gives need not be valid.
PatchInputs ==
  [firstName: {Absent, Cleared, "blank", "given"}, city: Cities \cup {Absent, Cleared, "unknown"},
   birth: Births \cup {Absent, Cleared, "future"},
   interests: (SUBSET (Interests \cup {"unknown"})) \cup {Absent, Cleared}]

ASSUME ProfileAssumption ==
  /\ Edits \cap Entries = {}
  /\ Patch \in [Edits -> PatchInputs]
  /\ OfAge \subseteq Births
  /\ {Absent, Cleared, "unknown"} \cap Cities = {}
  /\ {Absent, Cleared, "future"} \cap Births = {}
  /\ Absent # Cleared

VARIABLES
  profile,  \* the row of users and its user_interests
  at,       \* how far each request has come
  read      \* the row an edit has read

profileVars == <<profile, at, read>>

Row == [named: BOOLEAN, city: Cities \cup {Absent}, birth: Births \cup {Absent},
        interests: SUBSET Interests]

\* A new account has no city yet; an OAuth provider may have given a name.
ProfileInit ==
  /\ profile \in [named: BOOLEAN, city: {Absent}, birth: {Absent}, interests: {{}}]
  /\ at = [r \in Edits \cup Entries |-> "new"]
  /\ read = [r \in Edits |-> profile]

Reach(r, s) == at' = [at EXCEPT ![r] = s]

IsComplete(row) == row.named /\ row.city # Absent

-----------------------------------------------------------------------------
(* Update.  A patch that is not valid never reaches the database. *)

\* decodeProfilePatch and validateProfilePatch.
Valid(patch) ==
  /\ patch.firstName \in {Absent, "given"}
  /\ patch.birth # "future"
  /\ patch.interests # Cleared

\* Variant: an entry reads the birth date without FOR KEY SHARE.
NoOtherEdit(r) == r \in Edits /\ \A q \in Edits : at[q] # "locked"

\* FOR UPDATE waits for another edit, and for the FOR KEY SHARE of an entry.
MayEdit(r) ==
  /\ \A q \in Edits : at[q] # "locked"
  /\ \A q \in Entries : at[q] # "aged"

LockProfile(r) ==
  /\ r \in Edits /\ at[r] = "new"
  /\ Valid(Patch[r])
  /\ MayEdit(r)
  /\ read' = [read EXCEPT ![r] = profile]
  /\ Reach(r, "locked")
  /\ UNCHANGED profile

\* lockInterests finds fewer rows than the patch names.
NoSuchInterest(patch) == patch.interests # Absent /\ "unknown" \in patch.interests

\* Variant: the city may be cleared at any time.
PatchAllowedAnyway(r) ==
  Patch[r].city # "unknown" /\ ~NoSuchInterest(Patch[r])

\* ErrCityRequired, ErrCityNotFound, ErrInterestsInvalid.
PatchAllowed(r) ==
  /\ Patch[r].city = Cleared => ~(read[r].named /\ read[r].city # Absent)
  /\ Patch[r].city # "unknown"
  /\ ~NoSuchInterest(Patch[r])

\* Variant: a field the patch leaves alone is written too.
WrittenAnyway(field, old) == field

New(field, old) ==
  IF field = Absent THEN old ELSE IF field = Cleared THEN Absent ELSE field

\* UPDATE users, DELETE and INSERT of user_interests, COMMIT.
SaveProfile(r) ==
  /\ r \in Edits /\ at[r] = "locked"
  /\ PatchAllowed(r)
  /\ profile' = [named |-> profile.named \/ Patch[r].firstName = "given",
                 city |-> New(Patch[r].city, profile.city),
                 birth |-> New(Patch[r].birth, profile.birth),
                 interests |-> New(Patch[r].interests, profile.interests)]
  /\ Reach(r, "done")
  /\ UNCHANGED read

-----------------------------------------------------------------------------
(* Entries: create or join a company, apply, create an event, report. *)

\* AccessState and RequireCompleteProfile: one read, before the handler begins.
PassGate(r) ==
  /\ r \in Entries /\ at[r] = "new"
  /\ IsComplete(profile)
  /\ Reach(r, "passed")
  /\ UNCHANGED <<profile, read>>

\* ensureAgeEligible: SELECT birth_date ... FOR KEY SHARE waits for an edit.
CheckAge(r) ==
  /\ r \in Entries /\ at[r] = "passed"
  /\ \A q \in Edits : at[q] # "locked"
  /\ profile.birth \in OfAge
  /\ Reach(r, "aged")
  /\ UNCHANGED <<profile, read>>

\* The row of company_members or applications is inserted and committed.
EnterCompany(r) ==
  /\ r \in Entries /\ at[r] = "aged"
  /\ Reach(r, "done")
  /\ UNCHANGED <<profile, read>>

\* An invalid patch, a refusal, an error or a crash: the transaction is rolled back.
GiveUp(r) ==
  /\ at[r] \in {"new", "passed", "aged", "locked"}
  /\ Reach(r, "ended")
  /\ UNCHANGED <<profile, read>>

ProfileNext ==
  \E r \in Edits \cup Entries :
    \/ LockProfile(r) \/ SaveProfile(r) \/ PassGate(r) \/ CheckAge(r) \/ EnterCompany(r)
    \/ GiveUp(r)

ProfileSpec == ProfileInit /\ [][ProfileNext]_profileVars

-----------------------------------------------------------------------------
(* Properties. *)

ProfileTypeOK ==
  /\ profile \in Row
  /\ at \in [Edits \cup Entries -> {"new", "locked", "passed", "aged", "done", "ended"}]
  /\ read \in [Edits -> Row]

\* RequireCompleteProfile looks at the profile once, before the handler's transaction; whoever has
\* passed it still has a complete profile when the request takes effect, because no edits, in
\* whatever order they run, make a complete profile incomplete (repository.UpdateProfile).
ActorIsComplete ==
  \A r \in Entries : at[r] \in {"passed", "aged", "done"} => IsComplete(profile)

\* The user is of the age the company admits at the very moment of entering: the birth date
\* cannot be edited between ensureAgeEligible and the commit.
EntersOfAge ==
  [][\A r \in Entries : at[r] = "aged" /\ at'[r] = "done" => profile.birth \in OfAge]_profileVars
=============================================================================
