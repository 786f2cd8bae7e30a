------------------------- MODULE PoidemPlaceProofs -------------------------
(***************************************************************************)
(* The tables of participation tell one story, whoever enters a company    *)
(* may, an application is open as long as it is pending and its approval   *)
(* admits; together: the handlers implement Membership.                    *)
(*                                                                         *)
(* What a handler has checked, it checked under the locks of the event,    *)
(* the company and the user, and whoever would change it needs one of      *)
(* these.                                                                  *)
(***************************************************************************)
EXTENDS PoidemCompanyProofs, PoidemRefinement

-----------------------------------------------------------------------------
(* The invariant. *)

BaseInv == AdmissionInv /\ EndInv /\ OwnerInv /\ RowLockInv /\ ApplicationChecked

LockedCompaniesLive ==
  \A k \in Conns, c \in Companies : CompanyLock(c) \in held[k] => CompanyLive(c)

\* What an operation has found of its company.
CompanyFits(r) ==
  LET c == r.company
  IN /\ r.op = "joinOpen" => company[c].status = "active" /\ company[c].join = "open"
     /\ r.op = "apply" => company[c].status = "active"
     /\ r.op = "approve" => company[c].status # "blocked"
     /\ r.op \in {"joinOpen", "approve"} => AgeEligible(r.user, c) /\ HasRoom(c)

\* What an operation has found of its event, and of the user's place in it.
EventFits(r) ==
  /\ r.op \in Admissions \cup {"joinSolo", "apply"} =>
       event[r.event].status = "active" /\ Deadline(r.event) > r.now
  /\ r.op = "cancelSolo" => participant[r.event][r.user] = Solo

WriteChecked ==
  \A k \in Conns :
    tx[k] # Idle /\ tx[k].step = "write" => CompanyFits(tx[k]) /\ EventFits(tx[k])

\* Past the lock of the applicant's row, the applicant is active.
ApplicantChecked ==
  \A k \in Conns :
    tx[k] # Idle /\ tx[k].op \in Resolutions /\ PastUser(tx[k].op, tx[k].step) =>
      account[tx[k].user] = "active"

CheckedInv == BaseInv /\ LockedCompaniesLive /\ WriteChecked /\ ApplicantChecked

LEMMA StepKeepsBase == BaseInv /\ [Next]_vars => BaseInv'
<1>1. BaseInv => ResolutionInv
  BY DEF BaseInv, ResolutionInv, EndInv
<1> QED
  BY <1>1, StepKeepsAdmission, StepKeepsEnd, StepKeepsOwners, StepKeepsRowLocks,
     StepKeepsResolution DEF BaseInv, ResolutionInv, EndInv

-----------------------------------------------------------------------------
(* Who writes what under which lock. *)

\* The commits that write company_members or event_participants, besides a deletion.
TakesPart(k) ==
  \/ JoinSolo(k) \/ CancelSolo(k) \/ CreateCompany(k) \/ JoinOpen(k) \/ Approve(k)
  \/ Leave(k) \/ RemoveMember(k)

LEMMA TakingPart ==
  ASSUME TypeInv, LockInv, NEW k \in Conns, TakesPart(k)
  PROVE  /\ tx[k] # Idle /\ tx[k].step = "write" /\ RequestOK(tx[k])
         /\ tx[k].op \in {"joinSolo", "cancelSolo", "createCompany", "joinOpen", "approve",
                          "leave", "removeMember"}
         /\ tx[k].event \in Events /\ tx[k].user \in Users
         /\ EventLock(tx[k].event) \in held[k]
<1>1. PICK op \in {"joinSolo", "cancelSolo", "createCompany", "joinOpen", "approve",
                   "leave", "removeMember"} : Writing(k, op)
  BY DEF TakesPart, JoinSolo, CancelSolo, CreateCompany, JoinOpen, Approve, Leave, RemoveMember
<1>2. RequestOK(tx[k]) /\ tx[k].op = op /\ tx[k] # Idle /\ tx[k].step = "write"
  BY <1>1, WritingRequest DEF Writing, Idle
<1>3. op \in NamesEvent /\ op \in NamesUser /\ op \in LocksEvent
  BY DEF NamesEvent, NamesUser, LocksEvent, EventOps, CompanyOps, EventThenCompany, Admissions
<1> QED BY <1>2, <1>3 DEF RequestOK, LockInv, EventIsLocked

LEMMA MembersWritten ==
  ASSUME TypeInv, LockInv, NEW k \in Conns, Commit(k), NEW c \in Companies,
         company[c] # None, members'[c] # members[c]
  PROVE  EventLock(company[c].event) \in held[k]
<1> DEFINE r == tx[k]
<1>1. ASSUME JoinOpen(k) \/ Approve(k) \/ Leave(k) \/ RemoveMember(k)
      PROVE  EventLock(company[c].event) \in held[k]
  <2>1. c = r.company
    BY <1>1 DEF JoinOpen, Approve, Leave, RemoveMember, Admit, Expel, TypeInv, TypeOK
  <2>2. r.op \in CompanyOps
    BY <1>1 DEF JoinOpen, Approve, Leave, RemoveMember, Writing, CompanyOps, EventThenCompany
  <2> QED BY <1>1, <2>1, <2>2, TakingPart DEF TakesPart, RequestOK
<1>2. ~CreateCompany(k)
  BY DEF CreateCompany, Admit, TypeInv, TypeOK
<1>3. CASE ~(JoinOpen(k) \/ Approve(k) \/ Leave(k) \/ RemoveMember(k))
  <2>1. UNCHANGED members
    BY <1>2, <1>3 DEF Commit, CreateEvent, EditEvent, DeleteEvent, ApproveEvent, RejectEvent,
       BlockEvent, Moderate, JoinSolo, CancelSolo, CompleteDue, Update, Open, Close,
       SetRecruitment, DeleteCompany, BlockCompany, Apply, CancelApplication, Reject, SetUserStatus
  <2> QED BY <2>1
<1> QED BY <1>1, <1>3

LEMMA ParticipantWritten ==
  ASSUME TypeInv, LockInv, NEW k \in Conns, Commit(k), NEW e \in Events, NEW u \in Users,
         participant'[e][u] # participant[e][u]
  PROVE  \/ EventLock(e) \in held[k]
         \/ DeleteCompany(k) /\ participant[e][u] \in Companies
<1> DEFINE r == tx[k]
<1>1. CASE TakesPart(k)
  <2>1. e = r.event
    BY <1>1 DEF TakesPart, JoinSolo, CancelSolo, CreateCompany, JoinOpen, Approve, Leave,
       RemoveMember, Admit, Expel, TypeInv, TypeOK
  <2> QED BY <1>1, <2>1, TakingPart
<1>2. CASE DeleteEvent(k)
  <2>1. e = r.event
    BY <1>2 DEF DeleteEvent, ParticipationRemoved, TypeInv, TypeOK
  <2>2. r.op = "deleteEvent" /\ r # Idle /\ r.step = "write"
    BY <1>2 DEF DeleteEvent, Writing, Idle
  <2> QED BY <2>1, <2>2 DEF LockInv, EventIsLocked, LocksEvent, EventOps
<1>3. CASE DeleteCompany(k)
  <2>1. participant[e][u] = r.company
    BY <1>3 DEF DeleteCompany, CompanyParticipationRemoved
  <2>2. r.company \in Companies
    BY <1>3, RowWriter DEF WritesRow
  <2> QED BY <1>3, <2>1, <2>2
<1>4. CASE ~TakesPart(k) /\ ~DeleteEvent(k) /\ ~DeleteCompany(k)
  <2>1. UNCHANGED participant
    BY <1>4 DEF Commit, TakesPart, CreateEvent, EditEvent, ApproveEvent, RejectEvent,
       BlockEvent, Moderate, CompleteDue, Update, Open, Close,
       SetRecruitment, BlockCompany, Apply, CancelApplication, Reject, SetUserStatus
  <2> QED BY <2>1
<1> QED BY <1>1, <1>2, <1>3, <1>4

LEMMA AccountWritten ==
  ASSUME TypeInv, RowLockInv, NEW k \in Conns, Commit(k), NEW u \in Users,
         account'[u] # account[u]
  PROVE  UserLock(u) \in held[k]
<1>1. PICK op \in UserOps : \E status : SetUserStatus(k, op, status)
  <2>1. ~(SetUserStatus(k, "ban", "banned") \/ SetUserStatus(k, "unban", "active")) =>
          UNCHANGED account
    BY DEF Commit, CreateEvent, EditEvent, DeleteEvent, ApproveEvent, RejectEvent, BlockEvent,
       Moderate, JoinSolo, CancelSolo, CompleteDue, CreateCompany, JoinOpen, Leave, RemoveMember,
       Update, Open, Close, SetRecruitment, DeleteCompany, BlockCompany, Apply,
       CancelApplication, Approve, Reject
  <2> QED BY <2>1 DEF UserOps
<1>2. tx[k] # Idle /\ tx[k].op = op /\ tx[k].step = "write"
  BY <1>1 DEF SetUserStatus, Writing, Idle
<1>3. u = tx[k].user
  BY <1>1 DEF SetUserStatus, TypeInv, TypeOK
<1>4. PastUser(tx[k].op, tx[k].step)
  BY <1>2 DEF PastUser
<1> QED BY <1>2, <1>3, <1>4 DEF RowLockInv, RowsAreLocked

\* What a connection holds the lock of, no other commit changes.
LEMMA HeldStays ==
  ASSUME BaseInv, NEW k \in Conns, Commit(k), NEW j \in Conns \ {k}
  PROVE  /\ \A c \in Companies : CompanyLock(c) \in held[j] /\ company[c] # None =>
              company'[c] = company[c]
         /\ \A e \in Events : EventLock(e) \in held[j] =>
              /\ event'[e] = event[e]
              /\ \A c \in Companies : company[c] # None /\ company[c].event = e =>
                   members'[c] = members[c]
              /\ \A u \in Users : participant[e][u] = Solo => participant'[e][u] = Solo
         /\ \A u \in Users : UserLock(u) \in held[j] => account'[u] = account[u]
<1> USE DEF BaseInv
<1>1. TypeInv /\ LockInv /\ RowLockInv /\ EndInv
  BY DEF EndInv
<1>2. \A c \in Companies : CompanyLock(c) \in held[j] /\ company[c] # None =>
        company'[c] = company[c]
  BY <1>1, RowIsLocked
<1>3. \A e \in Events : EventLock(e) \in held[j] => EventLock(e) \notin held[k]
  BY <1>1 DEF LockInv, EventLocksExclude
<1>4. \A e \in Events : EventLock(e) \in held[j] => event'[e] = event[e]
  BY <1>1, <1>3, EventWritten DEF EndInv, LockedAreLive, EventLive
<1>5. \A e \in Events, c \in Companies :
        EventLock(e) \in held[j] /\ company[c] # None /\ company[c].event = e =>
          members'[c] = members[c]
  BY <1>1, <1>3, MembersWritten
<1>6. \A e \in Events, u \in Users :
        EventLock(e) \in held[j] /\ participant[e][u] = Solo => participant'[e][u] = Solo
  BY <1>1, <1>3, ParticipantWritten, DatabaseAssumption
<1>7. \A u \in Users : UserLock(u) \in held[j] => account'[u] = account[u]
  BY <1>1, AccountWritten DEF RowLockInv, RowLocksExclude, RowLocks
<1> QED BY <1>2, <1>4, <1>5, <1>6, <1>7

-----------------------------------------------------------------------------
(* What was checked stays so until it is written. *)

LEMMA AllowedFits ==
  ASSUME NEW r, Allowed(r) PROVE CompanyFits(r) /\ EventFits(r)
<1>1. CASE r.op = "createCompany"
  BY <1>1 DEF Allowed, CreateCompanyAllowed, EventAvailable, CompanyFits, EventFits
<1>2. CASE r.op = "joinOpen"
  BY <1>2 DEF Allowed, JoinOpenAllowed, EventAvailable, CompanyFits, EventFits
<1>3. CASE r.op = "approve"
  BY <1>3 DEF Allowed, ApproveAllowed, EventAvailable, CompanyFits, EventFits
<1>4. CASE r.op = "apply"
  BY <1>4 DEF Allowed, ApplyAllowed, EventAvailable, CompanyFits, EventFits, Admissions
<1>5. CASE r.op = "joinSolo"
  BY <1>5 DEF Allowed, JoinSoloAllowed, EventAvailable, CompanyFits, EventFits
<1>6. CASE r.op = "cancelSolo"
  BY <1>6 DEF Allowed, CancelSoloAllowed, CompanyFits, EventFits, Admissions
<1>7. CASE r.op \notin {"createCompany", "joinOpen", "approve", "apply", "joinSolo", "cancelSolo"}
  BY <1>7 DEF CompanyFits, EventFits, Admissions
<1> QED BY <1>1, <1>2, <1>3, <1>4, <1>5, <1>6, <1>7

\* The rows those checks have read are locked.
LEMMA ReadIsLocked ==
  ASSUME TypeInv, LockInv, RowLockInv, NEW j \in Conns, tx[j] # Idle, tx[j].step = "write"
  PROVE  LET r == tx[j]
         IN /\ r.op \in {"joinOpen", "apply", "approve"} =>
                 /\ r.company \in Companies /\ company[r.company] # None
                 /\ company[r.company].event = r.event
                 /\ CompanyLock(r.company) \in held[j]
            /\ r.op \in Admissions \cup {"joinSolo", "cancelSolo", "apply"} =>
                 /\ r.event \in Events /\ r.user \in Users
                 /\ EventLock(r.event) \in held[j]
<1>1. RequestOK(tx[j])
  BY DEF TypeInv, RequestsOK
<1>2. tx[j].op \in {"joinOpen", "apply", "approve"} =>
        tx[j].op \in CompanyOps /\ PastCompany(tx[j].op, tx[j].step)
  BY DEF CompanyOps, EventThenCompany, PastCompany
<1>3. tx[j].op \in Admissions \cup {"joinSolo", "cancelSolo", "apply"} =>
        tx[j].op \in NamesEvent /\ tx[j].op \in NamesUser /\ tx[j].op \in LocksEvent
  BY DEF Admissions, NamesEvent, NamesUser, LocksEvent, EventOps, CompanyOps, EventThenCompany
<1> QED
  BY <1>1, <1>2, <1>3 DEF RequestOK, RowLockInv, RowsAreLocked, LockInv, EventIsLocked

LEMMA FitsStays ==
  ASSUME BaseInv, WriteChecked, NEW k \in Conns, Commit(k), NEW j \in Conns \ {k},
         tx'[j] = tx[j], tx[j] # Idle, tx[j].step = "write"
  PROVE  CompanyFits(tx[j])' /\ EventFits(tx[j])'
<1> DEFINE r == tx[j]
<1>1. TypeInv /\ LockInv /\ RowLockInv
  BY DEF BaseInv, EndInv
<1>2. CompanyFits(r) /\ EventFits(r)
  BY DEF WriteChecked
<1>3. CASE r.op \in {"joinOpen", "apply", "approve"}
  <2>1. /\ r.company \in Companies /\ company[r.company] # None
        /\ company[r.company].event = r.event /\ CompanyLock(r.company) \in held[j]
        /\ r.event \in Events /\ EventLock(r.event) \in held[j]
    BY <1>1, <1>3, ReadIsLocked DEF Admissions
  <2>2. /\ company'[r.company] = company[r.company]
        /\ members'[r.company] = members[r.company]
        /\ event'[r.event] = event[r.event]
    BY <2>1, HeldStays
  <2> QED BY <1>2, <1>3, <2>2 DEF CompanyFits, EventFits, AgeEligible, HasRoom, Admissions, Deadline
<1>4. CASE r.op \in {"createCompany", "joinSolo", "cancelSolo"}
  <2>1. r.event \in Events /\ r.user \in Users /\ EventLock(r.event) \in held[j]
    BY <1>1, <1>4, ReadIsLocked DEF Admissions
  <2>2. /\ event'[r.event] = event[r.event]
        /\ participant[r.event][r.user] = Solo => participant'[r.event][r.user] = Solo
    BY <2>1, HeldStays
  <2> QED BY <1>2, <1>4, <2>2 DEF CompanyFits, EventFits, Admissions, Deadline
<1>5. CASE r.op \notin {"joinOpen", "apply", "approve", "createCompany", "joinSolo", "cancelSolo"}
  BY <1>5 DEF CompanyFits, EventFits, Admissions
<1> QED BY <1>3, <1>4, <1>5

LEMMA StepKeepsWriteChecked ==
  ASSUME BaseInv, BaseInv', WriteChecked, [Next]_vars PROVE WriteChecked'
<1> SUFFICES ASSUME NEW j \in Conns, tx'[j] # Idle, tx'[j].step = "write"
             PROVE  CompanyFits(tx[j])' /\ EventFits(tx[j])'
  BY DEF WriteChecked
<1>1. TypeInv /\ TypeInv'
  BY DEF BaseInv, EndInv
<1>2. CASE tx'[j].op = "completeDue"
  BY <1>2 DEF CompanyFits, EventFits, Admissions
<1>3. CASE tx'[j] = tx[j]
  <2>1. CASE UNCHANGED tables
    BY <1>3, <2>1
       DEF WriteChecked, CompanyFits, EventFits, AgeEligible, HasRoom, Deadline, tables
  <2>2. ASSUME NEW k \in Conns, Commit(k), Release(k)
        PROVE  CompanyFits(tx[j])' /\ EventFits(tx[j])'
    <3>1. k # j
      BY <1>1, <2>2 DEF Release, TypeInv, TypeOK
    <3> QED BY <1>3, <2>2, <3>1, FitsStays
  <2> QED BY <2>1, <2>2, CommitWrites
<1>4. CASE /\ tx'[j].user = tx[j].user /\ tx'[j].event = tx[j].event
           /\ tx'[j].company = tx[j].company /\ tx'[j].op = tx[j].op
           /\ tx'[j].now = tx[j].now
           /\ Allowed(tx[j]) /\ UNCHANGED tables
  BY <1>4, AllowedFits DEF CompanyFits, EventFits, AgeEligible, HasRoom, Deadline, tables
<1> QED BY <1>1, <1>2, <1>3, <1>4, AboutToWrite

LEMMA StepKeepsLockedCompaniesLive ==
  ASSUME BaseInv, LockedCompaniesLive, [Next]_vars PROVE LockedCompaniesLive'
<1> SUFFICES ASSUME NEW j \in Conns, NEW c \in Companies, CompanyLock(c) \in held'[j]
             PROVE  CompanyLive(c)'
  BY DEF LockedCompaniesLive
<1>1. TypeInv
  BY DEF BaseInv, EndInv
<1>2. CASE UNCHANGED tables
  <2> SUFFICES CompanyLive(c)
    BY <1>2 DEF CompanyLive, tables
  <2>1. CASE CompanyLock(c) \in held[j]
    BY <2>1 DEF LockedCompaniesLive
  <2>2. CASE CompanyLock(c) \notin held[j]
    <3>1. Moves(j)
      BY <1>1, <2>2, OneMoves
    <3>2. CompanyLock(c) \in RowLocks
      BY DEF RowLocks
    <3>3. /\ \A e : EventLock(e) # CompanyLock(c)
          /\ \A d, u : ApplicationLock(d, u) # CompanyLock(c)
          /\ \A u : UserLock(u) # CompanyLock(c)
          /\ \A d : CompanyLock(d) = CompanyLock(c) => d = c
      BY DEF EventLock, ApplicationLock, UserLock, CompanyLock
    <3> QED BY <2>2, <3>1, <3>2, <3>3 DEF Moves, Takes
  <2> QED BY <2>1, <2>2
<1>3. ASSUME NEW k \in Conns, Commit(k), Release(k) PROVE CompanyLive(c)'
  <2>1. k # j /\ held'[j] = held[j]
    BY <1>1, <1>3 DEF Release, TypeInv, TypeOK
  <2>2. CompanyLive(c) /\ CompanyLock(c) \in held[j]
    BY <2>1 DEF LockedCompaniesLive
  <2>3. company'[c] = company[c]
    BY <1>3, <2>1, <2>2, HeldStays DEF CompanyLive
  <2> QED BY <2>2, <2>3 DEF CompanyLive
<1> QED BY <1>2, <1>3, CommitWrites

LEMMA StepKeepsApplicantChecked ==
  ASSUME BaseInv, ApplicantChecked, [Next]_vars PROVE ApplicantChecked'
<1> SUFFICES ASSUME NEW j \in Conns, tx'[j] # Idle, tx'[j].op \in Resolutions,
                    PastUser(tx'[j].op, tx'[j].step)
             PROVE  account'[tx'[j].user] = "active"
  BY DEF ApplicantChecked
<1> DEFINE r == tx[j]
<1>1. TypeInv /\ RowLockInv
  BY DEF BaseInv, EndInv
<1>2. r # Idle /\ r.op \in Resolutions /\ PastUser(r.op, r.step) => account[r.user] = "active"
  BY DEF ApplicantChecked
<1>3. CASE UNCHANGED tables /\ Moves(j)
  <2>1. UNCHANGED account
    BY <1>3 DEF tables
  <2>2. CASE tx'[j] = r
    BY <1>2, <2>1, <2>2
  <2>3. tx'[j].step # FirstStep(tx'[j].op)
    BY OrderOfLocks
  <2>4. \A step \in {"event", "company", "application"} :
          SameRequest(j) /\ tx'[j].step = StepAfter(r.op, step) => FALSE
    BY OrderOfLocks DEF SameRequest, Resolutions, UserOps
  <2>5. CASE r.step = "user" /\ ApplicantIsActive(r) /\ tx'[j].user = r.user
    BY <2>1, <2>5 DEF ApplicantIsActive
  <2>6. CASE r.step = "check" /\ SameRequest(j)
    BY <1>2, <2>1, <2>6 DEF SameRequest, PastUser
  <2> QED BY <1>3, <2>2, <2>3, <2>4, <2>5, <2>6 DEF Moves, Takes, SameRequest
<1>4. ASSUME NEW k \in Conns, Commit(k), Release(k) PROVE account'[tx'[j].user] = "active"
  <2>1. k # j /\ tx'[j] = r
    BY <1>1, <1>4 DEF Release, TypeInv, TypeOK
  <2>2. account[r.user] = "active" /\ UserLock(r.user) \in held[j]
    BY <1>1, <1>2, <2>1 DEF RowLockInv, RowsAreLocked
  <2>3. r.user \in Users
    BY <1>1, <2>1 DEF TypeInv, RequestsOK, RequestOK, Resolutions, NamesUser, Admissions
  <2> QED BY <1>4, <2>1, <2>2, <2>3, HeldStays
<1>5. CASE UNCHANGED <<tables, tx>>
  BY <1>2, <1>5 DEF tables
<1>6. CASE UNCHANGED tables /\ tx'[j] = r
  BY <1>2, <1>6 DEF tables
<1> QED BY <1>1, <1>3, <1>4, <1>5, <1>6, OneMoves, CommitWrites

LEMMA StepKeepsChecked == CheckedInv /\ [Next]_vars => CheckedInv'
BY StepKeepsBase, StepKeepsWriteChecked, StepKeepsLockedCompaniesLive, StepKeepsApplicantChecked
   DEF CheckedInv

-----------------------------------------------------------------------------
(* What the commits leave of the rows of events and companies. *)

SameCompanies ==
  \A c \in Companies :
    /\ company[c] = None <=> company'[c] = None
    /\ company[c] # None =>
         /\ company'[c].event = company[c].event /\ company'[c].owner = company[c].owner
         /\ company'[c].deleted = company[c].deleted

\* An event that exists goes on; one that begins is not deleted.
SameEvents ==
  \A e \in Events :
    IF event[e] = None THEN event'[e] = None \/ EventLive(e)'
    ELSE event'[e] # None /\ event'[e].deleted = event[e].deleted

LEMMA CompaniesStay ==
  ASSUME TypeInv, NEW k \in Conns, Commit(k), ~CreateCompany(k), ~DeleteCompany(k)
  PROVE  SameCompanies
<1>1. CASE WritesRow(k)
  <2>1. \A c \in Companies : c # tx[k].company => company'[c] = company[c]
    BY <1>1, RowWriter
  <2>2. LET row == company[tx[k].company]
            new == company'[tx[k].company]
        IN /\ row # None /\ new # None /\ new.owner = row.owner /\ new.event = row.event
           /\ new.deleted = row.deleted
    BY <1>1, RowWriter, RowWritten, NullAssumption
  <2> QED BY <2>1, <2>2 DEF SameCompanies
<1>2. CASE DeleteEvent(k)
  <2>1. \A c \in Companies : company[c] = None => company'[c] = None
    BY <1>2 DEF DeleteEvent, CompaniesOfEvent
  <2>2. \A c \in Companies : company[c] # None => company'[c] # None
    BY <1>2, EventWritesKeepTypes DEF RowsRemain
  <2>3. \A c \in Companies : company[c] # None =>
          /\ company'[c].event = company[c].event /\ company'[c].owner = company[c].owner
          /\ company'[c].deleted = company[c].deleted
    BY <1>2 DEF DeleteEvent, TypeInv, TypeOK, CompanyRow
  <2> QED BY <2>1, <2>2, <2>3 DEF SameCompanies
<1>3. CASE ~WritesRow(k) /\ ~DeleteEvent(k)
  <2>1. UNCHANGED company
    BY <1>3 DEF Commit, WritesRow, CreateEvent, EditEvent, ApproveEvent, RejectEvent,
       BlockEvent, Moderate, JoinSolo, CancelSolo, CompleteDue, JoinOpen, Leave, RemoveMember,
       Apply, CancelApplication, Approve, Reject, SetUserStatus
  <2> QED BY <2>1 DEF SameCompanies
<1> QED BY <1>1, <1>2, <1>3

\* What a commit, besides a deletion, makes of an event that exists.
LEMMA EventGoesOn ==
  ASSUME TypeInv, TypeInv', NEW k \in Conns, Commit(k), ~DeleteEvent(k), NEW e \in Events,
         event[e] # None
  PROVE  /\ event'[e] # None /\ event'[e].deleted = event[e].deleted
         /\ \/ event'[e].status = "completed" => event[e].status = "completed"
            \/ CompleteDue(k) /\ EventLock(e) \in held[k]
<1> DEFINE r == tx[k]
<1>1. event[e] \in EventRow /\ event \in [Events -> EventRow \cup {None}]
  BY DEF TypeInv, TypeOK
<1>2. CASE event'[e] = event[e]
  BY <1>2
<1>3. CASE CreateEvent(k) /\ event'[e] # event[e]
  BY <1>1, <1>3 DEF CreateEvent
<1>4. CASE EditEvent(k) /\ event'[e] # event[e]
  <2>1. r.event = e
    BY <1>1, <1>4 DEF EditEvent
  <2>2. event'[e] = [event[e] EXCEPT !.form = NewForm(r),
                       !.status = IF r.actor = Admin THEN event[e].status ELSE "pending"]
    BY <1>1, <1>4, <2>1 DEF EditEvent
  <2>3. /\ event'[e].deleted = event[e].deleted
        /\ event'[e].status = IF r.actor = Admin THEN event[e].status ELSE "pending"
    BY <1>1, <2>2 DEF EventRow
  <2>4. RowsRemain
    BY <1>4, EventWritesKeepTypes
  <2> QED BY <2>3, <2>4 DEF RowsRemain
<1>5. CASE (ApproveEvent(k) \/ RejectEvent(k) \/ BlockEvent(k)) /\ event'[e] # event[e]
  <2>1. r.event = e
    BY <1>1, <1>5 DEF ApproveEvent, RejectEvent, BlockEvent, Moderate
  <2>2. PICK status \in {"active", "rejected", "blocked"} :
          event'[e] = [event[e] EXCEPT !.status = status]
    BY <1>1, <1>5, <2>1 DEF ApproveEvent, RejectEvent, BlockEvent, Moderate
  <2>3. event'[e].deleted = event[e].deleted /\ event'[e].status = status
    BY <1>1, <2>2 DEF EventRow
  <2>4. RowsRemain
    BY <1>5, EventWritesKeepTypes
  <2> QED BY <2>2, <2>3, <2>4 DEF RowsRemain
<1>6. CASE CompleteDue(k) /\ event'[e] # event[e]
  <2>1. EventLock(e) \in held[k] /\ event'[e] = [event[e] EXCEPT !.status = "completed"]
    BY <1>6 DEF CompleteDue
  <2>2. event'[e].deleted = event[e].deleted
    BY <1>1, <2>1 DEF EventRow
  <2>3. RowsRemain
    BY <1>6, EventWritesKeepTypes
  <2> QED BY <1>6, <2>1, <2>2, <2>3 DEF RowsRemain
<1>7. CASE ~(CreateEvent(k) \/ EditEvent(k) \/ ApproveEvent(k) \/ RejectEvent(k) \/ BlockEvent(k)
               \/ CompleteDue(k))
  <2>1. UNCHANGED event
    BY <1>7 DEF Commit, JoinSolo, CancelSolo, CreateCompany, JoinOpen, Leave, RemoveMember,
       Update, Open, Close, SetRecruitment, DeleteCompany, BlockCompany, Apply, CancelApplication,
       Approve, Reject, SetUserStatus
  <2> QED BY <2>1
<1> QED BY <1>2, <1>3, <1>4, <1>5, <1>6, <1>7

LEMMA EventsStay ==
  ASSUME TypeInv, TypeInv', NEW k \in Conns, Commit(k), ~DeleteEvent(k)
  PROVE  SameEvents
<1> SUFFICES ASSUME NEW e \in Events, event[e] = None, event'[e] # None PROVE EventLive(e)'
  BY EventGoesOn DEF SameEvents
<1>1. CASE CreateEvent(k)
  <2>1. event'[e] = [status |-> "pending", deleted |-> FALSE, form |-> tx[k].patch,
                     creator |-> tx[k].actor]
    BY <1>1 DEF CreateEvent, TypeInv, TypeOK
  <2> QED BY <2>1 DEF EventLive
<1>2. CASE EditEvent(k) \/ ApproveEvent(k) \/ RejectEvent(k) \/ BlockEvent(k)
  <2>1. PICK op \in {"editEvent", "approveEvent", "rejectEvent", "blockEvent"} : Writing(k, op)
    BY <1>2 DEF EditEvent, ApproveEvent, RejectEvent, BlockEvent, Moderate
  <2>2. event[tx[k].event] # None
    BY <2>1, WritingRequest DEF RequestOK, NamesEvent, EventOps
  <2>3. event'[e] = event[e]
    BY <1>2, <2>2 DEF EditEvent, ApproveEvent, RejectEvent, BlockEvent, Moderate, TypeInv, TypeOK
  <2> QED BY <2>3
<1>3. CASE CompleteDue(k)
  <2>1. event'[e] = event[e]
    BY <1>3 DEF CompleteDue, TypeInv, LockedEventsExist
  <2> QED BY <2>1
<1>4. CASE ~(CreateEvent(k) \/ EditEvent(k) \/ ApproveEvent(k) \/ RejectEvent(k) \/ BlockEvent(k)
               \/ CompleteDue(k))
  <2>1. UNCHANGED event
    BY <1>4 DEF Commit, JoinSolo, CancelSolo, CreateCompany, JoinOpen, Leave, RemoveMember,
       Update, Open, Close, SetRecruitment, DeleteCompany, BlockCompany, Apply, CancelApplication,
       Approve, Reject, SetUserStatus
  <2> QED BY <2>1
<1> QED BY <1>1, <1>2, <1>3, <1>4

-----------------------------------------------------------------------------
(* What the commits do to the place of a user in an event. *)

LEMMA SamePlaces ==
  ASSUME SameCompanies, UNCHANGED members, NEW u \in Users, NEW e \in Events
  PROVE  CompaniesOf(u, e)' = CompaniesOf(u, e)
BY DEF SameCompanies, CompaniesOf, CompaniesOfEvent

\* A company needs an event.
LEMMA NobodyYet ==
  ASSUME TypeInv, NEW u \in Users, NEW e \in Events, event[e] = None
  PROVE  CompaniesOf(u, e) = {}
BY DEF TypeInv, EventsOfCompaniesExist, CompaniesOf, CompaniesOfEvent

LEMMA QuietCommits ==
  ASSUME TypeInv, TypeInv', NEW k \in Conns, Commit(k),
         ~TakesPart(k), ~DeleteEvent(k), ~DeleteCompany(k)
  PROVE  SameEvents /\ SameCompanies /\ UNCHANGED <<members, participant>>
<1>1. UNCHANGED <<members, participant>>
  BY DEF Commit, TakesPart, CreateEvent, EditEvent, ApproveEvent, RejectEvent, BlockEvent,
     Moderate, CompleteDue, Update, Open, Close, SetRecruitment, BlockCompany, Apply,
     CancelApplication, Reject, SetUserStatus
<1> QED BY <1>1, EventsStay, CompaniesStay DEF TakesPart

\* An admission gives its user the company as the only place in the event, and nobody another.
LEMMA AdmissionEffect ==
  ASSUME CheckedInv, NEW k \in Conns, CreateCompany(k) \/ JoinOpen(k) \/ Approve(k)
  PROVE  LET r == tx[k]
         IN /\ r.user \in Users /\ r.event \in Events /\ UNCHANGED event
            /\ EventLive(r.event) /\ event[r.event].status = "active"
            /\ r.now < Deadline(r.event)
            /\ CompaniesOf(r.user, r.event) = {}
            /\ \E c \in Companies :
                 /\ \/ /\ CreateCompany(k) /\ company[c] = None
                       /\ company' = [company EXCEPT ![c] = NewCompany(r)]
                    \/ /\ JoinOpen(k) \/ Approve(k)
                       /\ c = r.company /\ CompanyLive(c) /\ UNCHANGED company
                 /\ company'[c] # None /\ ~company'[c].deleted /\ company'[c].event = r.event
                 /\ Admit(r, c)
                 /\ \A u \in Users, e \in Events :
                      CompaniesOf(u, e)' =
                        IF u = r.user /\ e = r.event THEN {c} ELSE CompaniesOf(u, e)
<1> DEFINE r == tx[k]
<1> USE DEF CheckedInv, BaseInv
<1>1. /\ TypeInv /\ LockInv /\ RowLockInv /\ UnbornIsEmpty /\ AdmissionChecked /\ LockedAreLive
  BY DEF EndInv, AdmissionInv
<1>2. PICK op \in Admissions : Writing(k, op)
  BY DEF CreateCompany, JoinOpen, Approve, Admissions
<1>3. /\ r # Idle /\ r.op = op /\ r.step = "write" /\ RequestOK(r)
  BY <1>1, <1>2, WritingRequest DEF Writing, Idle
<1>4. r.event \in Events /\ r.user \in Users /\ EventLock(r.event) \in held[k]
  BY <1>1, <1>3, ReadIsLocked
<1>5. /\ EventLive(r.event) /\ event[r.event].status = "active" /\ UNCHANGED event
      /\ r.now < Deadline(r.event)
  BY <1>1, <1>3, <1>4 DEF LockedAreLive, WriteChecked, EventFits, CreateCompany, JoinOpen, Approve
<1>6. CompaniesOf(r.user, r.event) = {}
  BY <1>1, <1>3 DEF AdmissionChecked
<1>7. PICK c \in Companies :
        /\ \/ /\ CreateCompany(k) /\ company[c] = None
              /\ company' = [company EXCEPT ![c] = NewCompany(r)]
           \/ /\ JoinOpen(k) \/ Approve(k)
              /\ c = r.company /\ CompanyLive(c) /\ UNCHANGED company
        /\ company'[c] # None /\ ~company'[c].deleted /\ company'[c].event = r.event
        /\ Admit(r, c)
  <2>1. CASE CreateCompany(k)
    <3>1. r.op = "createCompany"
      BY <2>1 DEF CreateCompany, Writing
    <3>2. NewCompany(r) # None /\ ~NewCompany(r).deleted /\ NewCompany(r).event = r.event
      BY <1>3, <3>1, NewCompanyType DEF NewCompany
    <3>3. PICK c \in Companies : /\ company[c] = None /\ Admit(r, c)
                                 /\ company' = [company EXCEPT ![c] = NewCompany(r)]
      BY <2>1 DEF CreateCompany
    <3>4. company'[c] = NewCompany(r)
      BY <1>1, <3>3 DEF TypeInv, TypeOK
    <3> HIDE DEF r
    <3> QED BY <2>1, <3>2, <3>3, <3>4
  <2>2. CASE JoinOpen(k) \/ Approve(k)
    <3>1. r.op \in {"joinOpen", "approve"}
      BY <2>2 DEF JoinOpen, Approve, Writing
    <3>2. /\ r.company \in Companies /\ company[r.company].event = r.event
          /\ CompanyLock(r.company) \in held[k]
      BY <1>1, <1>3, <3>1, ReadIsLocked
    <3>3. CompanyLive(r.company)
      BY <3>2 DEF LockedCompaniesLive
    <3>4. UNCHANGED company /\ Admit(r, r.company)
      BY <2>2 DEF JoinOpen, Approve
    <3> QED BY <2>2, <3>2, <3>3, <3>4 DEF CompanyLive
  <2> QED BY <2>1, <2>2
<1>8. ASSUME NEW u \in Users, NEW e \in Events
      PROVE  CompaniesOf(u, e)' = IF u = r.user /\ e = r.event THEN {c} ELSE CompaniesOf(u, e)
  <2>1. \A d \in Companies :
          /\ members'[d] = IF d = c THEN members[d] \cup {r.user} ELSE members[d]
          /\ d # c => company'[d] = company[d]
    BY <1>1, <1>7 DEF Admit, TypeInv, TypeOK
  <2>2. \A d \in Companies \ {c} : d \in CompaniesOf(u, e)' <=> d \in CompaniesOf(u, e)
    BY <2>1 DEF CompaniesOf, CompaniesOfEvent
  <2>3. c \in CompaniesOf(u, e)' <=> e = r.event /\ (u = r.user \/ u \in members[c])
    BY <1>7, <2>1 DEF CompaniesOf, CompaniesOfEvent
  <2>4. c \in CompaniesOf(u, e) <=> e = r.event /\ u \in members[c]
    BY <1>1, <1>7 DEF CompaniesOf, CompaniesOfEvent, UnbornIsEmpty, CompanyLive
  <2>5. CompaniesOf(u, e) \subseteq Companies /\ CompaniesOf(u, e)' \subseteq Companies
    BY DEF CompaniesOf, CompaniesOfEvent
  <2> HIDE DEF CheckedInv, BaseInv
  <2>6. CASE u = r.user /\ e = r.event
    BY <1>6, <2>2, <2>3, <2>5, <2>6
  <2>7. CASE ~(u = r.user /\ e = r.event)
    <3>1. c \in CompaniesOf(u, e)' <=> c \in CompaniesOf(u, e)
      BY <2>3, <2>4, <2>7
    <3> QED BY <2>2, <2>5, <2>7, <3>1
  <2> QED BY <2>6, <2>7
<1> QED BY <1>4, <1>5, <1>6, <1>7, <1>8

\* Whoever leaves or is removed loses this company and the place that names it.
LEMMA ExpulsionEffect ==
  ASSUME CheckedInv, NEW k \in Conns, Leave(k) \/ RemoveMember(k)
  PROVE  LET r == tx[k]
         IN /\ r.user \in Users /\ r.event \in Events /\ r.company \in Companies
            /\ EventLive(r.event) /\ UNCHANGED <<event, company>>
            /\ company[r.company] # None /\ company[r.company].owner # r.user
            /\ \A u \in Users, e \in Events :
                 IF u = r.user /\ e = r.event
                 THEN /\ CompaniesOf(u, e)' = CompaniesOf(u, e) \ {r.company}
                      /\ participant'[e][u] =
                           IF participant[e][u] = r.company THEN None ELSE participant[e][u]
                 ELSE /\ CompaniesOf(u, e)' = CompaniesOf(u, e)
                      /\ participant'[e][u] = participant[e][u]
<1> DEFINE r == tx[k]
<1> USE DEF CheckedInv, BaseInv
<1>1. TypeInv /\ LockInv /\ LockedAreLive /\ LeaverIsNotOwner
  BY DEF EndInv, OwnerInv
<1>2. /\ r # Idle /\ r.op \in {"leave", "removeMember"} /\ r.step = "write" /\ RequestOK(r)
      /\ r.event \in Events /\ r.user \in Users /\ EventLock(r.event) \in held[k]
  <2>1. Writing(k, "leave") \/ Writing(k, "removeMember")
    BY DEF Leave, RemoveMember
  <2> QED BY <1>1, <2>1, TakingPart DEF TakesPart, Writing
<1>3. /\ r.company \in Companies /\ company[r.company] # None
      /\ company[r.company].event = r.event
  BY <1>2 DEF RequestOK, CompanyOps, EventThenCompany
<1>4. UNCHANGED <<event, company>> /\ Expel(r)
  BY DEF Leave, RemoveMember
<1>5. /\ \A c \in Companies :
           members'[c] = IF c = r.company THEN members[c] \ {r.user} ELSE members[c]
      /\ \A e \in Events, u \in Users :
           participant'[e][u] =
             IF e = r.event /\ u = r.user /\ participant[e][u] = r.company
             THEN None ELSE participant[e][u]
  BY <1>1, <1>2, <1>4 DEF Expel, TypeInv, TypeOK
<1>6. ASSUME NEW u \in Users, NEW e \in Events
      PROVE  CompaniesOf(u, e)' = IF u = r.user /\ e = r.event
                                  THEN CompaniesOf(u, e) \ {r.company} ELSE CompaniesOf(u, e)
  BY <1>3, <1>4, <1>5 DEF CompaniesOf, CompaniesOfEvent
<1> HIDE DEF CheckedInv, BaseInv
<1> QED BY <1>1, <1>2, <1>3, <1>4, <1>5, <1>6 DEF LockedAreLive, LeaverIsNotOwner

\* With a company go the places that name it.
LEMMA DeletionEffect ==
  ASSUME CheckedInv, NEW k \in Conns, DeleteCompany(k)
  PROVE  LET c == tx[k].company
         IN /\ c \in Companies /\ CompanyLive(c) /\ UNCHANGED event
            /\ company'[c] # None /\ company'[c].deleted
            /\ company'[c].event = company[c].event /\ company'[c].owner = company[c].owner
            /\ \A d \in Companies \ {c} : company'[d] = company[d]
            /\ \A u \in Users, e \in Events :
                 /\ CompaniesOf(u, e)' = CompaniesOf(u, e) \ {c}
                 /\ participant'[e][u] = IF participant[e][u] = c THEN None ELSE participant[e][u]
<1> DEFINE c == tx[k].company
<1>1. TypeInv /\ RowLockInv
  BY DEF CheckedInv, BaseInv, EndInv
<1>2. tx[k] # Idle /\ tx[k].op = "deleteCompany" /\ tx[k].step = "write"
  BY DEF DeleteCompany, Writing, Idle
<1>3. c \in Companies /\ company[c] \in CompanyRow
  BY <1>1, RowWriter DEF WritesRow
<1>4. CompanyLive(c)
  <2>1. PastCompany(tx[k].op, tx[k].step)
    BY <1>2 DEF PastCompany, CompanyOnly
  <2> QED BY <1>1, <1>2, <1>3, <2>1 DEF RowLockInv, RowsAreLocked, CheckedInv, LockedCompaniesLive
<1>5. /\ company'[c] = [company[c] EXCEPT !.deleted = TRUE]
      /\ \A d \in Companies \ {c} : company'[d] = company[d]
      /\ UNCHANGED <<event, members>>
  BY <1>1, <1>3 DEF DeleteCompany, TypeInv, TypeOK
<1>6. /\ company'[c].deleted
      /\ company'[c].event = company[c].event /\ company'[c].owner = company[c].owner
  BY <1>3, <1>5 DEF CompanyRow
<1>7. company'[c] # None
  BY <1>1, <1>3, RowWritten, NullAssumption DEF WritesRow
<1>8. ASSUME NEW u \in Users, NEW e \in Events
      PROVE  CompaniesOf(u, e)' = CompaniesOf(u, e) \ {c}
  BY <1>3, <1>5, <1>6, <1>7 DEF CompaniesOf, CompaniesOfEvent
<1>9. \A u \in Users, e \in Events :
        participant'[e][u] = IF participant[e][u] = c THEN None ELSE participant[e][u]
  BY DEF DeleteCompany, CompanyParticipationRemoved
<1> QED BY <1>3, <1>4, <1>5, <1>6, <1>7, <1>8, <1>9

\* With an event go all the places in it; its companies keep their members.
LEMMA DissolutionEffect ==
  ASSUME CheckedInv, NEW k \in Conns, DeleteEvent(k)
  PROVE  LET e == tx[k].event
         IN /\ e \in Events /\ EventLive(e) /\ event'[e] # None /\ event'[e].deleted
            /\ \A d \in Events \ {e} : event'[d] = event[d]
            /\ SameCompanies /\ UNCHANGED members
            /\ \A d \in Events, u \in Users :
                 participant'[d][u] = IF d = e THEN None ELSE participant[d][u]
<1> DEFINE e == tx[k].event
<1>1. TypeInv /\ LockInv /\ LockedAreLive
  BY DEF CheckedInv, BaseInv, EndInv
<1>2. Writing(k, "deleteEvent") /\ tx[k] # Idle /\ tx[k].op = "deleteEvent" /\ tx[k].step = "write"
  BY DEF DeleteEvent, Writing, Idle
<1>3. RequestOK(tx[k])
  BY <1>1, <1>2, WritingRequest
<1>4. e \in Events /\ EventLock(e) \in held[k]
  BY <1>1, <1>2, <1>3 DEF RequestOK, NamesEvent, EventOps, LocksEvent, LockInv, EventIsLocked
<1>5. EventLive(e) /\ event[e] \in EventRow
  BY <1>1, <1>4 DEF LockedAreLive, EventLive, TypeInv, TypeOK
<1>6. event'[e] = Tombstone(event[e]) /\ \A d \in Events \ {e} : event'[d] = event[d]
  BY <1>1, <1>4 DEF DeleteEvent, TypeInv, TypeOK
<1>7. event'[e].deleted
  BY <1>5, <1>6 DEF Tombstone, EventRow
<1>8. event'[e] # None
  BY <1>1, <1>4, <1>5, EventWritesKeepTypes DEF RowsRemain, EventLive
<1>9. SameCompanies
  <2>1. Commit(k) /\ ~CreateCompany(k) /\ ~DeleteCompany(k)
    BY <1>2 DEF Commit, CreateCompany, DeleteCompany, Writing
  <2> QED BY <1>1, <2>1, CompaniesStay
<1>10. UNCHANGED members /\ \A d \in Events, u \in Users :
          participant'[d][u] = IF d = e THEN None ELSE participant[d][u]
  BY <1>1, <1>4 DEF DeleteEvent, ParticipationRemoved, TypeInv, TypeOK
<1> QED BY <1>4, <1>5, <1>6, <1>7, <1>8, <1>9, <1>10

\* Who comes alone had no place, who cancels was alone.
LEMMA SoloEffect ==
  ASSUME CheckedInv, NEW k \in Conns, JoinSolo(k) \/ CancelSolo(k)
  PROVE  LET r == tx[k]
         IN /\ r.user \in Users /\ r.event \in Events /\ EventLive(r.event)
            /\ UNCHANGED <<event, company, members>>
            /\ \/ /\ participant[r.event][r.user] = None
                  /\ event[r.event].status = "active" /\ r.now < Deadline(r.event)
                  /\ participant' = [participant EXCEPT ![r.event][r.user] = Solo]
               \/ /\ participant[r.event][r.user] = Solo
                  /\ participant' = [participant EXCEPT ![r.event][r.user] = None]
<1> DEFINE r == tx[k]
<1>1. TypeInv /\ LockInv /\ LockedAreLive /\ WriteChecked
  BY DEF CheckedInv, BaseInv, EndInv
<1>2. /\ r # Idle /\ r.step = "write" /\ r.event \in Events /\ r.user \in Users
      /\ EventLock(r.event) \in held[k]
  BY <1>1, TakingPart DEF TakesPart
<1>3. EventLive(r.event) /\ EventFits(r)
  BY <1>1, <1>2 DEF LockedAreLive, WriteChecked
<1>4. UNCHANGED <<event, company, members>>
  BY DEF JoinSolo, CancelSolo
<1>5. CASE JoinSolo(k)
  BY <1>2, <1>3, <1>4, <1>5 DEF JoinSolo, Writing, EventFits
<1>6. CASE CancelSolo(k)
  BY <1>2, <1>3, <1>4, <1>6 DEF CancelSolo, Writing, EventFits
<1> QED BY <1>5, <1>6

-----------------------------------------------------------------------------
(* The two tables of participation agree. *)

LEMMA InitChecked == Init => CheckedInv /\ ParticipationMirrorsMembership /\ PendingIsOpen
<1> SUFFICES ASSUME Init PROVE CheckedInv /\ ParticipationMirrorsMembership /\ PendingIsOpen
  OBVIOUS
<1>1. TypeInv /\ AdmissionInv /\ RowLockInv
  BY InitTypes, InitAdmission, InitRowLocks
<1>2. EndInv
  BY <1>1 DEF Init, EndInv, LockInv, EventLocksExclude, EventIsLocked, LockedAreLive,
     StatusChecked, PassChecked
<1>3. OwnerInv /\ ApplicationChecked
  BY <1>1 DEF Init, OwnerInv, LeaverIsNotOwner, OwnerIsMember, ApplicationChecked
<1>4. LockedCompaniesLive /\ WriteChecked /\ ApplicantChecked
  BY DEF Init, LockedCompaniesLive, WriteChecked, ApplicantChecked
<1>5. ParticipationMirrorsMembership
  <2> SUFFICES ASSUME NEW e \in Events, NEW u \in Users
               PROVE  /\ CompaniesOf(u, e) = {participant[e][u]} \cap Companies
                      /\ participant[e][u] = None
    BY DEF ParticipationMirrorsMembership
  <2>1. CompaniesOf(u, e) = {} /\ participant[e][u] = None
    BY DEF Init, CompaniesOf, CompaniesOfEvent
  <2> QED BY <2>1, DatabaseAssumption
<1>6. PendingIsOpen
  BY NullAssumption DEF Init, PendingIsOpen, ApplicationStatuses
<1> QED BY <1>1, <1>2, <1>3, <1>4, <1>5, <1>6 DEF CheckedInv, BaseInv

LEMMA CommitKeepsMirror ==
  ASSUME CheckedInv, TypeInv', ParticipationMirrorsMembership, NEW k \in Conns, Commit(k)
  PROVE  ParticipationMirrorsMembership'
<1> DEFINE r == tx[k]
<1> SUFFICES ASSUME NEW e \in Events, NEW u \in Users
             PROVE  IF EventLive(e)'
                    THEN CompaniesOf(u, e)' = {participant'[e][u]} \cap Companies
                    ELSE participant'[e][u] = None
  BY DEF ParticipationMirrorsMembership
<1>1. TypeInv
  BY DEF CheckedInv, BaseInv, EndInv
<1>2. IF EventLive(e)
      THEN CompaniesOf(u, e) = {participant[e][u]} \cap Companies
      ELSE participant[e][u] = None
  BY DEF ParticipationMirrorsMembership
<1>3. None \notin Companies /\ Solo \notin Companies
  BY DatabaseAssumption
<1>4. CASE CreateCompany(k) \/ JoinOpen(k) \/ Approve(k)
  <2>1. PICK c \in Companies :
          /\ Admit(r, c)
          /\ CompaniesOf(u, e)' = IF u = r.user /\ e = r.event THEN {c} ELSE CompaniesOf(u, e)
    BY <1>4, AdmissionEffect
  <2>2. r.user \in Users /\ r.event \in Events /\ EventLive(r.event) /\ UNCHANGED event
    BY <1>4, AdmissionEffect
  <2>3. participant'[e][u] = IF u = r.user /\ e = r.event THEN c ELSE participant[e][u]
    BY <1>1, <2>1, <2>2 DEF Admit, TypeInv, TypeOK
  <2>4. EventLive(e)' <=> EventLive(e)
    BY <2>2 DEF EventLive
  <2> QED BY <1>2, <2>1, <2>2, <2>3, <2>4
<1>5. CASE Leave(k) \/ RemoveMember(k)
  <2>1. /\ UNCHANGED event /\ EventLive(r.event)
        /\ IF u = r.user /\ e = r.event
           THEN /\ CompaniesOf(u, e)' = CompaniesOf(u, e) \ {r.company}
                /\ participant'[e][u] =
                     IF participant[e][u] = r.company THEN None ELSE participant[e][u]
           ELSE /\ CompaniesOf(u, e)' = CompaniesOf(u, e)
                /\ participant'[e][u] = participant[e][u]
    BY <1>5, ExpulsionEffect
  <2>2. EventLive(e)' <=> EventLive(e)
    BY <2>1 DEF EventLive
  <2> QED BY <1>2, <1>3, <2>1, <2>2
<1>6. CASE DeleteCompany(k)
  <2>1. /\ UNCHANGED event
        /\ CompaniesOf(u, e)' = CompaniesOf(u, e) \ {r.company}
        /\ participant'[e][u] =
             IF participant[e][u] = r.company THEN None ELSE participant[e][u]
    BY <1>6, DeletionEffect
  <2>2. EventLive(e)' <=> EventLive(e)
    BY <2>1 DEF EventLive
  <2> QED BY <1>2, <1>3, <2>1, <2>2
<1>7. CASE DeleteEvent(k)
  <2>1. /\ event'[r.event].deleted /\ \A d \in Events \ {r.event} : event'[d] = event[d]
        /\ SameCompanies /\ UNCHANGED members
        /\ participant'[e][u] = IF e = r.event THEN None ELSE participant[e][u]
    BY <1>7, DissolutionEffect
  <2>2. CompaniesOf(u, e)' = CompaniesOf(u, e)
    BY <2>1, SamePlaces
  <2>3. e # r.event => (EventLive(e)' <=> EventLive(e))
    BY <2>1 DEF EventLive
  <2>4. e = r.event => ~EventLive(e)'
    BY <2>1 DEF EventLive
  <2> QED BY <1>2, <2>1, <2>2, <2>3, <2>4
<1>8. CASE JoinSolo(k) \/ CancelSolo(k)
  <2>1. /\ r.user \in Users /\ r.event \in Events /\ EventLive(r.event)
        /\ UNCHANGED <<event, company, members>>
        /\ \/ /\ participant[r.event][r.user] = None
              /\ participant' = [participant EXCEPT ![r.event][r.user] = Solo]
           \/ /\ participant[r.event][r.user] = Solo
              /\ participant' = [participant EXCEPT ![r.event][r.user] = None]
    BY <1>8, SoloEffect
  <2>2. CompaniesOf(u, e)' = CompaniesOf(u, e) /\ (EventLive(e)' <=> EventLive(e))
    BY <2>1 DEF CompaniesOf, CompaniesOfEvent, EventLive
  <2>3. \/ participant'[e][u] = participant[e][u]
        \/ /\ u = r.user /\ e = r.event
           /\ {participant[e][u], participant'[e][u]} = {None, Solo}
    BY <1>1, <2>1 DEF TypeInv, TypeOK
  <2> QED BY <1>2, <1>3, <2>1, <2>2, <2>3
<1>9. CASE ~TakesPart(k) /\ ~DeleteEvent(k) /\ ~DeleteCompany(k)
  <2>1. SameEvents /\ SameCompanies /\ UNCHANGED <<members, participant>>
    BY <1>1, <1>9, QuietCommits
  <2>2. CompaniesOf(u, e)' = CompaniesOf(u, e)
    BY <2>1, SamePlaces
  <2>3. CASE event[e] # None
    <3>1. EventLive(e)' <=> EventLive(e)
      BY <2>1, <2>3 DEF SameEvents, EventLive
    <3> QED BY <1>2, <2>1, <2>2, <3>1
  <2>4. CASE event[e] = None
    <3>1. CompaniesOf(u, e) = {} /\ participant[e][u] = None
      BY <1>1, <1>2, <2>4, NobodyYet DEF EventLive
    <3> QED BY <1>3, <2>1, <2>2, <3>1
  <2> QED BY <2>3, <2>4
<1> QED BY <1>4, <1>5, <1>6, <1>7, <1>8, <1>9 DEF TakesPart

LEMMA StepKeepsMirror ==
  CheckedInv /\ ParticipationMirrorsMembership /\ [Next]_vars => ParticipationMirrorsMembership'
<1> SUFFICES ASSUME CheckedInv, ParticipationMirrorsMembership, [Next]_vars
             PROVE  ParticipationMirrorsMembership'
  OBVIOUS
<1>1. CASE UNCHANGED tables
  BY <1>1 DEF tables, ParticipationMirrorsMembership, EventLive, CompaniesOf, CompaniesOfEvent
<1>2. TypeInv'
  BY StepKeepsTypes DEF CheckedInv, BaseInv, EndInv
<1> QED BY <1>1, <1>2, CommitWrites, CommitKeepsMirror

\* company_members and event_participants tell the same story: every handler that writes one of
\* them writes the other, and has locked what it read of both until it commits (Create, JoinOpen,
\* ResolveApplication, Leave, RemoveMember, Delete, JoinSolo, CancelSolo).
THEOREM TablesAgree == Spec => []ParticipationMirrorsMembership
<1>1. CheckedInv /\ ParticipationMirrorsMembership /\ [Next]_vars =>
        (CheckedInv /\ ParticipationMirrorsMembership)'
  BY StepKeepsChecked, StepKeepsMirror
<1> QED BY <1>1, InitChecked, PTL DEF Spec

-----------------------------------------------------------------------------
(* A pending application is open. *)

\* A live company ends by its deletion only, and is blocked by its own block or with its event.
LEMMA CompanyGoesOn ==
  ASSUME TypeInv, NEW k \in Conns, Commit(k), NEW c \in Companies, CompanyLive(c)
  PROVE  /\ company'[c] # None /\ company'[c].event = company[c].event
         /\ company'[c].deleted => DeleteCompany(k) /\ c = tx[k].company
         /\ company'[c].status = "blocked" =>
              \/ company[c].status = "blocked"
              \/ (DeleteCompany(k) \/ BlockCompany(k)) /\ c = tx[k].company
              \/ DeleteEvent(k) /\ c \in CompaniesOfEvent(tx[k].event)
<1>1. CASE company'[c] = company[c]
  BY <1>1 DEF CompanyLive
<1>2. CASE WritesRow(k) /\ company'[c] # company[c]
  <2>1. c = tx[k].company
    BY <1>2, RowWriter
  <2>2. LET new == company'[c]
        IN /\ new # None /\ new.event = company[c].event
           /\ new.deleted = company[c].deleted \/ DeleteCompany(k)
           /\ \/ new.status = company[c].status
              \/ tx[k].op \in {"open", "close"} /\ new.status \in {"active", "closed"}
              \/ new.status = "blocked" /\ BlockCompany(k)
    BY <1>2, <2>1, RowWritten
  <2> QED BY <2>1, <2>2 DEF CompanyLive
<1>3. CASE DeleteEvent(k) /\ company'[c] # company[c]
  <2>1. c \in CompaniesOfEvent(tx[k].event)
    BY <1>3 DEF DeleteEvent
  <2>2. ~CreateCompany(k) /\ ~DeleteCompany(k)
    BY <1>3 DEF DeleteEvent, CreateCompany, DeleteCompany, Writing
  <2>3. SameCompanies
    BY <1>3, <2>2, CompaniesStay
  <2> QED BY <1>3, <2>1, <2>3 DEF SameCompanies, CompanyLive
<1>4. CASE CreateCompany(k) /\ company'[c] # company[c]
  BY <1>4 DEF CreateCompany, CompanyLive, TypeInv, TypeOK
<1>5. CASE ~WritesRow(k) /\ ~DeleteEvent(k) /\ ~CreateCompany(k)
  <2>1. UNCHANGED company
    BY <1>5 DEF Commit, WritesRow, CreateEvent, EditEvent, ApproveEvent, RejectEvent,
       BlockEvent, Moderate, JoinSolo, CancelSolo, CompleteDue, JoinOpen, Leave, RemoveMember,
       Apply, CancelApplication, Approve, Reject, SetUserStatus
  <2> QED BY <2>1 DEF CompanyLive
<1> QED BY <1>1, <1>2, <1>3, <1>4, <1>5

\* An application is made to a company that is open, in an event that is.
LEMMA ApplyEffect ==
  ASSUME CheckedInv, NEW k \in Conns, Apply(k)
  PROVE  LET r == tx[k]
         IN /\ UNCHANGED <<event, company>>
            /\ application' = [application EXCEPT ![r.company][r.user] = "pending"]
            /\ CompanyLive(r.company) /\ company[r.company].status = "active"
            /\ EventLive(company[r.company].event)
            /\ event[company[r.company].event].status = "active"
<1> DEFINE r == tx[k]
<1>1. TypeInv /\ LockInv /\ RowLockInv /\ LockedAreLive /\ WriteChecked /\ LockedCompaniesLive
  BY DEF CheckedInv, BaseInv, EndInv
<1>2. r # Idle /\ r.step = "write" /\ r.op = "apply"
  BY DEF Apply, Writing, Idle
<1>3. /\ r.company \in Companies /\ company[r.company].event = r.event
      /\ CompanyLock(r.company) \in held[k]
      /\ r.event \in Events /\ EventLock(r.event) \in held[k]
  BY <1>1, <1>2, ReadIsLocked
<1>4. CompanyLive(r.company) /\ EventLive(r.event)
  BY <1>1, <1>3 DEF LockedCompaniesLive, LockedAreLive
<1>5. company[r.company].status = "active" /\ event[r.event].status = "active"
  BY <1>1, <1>2 DEF WriteChecked, CompanyFits, EventFits
<1> QED BY <1>3, <1>4, <1>5 DEF Apply, Resolve

LEMMA CommitKeepsPending ==
  ASSUME CheckedInv, TypeInv', PendingIsOpen, NEW k \in Conns, Commit(k)
  PROVE  PendingIsOpen'
<1> DEFINE r == tx[k]
<1> SUFFICES ASSUME NEW c \in Companies, NEW u \in Users, application'[c][u] = "pending"
             PROVE  /\ CompanyLive(c)' /\ company'[c].status # "blocked"
                    /\ EventLive(company[c].event)'
                    /\ event'[company'[c].event].status # "completed"
  BY DEF PendingIsOpen
<1>1. TypeInv
  BY DEF CheckedInv, BaseInv, EndInv
<1>2. CASE application[c][u] # "pending"
  <2>1. Apply(k)
    <3>1. ~WritesApplication(k) \/ c # r.company \/ u # r.user
      BY <1>1, <1>2, ApplicationWriter DEF WritesApplication, CancelApplication, Approve, Reject,
         Apply, Writing
    <3> QED BY <1>1, <1>2, <3>1, ApplicationWriter
  <2>2. c = r.company
    BY <1>1, <1>2, <2>1, ApplyEffect DEF TypeInv, TypeOK
  <2> QED BY <2>1, <2>2, ApplyEffect DEF CompanyLive, EventLive
<1>3. CASE application[c][u] = "pending"
  <2> DEFINE e == company[c].event
  <2>1. /\ CompanyLive(c) /\ company[c].status # "blocked"
        /\ EventLive(e) /\ event[e].status # "completed"
    BY <1>3 DEF PendingIsOpen
  <2>2. ASSUME NEW cs, application' = Cancelled(cs) PROVE c \notin cs
    BY <1>3, <2>2 DEF Cancelled
  <2>3. ~(DeleteCompany(k) \/ BlockCompany(k)) \/ c # r.company
    BY <2>2 DEF DeleteCompany, BlockCompany
  <2>4. ~(DeleteEvent(k) /\ c \in CompaniesOfEvent(r.event))
    BY <2>2 DEF DeleteEvent
  <2>5. /\ CompanyLive(c)' /\ company'[c].status # "blocked" /\ company'[c].event = e
    BY <1>1, <2>1, <2>3, <2>4, CompanyGoesOn DEF CompanyLive
  <2>6. e \in Events /\ c \in CompaniesOfEvent(e)
    BY <1>1, <2>1 DEF TypeInv, TypeOK, CompanyRow, CompanyLive, CompaniesOfEvent
  <2>7. CASE DeleteEvent(k)
    <3>1. e # r.event
      BY <2>4, <2>6, <2>7
    <3>2. event'[e] = event[e]
      BY <2>6, <2>7, <3>1, DissolutionEffect
    <3> QED BY <2>1, <2>5, <3>2 DEF EventLive
  <2>8. CASE ~DeleteEvent(k)
    <3>1. ~(CompleteDue(k) /\ EventLock(e) \in held[k])
      <4>1. CompleteDue(k) =>
              c \notin UNION {CompaniesOfEvent(d) : d \in {d \in Events : EventLock(d) \in held[k]}}
        BY <2>2 DEF CompleteDue
      <4> QED BY <2>6, <4>1
    <3>2. /\ event'[e] # None /\ event'[e].deleted = event[e].deleted
          /\ event'[e].status # "completed"
      BY <1>1, <2>1, <2>6, <2>8, <3>1, EventGoesOn DEF EventLive
    <3> QED BY <2>1, <2>5, <3>2 DEF EventLive
  <2> QED BY <2>7, <2>8
<1> QED BY <1>2, <1>3

LEMMA StepKeepsPending == CheckedInv /\ PendingIsOpen /\ [Next]_vars => PendingIsOpen'
<1> SUFFICES ASSUME CheckedInv, PendingIsOpen, [Next]_vars PROVE PendingIsOpen'
  OBVIOUS
<1>1. CASE UNCHANGED tables
  BY <1>1 DEF tables, PendingIsOpen, EventLive, CompanyLive
<1>2. TypeInv'
  BY StepKeepsTypes DEF CheckedInv, BaseInv, EndInv
<1> QED BY <1>1, <1>2, CommitWrites, CommitKeepsPending

\* An application stays pending only while its company and its event are open: whoever deletes
\* or blocks one, or completes an event, cancels what is pending in the same transaction, and
\* whoever applies holds the locks of both (CreateApplication, Delete, Block, CompleteDue).
THEOREM PendingCanBeResolved == Spec => []PendingIsOpen
<1>1. CheckedInv /\ PendingIsOpen /\ [Next]_vars => (CheckedInv /\ PendingIsOpen)'
  BY StepKeepsChecked, StepKeepsPending
<1> QED BY <1>1, InitChecked, PTL DEF Spec

-----------------------------------------------------------------------------
(* Approval and admission. *)

\* The request's user, and nobody else, becomes a member, of one company.
LEMMA NewMember ==
  ASSUME CheckedInv, NEW k \in Conns, Commit(k), NEW c \in Companies, NEW u \in Users,
         u \in members'[c] \ members[c]
  PROVE  LET r == tx[k]
         IN /\ u = r.user /\ members'[c] = members[c] \cup {u}
            /\ company'[c] # None /\ ~company'[c].deleted
            /\ \/ /\ CreateCompany(k) /\ company[c] = None
                  /\ company'[c] = NewCompany(r)
               \/ /\ JoinOpen(k) \/ Approve(k)
                  /\ c = r.company /\ company'[c] = company[c]
<1> DEFINE r == tx[k]
<1>1. TypeInv
  BY DEF CheckedInv, BaseInv, EndInv
<1>2. CASE CreateCompany(k) \/ JoinOpen(k) \/ Approve(k)
  <2>1. PICK d \in Companies :
          /\ \/ /\ CreateCompany(k) /\ company[d] = None
                /\ company' = [company EXCEPT ![d] = NewCompany(r)]
             \/ /\ JoinOpen(k) \/ Approve(k)
                /\ d = r.company /\ UNCHANGED company
          /\ company'[d] # None /\ ~company'[d].deleted
          /\ Admit(r, d)
    BY <1>2, AdmissionEffect
  <2>2. members'[c] = IF c = d THEN members[c] \cup {r.user} ELSE members[c]
    BY <1>1, <2>1 DEF Admit, TypeInv, TypeOK
  <2>3. c = d /\ u = r.user
    BY <2>2
  <2> QED BY <1>1, <2>1, <2>2, <2>3 DEF TypeInv, TypeOK
<1>3. CASE ~(CreateCompany(k) \/ JoinOpen(k) \/ Approve(k))
  <2>1. ~(Leave(k) \/ RemoveMember(k))
    BY <1>1 DEF Leave, RemoveMember, Expel, TypeInv, TypeOK
  <2>2. UNCHANGED members
    BY <1>3, <2>1 DEF Commit, CreateEvent, EditEvent, DeleteEvent, ApproveEvent, RejectEvent,
       BlockEvent, Moderate, JoinSolo, CancelSolo, CompleteDue, Update, Open, Close,
       SetRecruitment, DeleteCompany, BlockCompany, Apply, CancelApplication, Reject, SetUserStatus
  <2> QED BY <2>2
<1> QED BY <1>2, <1>3

\* Only an approval approves, and its applicant was no member.
LEMMA CommitApproves ==
  ASSUME CheckedInv, NEW k \in Conns, Commit(k), NEW c \in Companies, NEW u \in Users,
         application[c][u] = "pending", application'[c][u] = "approved"
  PROVE  u \in members'[c] \ members[c] /\ account[u] = "active"
<1> DEFINE r == tx[k]
<1>1. TypeInv
  BY DEF CheckedInv, BaseInv, EndInv
<1>2. WritesApplication(k) /\ c = r.company /\ u = r.user
  BY <1>1, ApplicationWriter
<1>3. Approve(k)
  <2>1. ASSUME NEW status, Resolve(r, status) PROVE application'[c][u] = status
    BY <1>1, <1>2, <2>1 DEF Resolve, TypeInv, TypeOK
  <2> QED BY <1>2, <2>1 DEF WritesApplication, CancelApplication, Reject
<1>4. r # Idle /\ r.op = "approve" /\ r.step = "write"
  BY <1>3 DEF Approve, Writing, Idle
<1>5. account[u] = "active"
  BY <1>2, <1>4 DEF CheckedInv, ApplicantChecked, PastUser, Resolutions
<1>6. /\ CompanyLive(c) /\ company[c].event = r.event /\ Admit(r, c)
      /\ CompaniesOf(u, r.event) = {}
  <2>1. ~CreateCompany(k)
    BY <1>4 DEF CreateCompany, Writing
  <2> QED BY <1>2, <1>3, <2>1, AdmissionEffect
<1>7. u \notin members[c]
  BY <1>6 DEF CompaniesOf, CompaniesOfEvent, CompanyLive
<1>8. u \in members'[c]
  BY <1>1, <1>2, <1>6 DEF Admit, TypeInv, TypeOK
<1> QED BY <1>5, <1>7, <1>8

\* Approval is one step with admission: whoever is approved was no member of the company, is one
\* with the same commit, and has an account that nobody can have banned since it was found active
\* under the lock of its row (ResolveApplication).
THEOREM ApprovalIsAdmission == Spec => ApprovalAdmits
<1>1. CheckedInv /\ [Next]_vars =>
        [\A c \in Companies, u \in Users :
           application[c][u] = "pending" /\ application'[c][u] = "approved" =>
             u \in members'[c] \ members[c] /\ account[u] = "active"]_vars
  <2> SUFFICES ASSUME CheckedInv, [Next]_vars, NEW c \in Companies, NEW u \in Users,
                      application[c][u] = "pending", application'[c][u] = "approved"
               PROVE  u \in members'[c] \ members[c] /\ account[u] = "active"
    OBVIOUS
  <2>1. PICK k \in Conns : Commit(k)
    BY CommitWrites DEF tables
  <2> QED BY <2>1, CommitApproves
<1> QED BY <1>1, InitChecked, StepKeepsChecked, PTL DEF Spec, ApprovalAdmits

\* What AdmissionIsLegal says of a new member.
LegalMember(c, u) ==
  /\ company'[c] # None /\ ~company'[c].deleted /\ company'[c].status # "blocked"
  /\ Cardinality(members'[c]) <= company'[c].max
  /\ u # company'[c].owner => Age[u] >= company'[c].minAge
  /\ \/ u = company'[c].owner
     \/ application[c][u] = "pending" /\ application'[c][u] = "approved"
     \/ company[c].status = "active" /\ company[c].join = "open"

LEMMA CommitAdmitsLegally ==
  ASSUME CheckedInv, NEW k \in Conns, Commit(k), NEW c \in Companies, NEW u \in Users,
         u \in members'[c] \ members[c]
  PROVE  LegalMember(c, u)
<1> DEFINE r == tx[k]
<1>1. TypeInv /\ LockInv /\ RowLockInv /\ UnbornIsEmpty /\ WriteChecked /\ ApplicationChecked
  BY DEF CheckedInv, BaseInv, EndInv, AdmissionInv
<1>2. members[c] \in SUBSET Users /\ IsFiniteSet(members[c])
  BY <1>1, DatabaseAssumption, FS_Subset DEF TypeInv, TypeOK
<1>3. Cardinality(members'[c]) = Cardinality(members[c]) + 1 /\ Cardinality(members[c]) \in Nat
  BY <1>2, NewMember, FS_AddElement, FS_CardinalityType
<1>4. CASE CreateCompany(k) /\ company[c] = None
  <2>1. /\ company'[c] = NewCompany(r) /\ company'[c] # None /\ ~company'[c].deleted
        /\ u = r.user
    BY <1>4, NewMember DEF CreateCompany, JoinOpen, Approve, Writing
  <2>2. Writing(k, "createCompany")
    BY <1>4 DEF CreateCompany
  <2>3. NewCompany(r).max \in Sizes
    BY <1>1, <2>2, WritingRequest, NewCompanyType DEF CompanyRow
  <2>4. Cardinality(members'[c]) = 1
    <3>1. members[c] = {}
      BY <1>1, <1>4 DEF UnbornIsEmpty
    <3>2. Cardinality(members[c]) = 0
      BY <3>1, FS_EmptySet
    <3> QED BY <1>3, <3>2
  <2>5. NewCompany(r).owner = u /\ NewCompany(r).status = "active"
    BY <2>1 DEF NewCompany
  <2>6. Cardinality(members'[c]) <= company'[c].max
    BY <2>1, <2>3, <2>4 DEF Sizes
  <2> QED BY <2>1, <2>5, <2>6 DEF LegalMember
<1>5. CASE JoinOpen(k) \/ Approve(k)
  <2>1. r # Idle /\ r.op \in {"joinOpen", "approve"} /\ r.step = "write"
    BY <1>5 DEF JoinOpen, Approve, Writing, Idle
  <2>2. /\ u = r.user /\ c = r.company /\ company'[c] = company[c]
        /\ company'[c] # None /\ ~company'[c].deleted
    BY <2>1, NewMember DEF CreateCompany, Writing
  <2>3. CompanyFits(r)
    BY <1>1, <2>1 DEF WriteChecked
  <2>4. company[c] \in CompanyRow
    BY <1>1, <2>2 DEF TypeInv, TypeOK
  <2>5. company[c].status # "blocked"
    BY <2>1, <2>2, <2>3 DEF CompanyFits
  <2>6. Cardinality(members'[c]) <= company'[c].max
    <3>1. Cardinality(members[c]) < company[c].max
      BY <2>1, <2>2, <2>3 DEF CompanyFits, HasRoom
    <3>2. company[c].max \in Nat
      BY <2>4 DEF CompanyRow, Sizes
    <3> QED BY <1>3, <2>2, <3>1, <3>2
  <2>7. Age[u] >= company'[c].minAge
    <3>1. company[c].minAge = 0 \/ Age[u] >= company[c].minAge
      BY <2>1, <2>2, <2>3 DEF CompanyFits, AgeEligible
    <3>2. Age[u] \in Nat
      BY DatabaseAssumption
    <3> QED BY <2>2, <3>1, <3>2
  <2>8. CASE JoinOpen(k)
    <3>1. r.op = "joinOpen"
      BY <2>8 DEF JoinOpen, Writing
    <3>2. company[c].status = "active" /\ company[c].join = "open"
      BY <2>2, <2>3, <3>1 DEF CompanyFits
    <3> QED BY <2>2, <2>5, <2>6, <2>7, <3>2 DEF LegalMember
  <2>9. CASE Approve(k)
    <3>1. r.op = "approve"
      BY <2>9 DEF Approve, Writing
    <3>2. application[c][u] = "pending"
      BY <1>1, <2>1, <2>2, <3>1
         DEF ApplicationChecked, PastApplication, ResolvesOrCancels, Resolutions
    <3>3. application'[c][u] = "approved"
      BY <1>1, <2>2, <2>9 DEF Approve, Resolve, TypeInv, TypeOK
    <3> QED BY <2>2, <2>5, <2>6, <2>7, <3>2, <3>3 DEF LegalMember
  <2> QED BY <1>5, <2>8, <2>9
<1> QED BY <1>4, <1>5, NewMember

\* What AdmissionIsLegal says of a new place.
LegalPlace(e, u) ==
  /\ EventLive(e) /\ event[e].status = "active"
  /\ \E k \in Conns : /\ tx[k] # Idle /\ tx'[k] = Idle
                      /\ tx[k].user = u /\ tx[k].event = e
                      /\ tx[k].now < Deadline(e)

\* Whoever gets a place gets it in an event that is live, active and was not over.
LEMMA CommitTakesPart ==
  ASSUME CheckedInv, TypeInv', NEW k \in Conns, Commit(k), NEW e \in Events, NEW u \in Users,
         participant'[e][u] \notin {participant[e][u], None}
  PROVE  LegalPlace(e, u)
<1> DEFINE r == tx[k]
<1>1. TypeInv
  BY DEF CheckedInv, BaseInv, EndInv
<1>2. r # Idle /\ tx'[k] = Idle
  <2>1. PICK op : Writing(k, op)
    BY CommitReleases
  <2> QED
    BY <1>1, <2>1 DEF Writing, Release, Idle, TypeInv, TypeOK
<1>3. ASSUME e = r.event, u = r.user, EventLive(e), event[e].status = "active", r.now < Deadline(e)
      PROVE  LegalPlace(e, u)
  BY <1>2, <1>3 DEF LegalPlace
<1>4. CASE CreateCompany(k) \/ JoinOpen(k) \/ Approve(k)
  <2>1. \E c \in Companies : Admit(r, c)
    BY <1>4, AdmissionEffect
  <2>2. e = r.event /\ u = r.user
    BY <1>1, <2>1 DEF Admit, TypeInv, TypeOK
  <2>3. EventLive(r.event) /\ event[r.event].status = "active" /\ r.now < Deadline(r.event)
    BY <1>4, AdmissionEffect
  <2> QED BY <1>3, <2>2, <2>3
<1>5. CASE JoinSolo(k) \/ CancelSolo(k)
  <2>1. /\ r.user \in Users /\ r.event \in Events /\ EventLive(r.event)
        /\ \/ /\ event[r.event].status = "active" /\ r.now < Deadline(r.event)
              /\ participant' = [participant EXCEPT ![r.event][r.user] = Solo]
           \/ participant' = [participant EXCEPT ![r.event][r.user] = None]
    BY <1>5, SoloEffect
  <2>2. e = r.event /\ u = r.user
    BY <1>1, <2>1 DEF TypeInv, TypeOK
  <2>3. participant' # [participant EXCEPT ![r.event][r.user] = None]
    BY <1>1, <2>2 DEF TypeInv, TypeOK
  <2>4. event[r.event].status = "active" /\ r.now < Deadline(r.event)
    <3> HIDE DEF r
    <3> QED BY <2>1, <2>3
  <2> QED BY <1>3, <2>1, <2>2, <2>4
<1>6. CASE Leave(k) \/ RemoveMember(k)
  BY <1>6, ExpulsionEffect
<1>7. CASE DeleteCompany(k)
  BY <1>7, DeletionEffect
<1>8. CASE DeleteEvent(k)
  BY <1>8, DissolutionEffect
<1>9. CASE ~TakesPart(k) /\ ~DeleteEvent(k) /\ ~DeleteCompany(k)
  BY <1>1, <1>9, QuietCommits
<1> QED BY <1>4, <1>5, <1>6, <1>7, <1>8, <1>9 DEF TakesPart

\* Whoever enters a company enters one that is live, not blocked and has room, in an event that is
\* active and was not over when the request came, at an age it admits and with an approved
\* application or by open admission: Block, Delete, Update, CompleteDue and moderation cannot run
\* between the checks and the insert, for the handler holds the rows of the event and of the
\* company (JoinOpen, ResolveApplication, Create).
THEOREM AdmissionsAreLegal == Spec => AdmissionIsLegal
<1>1. CheckedInv /\ [Next]_vars =>
        [/\ \A c \in Companies : \A u \in members'[c] \ members[c] :
              /\ company'[c] # None /\ ~company'[c].deleted /\ company'[c].status # "blocked"
              /\ Cardinality(members'[c]) <= company'[c].max
              /\ u # company'[c].owner => Age[u] >= company'[c].minAge
              /\ \/ u = company'[c].owner
                 \/ application[c][u] = "pending" /\ application'[c][u] = "approved"
                 \/ company[c].status = "active" /\ company[c].join = "open"
         /\ \A e \in Events, u \in Users :
              participant'[e][u] \notin {participant[e][u], None} =>
                /\ EventLive(e) /\ event[e].status = "active"
                /\ \E k \in Conns : /\ tx[k] # Idle /\ tx'[k] = Idle
                                    /\ tx[k].user = u /\ tx[k].event = e
                                    /\ tx[k].now < Deadline(e)]_vars
  <2> SUFFICES ASSUME CheckedInv, [Next]_vars
               PROVE  /\ \A c \in Companies : \A u \in members'[c] \ members[c] : LegalMember(c, u)
                      /\ \A e \in Events, u \in Users :
                           participant'[e][u] \notin {participant[e][u], None} => LegalPlace(e, u)
    BY DEF LegalMember, LegalPlace
  <2>1. TypeInv'
    BY StepKeepsTypes DEF CheckedInv, BaseInv, EndInv
  <2>2. CASE UNCHANGED tables
    BY <2>2 DEF tables
  <2>3. ASSUME NEW k \in Conns, Commit(k), NEW c \in Companies, NEW u \in members'[c] \ members[c]
        PROVE  LegalMember(c, u)
    <3>1. u \in Users
      BY <2>1, <2>3 DEF TypeInv, TypeOK
    <3> QED BY <2>3, <3>1, CommitAdmitsLegally
  <2> QED BY <2>1, <2>2, <2>3, CommitWrites, CommitTakesPart
<1> QED BY <1>1, InitChecked, StepKeepsChecked, PTL DEF Spec, AdmissionIsLegal

-----------------------------------------------------------------------------
(* The handlers implement Membership. *)

MirrorInv == CheckedInv /\ ParticipationMirrorsMembership

\* Where the tables agree, event_participants alone tells the place.
Shown(p) == {p} \ {None}

LEMMA PlaceShown ==
  ParticipationMirrorsMembership =>
    Place = [e \in Events |-> [u \in Users |-> Shown(participant[e][u])]]
<1> SUFFICES ASSUME ParticipationMirrorsMembership, NEW e \in Events, NEW u \in Users
             PROVE  (IF EventLive(e) THEN CompaniesOf(u, e) ELSE {})
                       \cup ({participant[e][u]} \ {None}) = Shown(participant[e][u])
  BY DEF Place
<1> QED BY DatabaseAssumption DEF ParticipationMirrorsMembership, Shown

LEMMA PlaceShownNext ==
  ParticipationMirrorsMembership' =>
    Place' = [e \in Events |-> [u \in Users |-> Shown(participant'[e][u])]]
<1> SUFFICES ASSUME ParticipationMirrorsMembership', NEW e \in Events, NEW u \in Users
             PROVE  (IF EventLive(e)' THEN CompaniesOf(u, e)' ELSE {})
                       \cup ({participant'[e][u]} \ {None}) = Shown(participant'[e][u])
  BY DEF Place
<1> QED BY DatabaseAssumption DEF ParticipationMirrorsMembership, Shown

\* One user's participation changes, one user's place does.
LEMMA PlaceMoves ==
  ASSUME ParticipationMirrorsMembership, ParticipationMirrorsMembership',
         NEW u \in Users, NEW e \in Events, NEW p,
         \A d \in Events, v \in Users :
           participant'[d][v] = IF d = e /\ v = u THEN p ELSE participant[d][v]
  PROVE  Abstract!Move(u, e, Shown(p)) /\ Place[e][u] = Shown(participant[e][u])
<1>1. Place = [d \in Events |-> [v \in Users |-> Shown(participant[d][v])]]
  BY PlaceShown
<1>2. Place' = [d \in Events |-> [v \in Users |-> Shown(participant'[d][v])]]
  BY PlaceShownNext
<1>3. \A d \in Events, v \in Users :
        Shown(participant'[d][v]) = IF d = e /\ v = u THEN Shown(p) ELSE Shown(participant[d][v])
  OBVIOUS
<1> HIDE DEF Shown
<1>4. Place' = [d \in Events |-> IF d = e THEN [Place[e] EXCEPT ![u] = Shown(p)] ELSE Place[d]]
  BY <1>1, <1>2, <1>3
<1> QED BY <1>1, <1>4 DEF Abstract!Move

\* Nobody's participation changes, nobody's place does.
LEMMA PlaceStays ==
  ASSUME ParticipationMirrorsMembership, ParticipationMirrorsMembership',
         \A e \in Events, u \in Users : participant'[e][u] = participant[e][u]
  PROVE  UNCHANGED Place
BY PlaceShown, PlaceShownNext

LEMMA FoundedStays == SameCompanies => UNCHANGED Founded
BY DEF SameCompanies, Founded

LEMMA OverStays == SameEvents => UNCHANGED Over
BY DEF SameEvents, Over, EventLive

LEMMA GoneStays ==
  ASSUME TypeInv, SameEvents, SameCompanies PROVE UNCHANGED Gone
<1> SUFFICES ASSUME NEW c \in Companies, company[c] # None
             PROVE  EventLive(company[c].event)' <=> EventLive(company[c].event)
  BY DEF Gone, SameCompanies
<1>1. company[c].event \in Events /\ event[company[c].event] # None
  BY DEF TypeInv, TypeOK, CompanyRow, EventsOfCompaniesExist
<1>2. company'[c].event = company[c].event
  BY DEF SameCompanies
<1> QED BY <1>1, <1>2 DEF SameEvents, EventLive

LEMMA SameRows == UNCHANGED <<event, company>> => SameEvents /\ SameCompanies
BY DEF SameEvents, SameCompanies

\* A row of Founded is no null.
LEMMA FoundedRow ==
  ASSUME TypeInv, NEW c \in Companies, company[c] # None
  PROVE  /\ Founded[c] # None /\ Founded[c].event = company[c].event
         /\ Founded[c].founder = company[c].owner
<1>1. company[c].event \in Events /\ company[c].owner \in Users
  BY DEF TypeInv, TypeOK, CompanyRow
<1> QED BY <1>1, FounderAssumption DEF Founded

\* Create founds a company, JoinOpen and ResolveApplication enter one.
LEMMA AdmissionIsMove ==
  ASSUME MirrorInv, MirrorInv', NEW k \in Conns, Commit(k),
         CreateCompany(k) \/ JoinOpen(k) \/ Approve(k)
  PROVE  Abstract!Next
<1>1. TypeInv /\ TypeInv' /\ CheckedInv
  BY DEF MirrorInv, CheckedInv, BaseInv, EndInv
<1>2. PICK u \in Users, e \in Events :
        /\ u = tx[k].user /\ e = tx[k].event
        /\ UNCHANGED event /\ EventLive(e) /\ CompaniesOf(u, e) = {}
  BY <1>1, AdmissionEffect
<1>3. PICK c \in Companies :
        /\ \/ /\ CreateCompany(k) /\ company[c] = None
              /\ company' = [company EXCEPT ![c] = NewCompany(tx[k])]
           \/ /\ JoinOpen(k) \/ Approve(k)
              /\ c = tx[k].company /\ CompanyLive(c) /\ UNCHANGED company
        /\ company'[c] # None /\ ~company'[c].deleted /\ company'[c].event = e
        /\ Admit(tx[k], c)
  BY <1>1, <1>2, AdmissionEffect
<1>4. \A d \in Events, v \in Users :
        participant'[d][v] = IF d = e /\ v = u THEN c ELSE participant[d][v]
  BY <1>1, <1>2, <1>3 DEF Admit, TypeInv, TypeOK
<1>5. Abstract!Move(u, e, {c}) /\ Place[e][u] = Shown(participant[e][u])
  <2>1. Shown(c) = {c}
    BY DatabaseAssumption DEF Shown
  <2> QED BY <1>2, <1>4, <2>1, PlaceMoves DEF MirrorInv
<1>6. Abstract!Available(u, e)
  <2>1. participant[e][u] \in {None, Solo}
    BY <1>1, <1>2 DEF MirrorInv, ParticipationMirrorsMembership, TypeInv, TypeOK
  <2>2. Place[e][u] \in {{}, {Solo}}
    BY <1>5, <2>1 DEF Shown
  <2>3. e \notin Over
    BY <1>2 DEF Over, EventLive
  <2> QED BY <2>2, <2>3 DEF Abstract!Available
<1>7. UNCHANGED Over
  BY <1>2 DEF Over
<1>8. CASE CreateCompany(k) /\ company[c] = None
  <2>1. company' = [company EXCEPT ![c] = NewCompany(tx[k])]
    BY <1>3, <1>8 DEF CompanyLive
  <2>2. /\ company'[c].owner = u
        /\ \A d \in Companies \ {c} : company'[d] = company[d]
    BY <1>1, <1>2, <2>1 DEF TypeInv, TypeOK, NewCompany
  <2>3. Founded' = [Founded EXCEPT ![c] = [event |-> e, founder |-> u]]
    BY <1>3, <2>2 DEF Founded
  <2>4. UNCHANGED Gone
    <3>1. company'[c].event = e /\ EventLive(e)'
      BY <1>2, <1>3 DEF EventLive
    <3>2. c \notin Gone /\ c \notin Gone'
      BY <1>3, <1>8, <3>1 DEF Gone
    <3>3. \A d \in Companies \ {c} : d \in Gone' <=> d \in Gone
      BY <1>2, <2>2 DEF Gone, EventLive
    <3>4. Gone \subseteq Companies /\ Gone' \subseteq Companies
      BY DEF Gone
    <3> QED BY <3>2, <3>3, <3>4
  <2>5. Founded[c] = None
    BY <1>8 DEF Founded
  <2>6. Abstract!Found(u, e, c)
    BY <1>5, <1>6, <1>7, <2>3, <2>4, <2>5 DEF Abstract!Found
  <2> QED BY <2>6 DEF Abstract!Next
<1>9. CASE CompanyLive(c) /\ UNCHANGED company
  <2>1. company[c].event = e /\ company[c] # None /\ ~company[c].deleted
    BY <1>3, <1>9
  <2>2. Founded[c] # None /\ Founded[c].event = e
    BY <1>1, <2>1, FoundedRow
  <2>3. c \notin Gone
    BY <1>2, <2>1 DEF Gone
  <2>4. UNCHANGED <<Founded, Gone>>
    BY <1>2, <1>9 DEF Founded, Gone, EventLive
  <2>5. Abstract!Enter(u, c)
    BY <1>5, <1>6, <1>7, <2>2, <2>3, <2>4 DEF Abstract!Enter
  <2> QED BY <2>5 DEF Abstract!Next
<1> QED BY <1>3, <1>8, <1>9

\* Leave, RemoveMember and CancelSolo are departures, JoinSolo is an arrival; who is removed from
\* a company of a deleted event has no place to lose.
LEMMA DepartureIsMove ==
  ASSUME MirrorInv, MirrorInv', NEW k \in Conns, Commit(k),
         Leave(k) \/ RemoveMember(k) \/ JoinSolo(k) \/ CancelSolo(k)
  PROVE  Abstract!Next \/ UNCHANGED Abstract!vars
<1>1. TypeInv /\ CheckedInv
  BY DEF MirrorInv, CheckedInv, BaseInv, EndInv
<1>2. PICK u \in Users, e \in Events :
        /\ u = tx[k].user /\ e = tx[k].event
        /\ EventLive(e) /\ UNCHANGED <<event, company>>
  BY <1>1, ExpulsionEffect, SoloEffect
<1>3. UNCHANGED <<Founded, Over, Gone>>
  BY <1>1, <1>2, SameRows, FoundedStays, OverStays, GoneStays
<1>4. e \notin Over
  BY <1>2 DEF Over, EventLive
<1>5. CASE participant[e][u] = None /\ participant' = [participant EXCEPT ![e][u] = Solo]
  <2>1. \A d \in Events, v \in Users :
          participant'[d][v] = IF d = e /\ v = u THEN Solo ELSE participant[d][v]
    BY <1>1, <1>5 DEF TypeInv, TypeOK
  <2>2. Abstract!Move(u, e, Shown(Solo)) /\ Place[e][u] = Shown(participant[e][u])
    BY <2>1, PlaceMoves DEF MirrorInv
  <2>3. Shown(Solo) = {Solo} /\ Place[e][u] = {}
    BY <1>5, <2>2, DatabaseAssumption DEF Shown
  <2>4. Abstract!Come(u, e)
    BY <1>3, <1>4, <2>2, <2>3 DEF Abstract!Come
  <2> QED BY <2>4 DEF Abstract!Next
<1>6. CASE participant[e][u] = Solo /\ participant' = [participant EXCEPT ![e][u] = None]
  <2>1. \A d \in Events, v \in Users :
          participant'[d][v] = IF d = e /\ v = u THEN None ELSE participant[d][v]
    BY <1>1, <1>6 DEF TypeInv, TypeOK
  <2>2. Abstract!Move(u, e, Shown(None)) /\ Place[e][u] = Shown(participant[e][u])
    BY <2>1, PlaceMoves DEF MirrorInv
  <2>3. Shown(None) = {} /\ Place[e][u] = {Solo}
    BY <1>6, <2>2, DatabaseAssumption DEF Shown
  <2>4. Place[e][u] \cap Companies = {}
    BY <2>3, DatabaseAssumption
  <2>5. Abstract!Depart(u, e)
    BY <1>3, <1>4, <2>2, <2>3, <2>4 DEF Abstract!Depart
  <2> QED BY <2>5 DEF Abstract!Next
<1>7. CASE Leave(k) \/ RemoveMember(k)
  <2>1. PICK c \in Companies :
          /\ company[c] # None /\ company[c].owner # u
          /\ \A v \in Users, d \in Events :
               participant'[d][v] = IF v = u /\ d = e /\ participant[d][v] = c
                                    THEN None ELSE participant[d][v]
    BY <1>1, <1>2, <1>7, ExpulsionEffect
  <2>2. CASE participant[e][u] = c
    <3>1. \A d \in Events, v \in Users :
            participant'[d][v] = IF d = e /\ v = u THEN None ELSE participant[d][v]
      BY <2>1, <2>2
    <3>2. Abstract!Move(u, e, Shown(None)) /\ Place[e][u] = Shown(participant[e][u])
      BY <1>2, <3>1, PlaceMoves DEF MirrorInv
    <3>3. Shown(None) = {} /\ Place[e][u] \subseteq {c}
      BY <2>2, <3>2 DEF Shown
    <3>4. Founded[c].founder # u
      BY <1>1, <2>1, FoundedRow
    <3>5. Abstract!Depart(u, e)
      BY <1>3, <1>4, <3>2, <3>3, <3>4 DEF Abstract!Depart
    <3> QED BY <1>2, <3>5 DEF Abstract!Next
  <2>3. CASE participant[e][u] # c
    <3>1. \A d \in Events, v \in Users : participant'[d][v] = participant[d][v]
      BY <2>1, <2>3
    <3> QED BY <1>3, <3>1, PlaceStays DEF MirrorInv, Abstract!vars
  <2> QED BY <2>2, <2>3
<1> QED BY <1>1, <1>2, <1>5, <1>6, <1>7, SoloEffect

\* Deleting a company of a live event disbands it; those of a deleted event had ended with it.
LEMMA DeletionIsMove ==
  ASSUME MirrorInv, MirrorInv', NEW k \in Conns, Commit(k), DeleteCompany(k)
  PROVE  Abstract!Next \/ UNCHANGED Abstract!vars
<1>1. TypeInv /\ CheckedInv
  BY DEF MirrorInv, CheckedInv, BaseInv, EndInv
<1>2. PICK c \in Companies :
        /\ CompanyLive(c) /\ UNCHANGED event
        /\ company'[c] # None /\ company'[c].deleted
        /\ company'[c].event = company[c].event /\ company'[c].owner = company[c].owner
        /\ \A d \in Companies \ {c} : company'[d] = company[d]
        /\ \A e \in Events, u \in Users :
             participant'[e][u] = IF participant[e][u] = c THEN None ELSE participant[e][u]
  BY <1>1, DeletionEffect
<1>3. PICK home \in Events : home = company[c].event
  BY <1>1, <1>2 DEF TypeInv, TypeOK, CompanyRow, CompanyLive
<1>4. UNCHANGED <<Founded, Over>>
  BY <1>2 DEF Founded, Over, CompanyLive
<1>5. Gone' = Gone \cup {c}
  <2>1. Gone \subseteq Companies /\ Gone' \subseteq Companies
    BY DEF Gone
  <2>2. c \in Gone'
    BY <1>2 DEF Gone
  <2>3. \A d \in Companies \ {c} : d \in Gone' <=> d \in Gone
    BY <1>2 DEF Gone, EventLive
  <2> QED BY <2>1, <2>2, <2>3
<1>6. CASE EventLive(home)
  <2>1. Founded[c] # None
    BY <1>1, <1>2, FoundedRow DEF CompanyLive
  <2>2. c \notin Gone
    BY <1>2, <1>3, <1>6 DEF Gone, CompanyLive
  <2>3. Place' = [e \in Events |-> [u \in Users |->
                    IF Place[e][u] = {c} THEN {} ELSE Place[e][u]]]
    <3>1. Place = [e \in Events |-> [u \in Users |-> Shown(participant[e][u])]]
      BY PlaceShown DEF MirrorInv
    <3>2. Place' = [e \in Events |-> [u \in Users |-> Shown(participant'[e][u])]]
      BY PlaceShownNext DEF MirrorInv
    <3>3. ASSUME NEW p
          PROVE  Shown(IF p = c THEN None ELSE p) = IF Shown(p) = {c} THEN {} ELSE Shown(p)
      BY DatabaseAssumption DEF Shown
    <3>4. \A e \in Events, u \in Users :
            Shown(participant'[e][u]) =
              IF Place[e][u] = {c} THEN {} ELSE Place[e][u]
      BY <1>2, <3>1, <3>3
    <3> QED BY <3>2, <3>4
  <2>4. Abstract!Disband(c)
    BY <1>4, <1>5, <2>1, <2>2, <2>3 DEF Abstract!Disband
  <2> QED BY <2>4 DEF Abstract!Next
<1>7. CASE ~EventLive(home)
  <2>1. c \in Gone
    BY <1>2, <1>3, <1>7 DEF Gone, CompanyLive
  <2>2. ASSUME NEW e \in Events, NEW u \in Users PROVE participant[e][u] # c
    <3>1. CASE EventLive(e)
      <4>1. c \notin CompaniesOf(u, e)
        BY <1>3, <1>7, <3>1 DEF CompaniesOf, CompaniesOfEvent
      <4> QED BY <3>1, <4>1 DEF MirrorInv, ParticipationMirrorsMembership
    <3>2. CASE ~EventLive(e)
      BY <3>2, DatabaseAssumption DEF MirrorInv, ParticipationMirrorsMembership
    <3> QED BY <3>1, <3>2
  <2>3. UNCHANGED Place
    BY <1>2, <2>2, PlaceStays DEF MirrorInv
  <2> QED BY <1>4, <1>5, <2>1, <2>3 DEF Abstract!vars
<1> QED BY <1>6, <1>7

\* Deleting an event dissolves it.
LEMMA DissolutionIsMove ==
  ASSUME MirrorInv, MirrorInv', NEW k \in Conns, Commit(k), DeleteEvent(k)
  PROVE  Abstract!Next
<1>1. TypeInv /\ CheckedInv
  BY DEF MirrorInv, CheckedInv, BaseInv, EndInv
<1>2. PICK e \in Events :
        /\ EventLive(e) /\ event'[e] # None /\ event'[e].deleted
        /\ \A d \in Events \ {e} : event'[d] = event[d]
        /\ SameCompanies
        /\ \A d \in Events, u \in Users :
             participant'[d][u] = IF d = e THEN None ELSE participant[d][u]
  BY <1>1, DissolutionEffect
<1>3. UNCHANGED Founded
  BY <1>2, FoundedStays
<1>4. e \notin Over /\ Over' = Over \cup {e}
  BY <1>2 DEF Over, EventLive
<1>5. Gone' = Gone \cup {c \in Companies : Founded[c] # None /\ Founded[c].event = e}
  <2>1. Gone \subseteq Companies /\ Gone' \subseteq Companies
    BY DEF Gone
  <2>2. ASSUME NEW c \in Companies
        PROVE  c \in Gone' <=> c \in Gone \/ (Founded[c] # None /\ Founded[c].event = e)
    <3>1. CASE company[c] = None
      BY <1>2, <3>1 DEF SameCompanies, Gone, Founded
    <3>2. CASE company[c] # None
      <4>1. PICK d \in Events : d = company[c].event
        BY <1>1, <3>2 DEF TypeInv, TypeOK, CompanyRow
      <4>2. /\ company'[c] # None /\ company'[c].event = d
            /\ company'[c].deleted = company[c].deleted
        BY <1>2, <3>2, <4>1 DEF SameCompanies
      <4>3. Founded[c] # None /\ Founded[c].event = d
        BY <1>1, <3>2, <4>1, FoundedRow
      <4>4. EventLive(d)' <=> EventLive(d) /\ d # e
        BY <1>2 DEF EventLive
      <4>5. c \in Gone' <=> company[c].deleted \/ ~EventLive(d)'
        BY <4>2 DEF Gone
      <4>6. c \in Gone <=> company[c].deleted \/ ~EventLive(d)
        BY <3>2, <4>1 DEF Gone
      <4> QED BY <4>3, <4>4, <4>5, <4>6
    <3> QED BY <3>1, <3>2
  <2> QED BY <2>1, <2>2
<1>6. Place' = [Place EXCEPT ![e] = [u \in Users |-> {}]]
  <2>1. Place = [d \in Events |-> [u \in Users |-> Shown(participant[d][u])]]
    BY PlaceShown DEF MirrorInv
  <2>2. Place' = [d \in Events |-> [u \in Users |-> Shown(participant'[d][u])]]
    BY PlaceShownNext DEF MirrorInv
  <2>3. Shown(None) = {}
    BY DEF Shown
  <2>4. \A d \in Events, u \in Users :
          Shown(participant'[d][u]) = IF d = e THEN {} ELSE Shown(participant[d][u])
    BY <1>2, <2>3
  <2> QED BY <2>1, <2>2, <2>4
<1>7. Abstract!Dissolve(e)
  BY <1>3, <1>4, <1>5, <1>6 DEF Abstract!Dissolve
<1> QED BY <1>7 DEF Abstract!Next

\* Every other commit only changes statuses, applications or accounts, or begins an event.
LEMMA QuietIsStutter ==
  ASSUME MirrorInv, MirrorInv', NEW k \in Conns, Commit(k),
         ~TakesPart(k), ~DeleteEvent(k), ~DeleteCompany(k)
  PROVE  UNCHANGED Abstract!vars
<1>1. TypeInv /\ TypeInv'
  BY DEF MirrorInv, CheckedInv, BaseInv, EndInv
<1>2. SameEvents /\ SameCompanies /\ UNCHANGED <<members, participant>>
  BY <1>1, QuietCommits
<1>3. UNCHANGED Place
  BY <1>2, PlaceStays DEF MirrorInv
<1> QED BY <1>1, <1>2, <1>3, FoundedStays, OverStays, GoneStays DEF Abstract!vars

LEMMA InitIsInit == Init => Abstract!Init
<1> SUFFICES ASSUME Init PROVE Abstract!Init
  OBVIOUS
<1>1. Founded = [c \in Companies |-> None] /\ Gone = {}
  BY DEF Init, Founded, Gone
<1>2. Over = {}
  BY NullAssumption DEF Init, Over
<1>3. Place = [e \in Events |-> [u \in Users |-> {}]]
  <2>1. \A e \in Events, u \in Users : participant[e][u] = None /\ CompaniesOf(u, e) = {}
    BY DEF Init, CompaniesOf, CompaniesOfEvent
  <2> QED BY <2>1 DEF Place
<1> QED BY <1>1, <1>2, <1>3 DEF Abstract!Init

LEMMA StepIsMove ==
  ASSUME MirrorInv, MirrorInv', [Next]_vars PROVE [Abstract!Next]_Abstract!vars
<1>1. CASE UNCHANGED tables
  <2>1. SameEvents /\ SameCompanies /\ UNCHANGED participant
    BY <1>1, SameRows DEF tables
  <2>2. TypeInv
    BY DEF MirrorInv, CheckedInv, BaseInv, EndInv
  <2>3. UNCHANGED Place
    BY <2>1, PlaceStays DEF MirrorInv
  <2> QED BY <2>1, <2>2, <2>3, FoundedStays, OverStays, GoneStays DEF Abstract!vars
<1>2. ASSUME NEW k \in Conns, Commit(k) PROVE [Abstract!Next]_Abstract!vars
  BY <1>2, AdmissionIsMove, DepartureIsMove, DeletionIsMove, DissolutionIsMove, QuietIsStutter
     DEF TakesPart
<1> QED BY <1>1, <1>2, CommitWrites

\* Create, JoinOpen, Leave, RemoveMember, ResolveApplication, Delete of a company or of an event,
\* JoinSolo and CancelSolo, interleaved in any order and failing anywhere: each commit is one move
\* of Membership, and no place is lost, doubled or exchanged.
THEOREM HandlersImplementMembership == Spec => ImplementsMembership
<1>1. Init => MirrorInv
  BY InitChecked DEF MirrorInv
<1>2. MirrorInv /\ [Next]_vars => MirrorInv'
  BY StepKeepsChecked, StepKeepsMirror DEF MirrorInv
<1>3. MirrorInv /\ MirrorInv' /\ [Next]_vars => [Abstract!Next]_Abstract!vars
  BY StepIsMove
<1> QED BY <1>1, <1>2, <1>3, InitIsInit, PTL DEF Spec, ImplementsMembership, Abstract!Spec

\* The places the handlers leave are those Membership promises: the rule of one company, the
\* agreement of the tables and the owner's membership, taken together (event_participants,
\* company_members; companies/postgres/repository.go).
THEOREM PromiseIsKept == Spec => []KeepsPromise
<1>1. MirrorInv => KeepsPromise
  <2> SUFFICES ASSUME MirrorInv PROVE Abstract!Promise
    BY DEF KeepsPromise
  <2>1. ParticipationMirrorsMembership /\ TypeInv /\ OwnerIsMember
    BY DEF MirrorInv, CheckedInv, BaseInv, OwnerInv, EndInv
  <2>2. \A e \in Events, u \in Users : Place[e][u] = Shown(participant[e][u])
    BY <2>1, PlaceShown
  <2>3. ASSUME NEW e \in Events, NEW u \in Users, NEW p \in Place[e][u], NEW q \in Place[e][u]
        PROVE  p = q
    BY <2>2, <2>3 DEF Shown
  <2>4. ASSUME NEW e \in Over, e \in Events, NEW u \in Users PROVE Place[e][u] = {}
    BY <2>1, <2>2, <2>4 DEF Over, EventLive, ParticipationMirrorsMembership, Shown
  <2>5. ASSUME NEW e \in Events, NEW u \in Users, NEW c \in Place[e][u] \cap Companies
        PROVE  Founded[c] # None /\ Founded[c].event = e /\ c \notin Gone
    <3>1. participant[e][u] = c /\ c # None
      BY <2>2, <2>5 DEF Shown
    <3>2. EventLive(e) /\ c \in CompaniesOf(u, e)
      BY <2>1, <3>1 DEF ParticipationMirrorsMembership
    <3> QED
      BY <3>2, FounderAssumption, FoundedRow, <2>1 DEF CompaniesOf, CompaniesOfEvent, Gone, Founded
  <2>6. ASSUME NEW c \in Companies \ Gone, Founded[c] # None
        PROVE  Place[Founded[c].event][Founded[c].founder] = {c}
    <3> DEFINE e == company[c].event
               u == company[c].owner
    <3>1. company[c] # None /\ Founded[c].event = e /\ Founded[c].founder = u
      BY <2>6 DEF Founded
    <3>2. e \in Events /\ u \in Users
      BY <2>1, <3>1 DEF TypeInv, TypeOK, CompanyRow
    <3>3. EventLive(e) /\ ~company[c].deleted /\ u \in members[c]
      BY <2>1, <3>1 DEF Gone, OwnerIsMember
    <3>4. c \in CompaniesOf(u, e)
      BY <3>1, <3>3 DEF CompaniesOf, CompaniesOfEvent
    <3>5. participant[e][u] = c
      BY <2>1, <3>2, <3>3, <3>4 DEF ParticipationMirrorsMembership
    <3>6. c # None
      BY DatabaseAssumption
    <3> QED
      BY <2>2, <3>1, <3>2, <3>5, <3>6 DEF Shown
  <2> QED
    BY <2>3, <2>4, <2>5, <2>6 DEF Abstract!Promise
<1>2. Init => MirrorInv
  BY InitChecked DEF MirrorInv
<1>3. MirrorInv /\ [Next]_vars => MirrorInv'
  BY StepKeepsChecked, StepKeepsMirror DEF MirrorInv
<1> QED
  BY <1>1, <1>2, <1>3, PTL DEF Spec

-----------------------------------------------------------------------------
(* The documented rules of capacity and ban, which the handlers do not keep: *)
(* who breaks them, and that nobody does one request at a time.              *)

Fits(c) == company[c] # None => Cardinality(members[c]) <= company[c].max

\* A company outgrows its limit only by an update that has counted fewer members than there are.
OutgrownByStaleCount ==
  [][\A c \in Companies : Fits(c) /\ ~Fits(c)' =>
       \E k \in Conns : /\ Update(k) /\ tx[k].company = c
                        /\ tx[k].count < Cardinality(members[c])]_vars

\* A banned user enters a company of another only by JoinOpen.
BannedOnlyJoinOpen ==
  [][\A c \in Companies : \A u \in members'[c] \ members[c] :
       u # company'[c].owner /\ account[u] = "banned" =>
         \E k \in Conns : JoinOpen(k) /\ tx[k].user = u]_vars

\* Between its check and its write an update keeps to the members it has counted.
UpdateChecked ==
  \A k \in Conns :
    tx[k] # Idle /\ tx[k].op = "update" /\ tx[k].step = "write" /\ tx[k].patch.max # None =>
      tx[k].patch.max >= tx[k].count

RulesInv == CheckedInv /\ UpdateChecked

LEMMA StepKeepsRules == RulesInv /\ [Next]_vars => RulesInv'
<1> SUFFICES ASSUME RulesInv, [Next]_vars PROVE RulesInv'
  OBVIOUS
<1>1. CheckedInv' /\ TypeInv /\ TypeInv'
  BY StepKeepsChecked DEF RulesInv, CheckedInv, BaseInv, EndInv
<1>2. ASSUME NEW j \in Conns, tx'[j] # Idle, tx'[j].op = "update", tx'[j].step = "write",
             tx'[j].patch.max # None
      PROVE  tx'[j].patch.max >= tx'[j].count
  <2>1. CASE tx'[j] = tx[j]
    BY <1>2, <2>1 DEF RulesInv, UpdateChecked
  <2>2. CASE /\ tx'[j].op = tx[j].op /\ Allowed(tx[j])
             /\ tx'[j].count = tx[j].count /\ tx'[j].patch = tx[j].patch
    BY <1>2, <2>2 DEF Allowed, UpdateAllowed
  <2> QED
    BY <1>1, <1>2, <2>1, <2>2, AboutToWrite
<1> QED
  BY <1>1, <1>2 DEF RulesInv, UpdateChecked

\* The limit a company has after a commit that leaves its members alone.
LEMMA LimitWritten ==
  ASSUME RulesInv, NEW k \in Conns, Commit(k), NEW c \in Companies, company[c] # None
  PROVE  \/ company'[c].max = company[c].max
         \/ /\ Update(k) /\ tx[k].company = c /\ company'[c].max = tx[k].patch.max
            /\ tx[k].patch.max \in Sizes /\ tx[k].patch.max >= tx[k].count
<1> DEFINE r == tx[k]
<1>1. TypeInv /\ company[c] \in CompanyRow
  BY DEF RulesInv, CheckedInv, BaseInv, EndInv, TypeInv, TypeOK
<1>2. CASE Update(k) /\ r.company = c
  <2>1. company'[c] = [company[c] EXCEPT !.max = Patched(r.patch.max, company[c].max),
                                         !.join = Patched(r.patch.join, company[c].join),
                                         !.minAge = Patched(r.patch.minAge, company[c].minAge)]
    BY <1>1, <1>2 DEF Update, TypeInv, TypeOK
  <2>2. company'[c].max = Patched(r.patch.max, company[c].max)
    BY <1>1, <2>1 DEF CompanyRow
  <2>3. r # Idle /\ r.op = "update" /\ r.step = "write" /\ r.patch \in Patches
    BY <1>1, <1>2, WritingRequest DEF Update, Writing, Idle, RequestOK
  <2>4. r.patch.max \in Sizes \cup {None}
    BY <2>3, DatabaseAssumption DEF Patch
  <2> QED
    BY <1>2, <2>2, <2>3, <2>4 DEF Patched, RulesInv, UpdateChecked
<1>3. CASE WritesRow(k) /\ r.company # c
  BY <1>3, RowWriter, <1>1
<1>4. CASE r.company = c /\ (Open(k) \/ Close(k) \/ DeleteCompany(k) \/ BlockCompany(k))
  <2>1. \/ \E status : company'[c] = [company[c] EXCEPT !.status = status]
        \/ company'[c] = [company[c] EXCEPT !.deleted = TRUE]
    BY <1>1, <1>4 DEF Open, Close, SetRecruitment, DeleteCompany, BlockCompany, TypeInv, TypeOK
  <2> QED
    BY <1>1, <2>1 DEF CompanyRow
<1>5. CASE DeleteEvent(k)
  BY <1>1, <1>5 DEF DeleteEvent, CompanyRow
<1>6. CASE CreateCompany(k)
  BY <1>6 DEF CreateCompany, TypeInv, TypeOK
<1>7. CASE ~WritesRow(k) /\ ~DeleteEvent(k) /\ ~CreateCompany(k)
  <2>1. UNCHANGED company
    BY <1>7 DEF Commit, WritesRow, CreateEvent, EditEvent, ApproveEvent, RejectEvent,
       BlockEvent, Moderate, JoinSolo, CancelSolo, CompleteDue, JoinOpen, Leave, RemoveMember,
       Apply, CancelApplication, Approve, Reject, SetUserStatus
  <2> QED
    BY <2>1
<1> QED
  BY <1>2, <1>3, <1>4, <1>5, <1>6, <1>7 DEF WritesRow

\* A company that had room for its members has room for them after a commit, unless it was an
\* update that had counted fewer.
LEMMA CommitFits ==
  ASSUME RulesInv, TypeInv', NEW k \in Conns, Commit(k), NEW c \in Companies, Fits(c), ~Fits(c)'
  PROVE  Update(k) /\ tx[k].company = c /\ tx[k].count < Cardinality(members[c])
<1> DEFINE r == tx[k]
<1>1. TypeInv /\ UnbornIsEmpty
  BY DEF RulesInv, CheckedInv, BaseInv, AdmissionInv
<1>2. /\ company'[c] # None /\ ~(Cardinality(members'[c]) <= company'[c].max)
      /\ company'[c].max \in Nat
  <2>1. company'[c] # None /\ ~(Cardinality(members'[c]) <= company'[c].max)
    BY DEF Fits
  <2>2. company'[c] \in CompanyRow
    BY <2>1 DEF TypeInv, TypeOK
  <2> QED
    BY <2>1, <2>2 DEF CompanyRow, Sizes
<1>3. members'[c] \subseteq members[c]
  <2>1. \A u \in members'[c] \ members[c] : u \in Users
    BY DEF TypeInv, TypeOK
  <2>2. \A u \in members'[c] \ members[c] : Cardinality(members'[c]) <= company'[c].max
    BY <2>1, CommitAdmitsLegally DEF LegalMember, RulesInv
  <2> QED
    BY <1>2, <2>2
<1>4. /\ Cardinality(members'[c]) <= Cardinality(members[c])
      /\ Cardinality(members[c]) \in Nat /\ Cardinality(members'[c]) \in Nat
  <2>1. IsFiniteSet(members[c]) /\ Cardinality(members[c]) \in Nat
    BY <1>1, MembersCount DEF TypeInv
  <2> QED
    BY <1>3, <2>1, FS_Subset, FS_CardinalityType
<1>5. CASE company[c] = None
  <2>1. Cardinality(members[c]) = 0
    BY <1>1, <1>5, FS_EmptySet DEF UnbornIsEmpty
  <2> QED
    BY <1>2, <1>4, <2>1
<1>6. CASE company[c] # None
  <2>1. Cardinality(members[c]) <= company[c].max /\ company[c].max \in Nat
    <3>1. company[c] \in CompanyRow
      BY <1>1, <1>6 DEF TypeInv, TypeOK
    <3> QED
      BY <1>6, <3>1 DEF Fits, CompanyRow, Sizes
  <2>2. company'[c].max # company[c].max
    BY <1>2, <1>4, <2>1
  <2>3. /\ Update(k) /\ r.company = c /\ company'[c].max = r.patch.max
        /\ r.patch.max \in Sizes /\ r.patch.max >= r.count
    BY <1>6, <2>2, LimitWritten
  <2>4. r.count \in Nat
    BY <1>1, <2>3, WritingRequest DEF Update, Request
  <2> QED
    BY <1>2, <1>4, <2>3, <2>4 DEF Sizes
<1> QED
  BY <1>5, <1>6

LEMMA InitRules == Init => RulesInv
BY InitChecked DEF Init, RulesInv, UpdateChecked

\* A company outgrows its limit in one way: lockCompany has waited for the row while members
\* entered, and Update compares the new limit with the number its statement had counted before.
THEOREM LimitYieldsToStaleCount == Spec => OutgrownByStaleCount
<1>1. RulesInv /\ [Next]_vars =>
        [\A c \in Companies : Fits(c) /\ ~Fits(c)' =>
           \E k \in Conns : /\ Update(k) /\ tx[k].company = c
                            /\ tx[k].count < Cardinality(members[c])]_vars
  <2> SUFFICES ASSUME RulesInv, [Next]_vars, NEW c \in Companies, Fits(c), ~Fits(c)'
               PROVE  \E k \in Conns : /\ Update(k) /\ tx[k].company = c
                                       /\ tx[k].count < Cardinality(members[c])
    OBVIOUS
  <2>1. TypeInv'
    BY StepKeepsTypes DEF RulesInv, CheckedInv, BaseInv, EndInv
  <2>2. PICK k \in Conns : Commit(k)
    BY CommitWrites DEF tables, Fits
  <2> QED
    BY <2>1, <2>2, CommitFits
<1> QED
  BY <1>1, InitRules, StepKeepsRules, PTL DEF Spec, OutgrownByStaleCount

LEMMA CommitOfBanned ==
  ASSUME CheckedInv, NEW k \in Conns, Commit(k), NEW c \in Companies, NEW u \in Users,
         u \in members'[c] \ members[c], u # company'[c].owner, account[u] = "banned"
  PROVE  JoinOpen(k) /\ tx[k].user = u
<1>1. u = tx[k].user
  BY NewMember
<1>2. ~(CreateCompany(k) /\ company'[c] = NewCompany(tx[k]))
  BY <1>1 DEF NewCompany
<1>3. ~Approve(k)
  <2>1. ASSUME Approve(k) PROVE account[u] = "active"
    <3>1. tx[k] # Idle /\ tx[k].op = "approve" /\ tx[k].step = "write"
      BY <2>1 DEF Approve, Writing, Idle
    <3> QED
      BY <1>1, <3>1 DEF CheckedInv, ApplicantChecked, PastUser, Resolutions
  <2> QED
    BY <2>1
<1> QED
  BY <1>1, <1>2, <1>3, NewMember

\* A banned user enters a company of another in one way: JoinOpen does not read the account,
\* which was active when the request was authenticated.  An approval always finds it active.
THEOREM BanIsMissedByJoinOpen == Spec => BannedOnlyJoinOpen
<1>1. CheckedInv /\ [Next]_vars =>
        [\A c \in Companies : \A u \in members'[c] \ members[c] :
           u # company'[c].owner /\ account[u] = "banned" =>
             \E k \in Conns : JoinOpen(k) /\ tx[k].user = u]_vars
  <2> SUFFICES ASSUME CheckedInv, [Next]_vars, NEW c \in Companies,
                      NEW u \in members'[c] \ members[c],
                      u # company'[c].owner, account[u] = "banned"
               PROVE  \E k \in Conns : JoinOpen(k) /\ tx[k].user = u
    OBVIOUS
  <2>1. TypeInv'
    BY StepKeepsTypes DEF CheckedInv, BaseInv, EndInv
  <2>2. u \in Users
    BY <2>1 DEF TypeInv, TypeOK
  <2>3. PICK k \in Conns : Commit(k)
    BY CommitWrites DEF tables
  <2> QED
    BY <2>2, <2>3, CommitOfBanned
<1> QED
  BY <1>1, InitChecked, StepKeepsChecked, PTL DEF Spec, BannedOnlyJoinOpen

\* What a request has read before its transaction, as long as nobody comes between.
Undisturbed ==
  \A k \in Conns : tx[k] # Idle =>
    /\ tx[k].op = "update" => tx[k].count = Cardinality(members[tx[k].company])
    /\ tx[k].op = "joinOpen" => account[tx[k].user] = "active"

LEMMA CallIsFresh ==
  ASSUME TypeInv, NEW k \in Conns, Begin(k)
  PROVE  /\ tx'[k].op = "update" => tx'[k].count = Cardinality(members[tx'[k].company])
         /\ tx'[k].op = "joinOpen" => account[tx'[k].user] = "active"
<1>1. ASSUME NEW op, NEW actor, NEW user, NEW e, NEW c, NEW patch,
             Call(k, op, actor, user, e, c, patch),
             op = "joinOpen" => user = actor /\ user \in Users
      PROVE  /\ tx'[k].op = "update" => tx'[k].count = Cardinality(members[tx'[k].company])
             /\ tx'[k].op = "joinOpen" => account[tx'[k].user] = "active"
  <2> DEFINE count == IF op = "update" THEN Cardinality(members[c]) ELSE 0
             r == [op |-> op, step |-> FirstStep(op), actor |-> actor, user |-> user,
                   event |-> e, company |-> c, now |-> clock, count |-> count,
                   had |-> FALSE, patch |-> patch]
  <2>1. tx' = [tx EXCEPT ![k] = r] /\ Authenticated(actor)
    BY <1>1 DEF Call
  <2>2. r.op = op /\ r.company = c /\ r.user = user /\ r.count = count
    OBVIOUS
  <2> HIDE DEF r
  <2>3. tx'[k] = r
    BY <2>1 DEF TypeInv, TypeOK
  <2>4. op = "joinOpen" => account[user] = "active"
    BY <1>1, <2>1 DEF Authenticated, TypeInv, TypeOK, Accounts
  <2> QED
    BY <2>2, <2>3, <2>4
<1>2. \E op, actor, user, e, c, patch :
        /\ Call(k, op, actor, user, e, c, patch)
        /\ op = "joinOpen" => user = actor /\ user \in Users
  <2>1. CASE SoloRequest(k) \/ MemberRequest(k) \/ CreateCompanyRequest(k) \/ OwnerRequest(k)
    BY <2>1 DEF SoloRequest, MemberRequest, CreateCompanyRequest, OwnerRequest,
       CallEvent, CallCompany, Resolutions
  <2>2. CASE RecruitmentRequest(k) \/ UpdateCompanyRequest(k) \/ CreateEventRequest(k)
               \/ EditEventRequest(k) \/ DeleteEventRequest(k)
    BY <2>2 DEF RecruitmentRequest, UpdateCompanyRequest, CreateEventRequest,
       EditEventRequest, DeleteEventRequest, CallEvent, CallCompany
  <2>3. CASE ModerationRequest(k) \/ StatusRequest(k) \/ CompletionPass(k)
    BY <2>3 DEF ModerationRequest, StatusRequest, CompletionPass, CallEvent, CallCompany, UserOps
  <2> QED
    BY <2>1, <2>2, <2>3 DEF Begin
<1> QED
  BY <1>1, <1>2

\* A transaction that goes on is the same request.
LEMMA RequestGoesOn ==
  ASSUME TypeInv, NEW k \in Conns, Progress(k), ~Commit(k), tx'[k] # Idle
  PROVE  /\ UNCHANGED tables /\ tx[k] # Idle /\ tx'[k].op = tx[k].op /\ tx'[k].user = tx[k].user
         /\ tx'[k].company = tx[k].company /\ tx'[k].count = tx[k].count
<1>1. ASSUME NEW locks, NEW step, Advance(k, locks, step), tx[k] # Idle
      PROVE  /\ UNCHANGED tables /\ tx'[k].op = tx[k].op /\ tx'[k].user = tx[k].user
             /\ tx'[k].company = tx[k].company /\ tx'[k].count = tx[k].count
  <2>1. tx[k] \in Request
    BY <1>1 DEF TypeInv, TypeOK
  <2>2. tx'[k] = [tx[k] EXCEPT !.step = step] /\ UNCHANGED tables
    BY <1>1 DEF Advance, TypeInv, TypeOK
  <2> QED
    BY <2>1, <2>2 DEF Request
<1>2. CASE LockEvent(k) \/ LockCompany(k) \/ LockApplication(k) \/ LockUser(k) \/ LockDue(k)
  BY <1>1, <1>2, AtIsRunning
     DEF LockEvent, LockCompany, LockApplication, LockUser, LockDue, Steps
<1>3. CASE Check(k)
  <2> DEFINE had == tx[k].op \in Admissions /\ participant[tx[k].event][tx[k].user] # None
  <2>1. tx[k] # Idle /\ tx[k] \in Request
    BY <1>3, AtIsRunning DEF Check, Steps, TypeInv, TypeOK
  <2>2. tx'[k] = [tx[k] EXCEPT !.step = "write", !.had = had] /\ UNCHANGED tables
    BY <1>3 DEF Check, TypeInv, TypeOK
  <2> HIDE DEF had
  <2> QED
    BY <2>1, <2>2 DEF Request
<1>4. ~Refuse(k)
  BY DEF Refuse, Release, TypeInv, TypeOK
<1>5. CASE LockRow(k)
  BY <1>5 DEF LockRow, Idle
<1> QED
  BY <1>2, <1>3, <1>4, <1>5 DEF Progress

\* One request at a time keeps both rules: no handler breaks them by itself, both findings are
\* races with what was read before the transaction (lockCompany, Update, JoinOpen).
THEOREM OneAtATimeKeepsRules ==
  ASSUME \A j, k \in Conns : j = k
  PROVE  Spec => []CapacityCoversMembers /\ BannedNeverJoin
<1> DEFINE Inv == RulesInv /\ CapacityCoversMembers /\ Undisturbed
<1>1. Init => Inv
  BY InitRules DEF Init, CapacityCoversMembers, Undisturbed
<1>2. Inv /\ [Next]_vars => Inv'
  <2> SUFFICES ASSUME Inv, [Next]_vars PROVE Inv'
    OBVIOUS
  <2>1. RulesInv' /\ TypeInv /\ TypeInv'
    BY StepKeepsRules DEF RulesInv, CheckedInv, BaseInv, EndInv
  <2>2. Undisturbed'
    <3> SUFFICES ASSUME NEW j \in Conns, tx'[j] # Idle
                 PROVE  /\ tx'[j].op = "update" =>
                             tx'[j].count = Cardinality(members'[tx'[j].company])
                        /\ tx'[j].op = "joinOpen" => account'[tx'[j].user] = "active"
      BY DEF Undisturbed
    <3>1. CASE UNCHANGED vars \/ Tick
      BY <3>1 DEF Undisturbed, Tick, vars, tables
    <3>2. CASE Begin(j)
      <4>1. UNCHANGED tables
        BY <3>2, BeginIsCall
      <4> QED
        BY <2>1, <3>2, <4>1, CallIsFresh DEF tables
    <3>3. ~Release(j)
      BY <2>1 DEF Release, TypeInv, TypeOK
    <3>4. CASE Progress(j)
      BY <2>1, <3>3, <3>4, CommitReleases, RequestGoesOn DEF Undisturbed, tables
    <3> QED
      BY <3>1, <3>2, <3>3, <3>4 DEF Next, Fail, AbortVictim
  <2>3. CapacityCoversMembers'
    <3> SUFFICES ASSUME NEW c \in Companies, Fits(c), ~Fits(c)' PROVE FALSE
      BY DEF CapacityCoversMembers, Fits
    <3>1. PICK k \in Conns : Commit(k)
      BY CommitWrites DEF tables, Fits
    <3>2. Update(k) /\ tx[k].company = c /\ tx[k].count < Cardinality(members[c])
      BY <2>1, <3>1, CommitFits
    <3>3. tx[k] # Idle /\ tx[k].op = "update"
      BY <3>2 DEF Update, Writing, Idle
    <3>4. Cardinality(members[c]) \in Nat
      BY <2>1, MembersCount DEF TypeInv
    <3> QED
      BY <3>2, <3>3, <3>4 DEF Undisturbed
  <2> QED
    BY <2>1, <2>2, <2>3
<1>3. Inv /\ [Next]_vars =>
        [\A c \in Companies : \A u \in members'[c] \ members[c] :
           u # company'[c].owner => account[u] # "banned"]_vars
  <2> SUFFICES ASSUME Inv, [Next]_vars, NEW c \in Companies, NEW u \in members'[c] \ members[c],
                      u # company'[c].owner, account[u] = "banned"
               PROVE  FALSE
    OBVIOUS
  <2>1. u \in Users
    BY StepKeepsTypes DEF RulesInv, CheckedInv, BaseInv, EndInv, TypeInv, TypeOK
  <2>2. PICK k \in Conns : Commit(k)
    BY CommitWrites DEF tables
  <2>3. JoinOpen(k) /\ tx[k].user = u
    BY <2>1, <2>2, CommitOfBanned DEF RulesInv
  <2>4. tx[k] # Idle /\ tx[k].op = "joinOpen"
    BY <2>3 DEF JoinOpen, Writing, Idle
  <2> QED
    BY <2>3, <2>4 DEF Undisturbed
<1>4. Inv => CapacityCoversMembers
  OBVIOUS
<1> HIDE DEF Inv
<1> QED
  BY <1>1, <1>2, <1>3, <1>4, PTL DEF Spec, BannedNeverJoin
=============================================================================
