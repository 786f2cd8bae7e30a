------------------------ MODULE PoidemCompanyProofs ------------------------
(***************************************************************************)
(* A company keeps its owner, a blocked one stays blocked, a resolved      *)
(* application stays resolved, and an event that has ended stays so.       *)
(*                                                                         *)
(* The first needs no lock: an owner never changes.  The others rely on    *)
(* the locks of the rows of companies, applications and events, which      *)
(* whoever writes such a row holds or finds free.                          *)
(***************************************************************************)
EXTENDS PoidemAdmissionProofs

-----------------------------------------------------------------------------
(* The owner. *)

\* Who is about to leave, or to be removed, is not the owner.
LeaverIsNotOwner ==
  \A k \in Conns :
    tx[k] # Idle /\ tx[k].op \in {"leave", "removeMember"} /\ tx[k].step = "write" =>
      company[tx[k].company].owner # tx[k].user

OwnerInv == TypeInv /\ LeaverIsNotOwner /\ OwnerIsMember

\* A row of companies is never removed, and keeps its owner.
OwnersStay ==
  \A c \in Companies : company[c] # None =>
    company'[c] # None /\ company'[c].owner = company[c].owner

\* The operations that write one row of companies.
RowOps == {"update", "open", "close", "deleteCompany", "blockCompany"}

WritesRow(k) == Update(k) \/ Open(k) \/ Close(k) \/ DeleteCompany(k) \/ BlockCompany(k)

LEMMA RowWriter ==
  ASSUME TypeInv, NEW k \in Conns, WritesRow(k)
  PROVE  /\ tx[k] # Idle /\ tx[k].op \in RowOps /\ tx[k].step = "write" /\ Release(k)
         /\ tx[k].company \in Companies /\ company[tx[k].company] \in CompanyRow
         /\ UNCHANGED members
         /\ \A c \in Companies : c # tx[k].company => company'[c] = company[c]
<1>1. PICK op \in RowOps : Writing(k, op)
  BY DEF WritesRow, Update, Open, Close, SetRecruitment, DeleteCompany, BlockCompany, RowOps
<1>2. RequestOK(tx[k]) /\ tx[k].op = op /\ tx[k] # Idle
  BY <1>1, WritingRequest DEF Writing, Idle
<1>3. op \in CompanyOps
  BY DEF RowOps, CompanyOps, CompanyThenEvent, CompanyOnly
<1>4. tx[k].company \in Companies /\ company[tx[k].company] \in CompanyRow
  BY <1>2, <1>3 DEF RequestOK, TypeInv, TypeOK
<1>5. /\ UNCHANGED members
      /\ \A c \in Companies : c # tx[k].company => company'[c] = company[c]
  BY DEF WritesRow, Update, Open, Close, SetRecruitment, DeleteCompany, BlockCompany,
     TypeInv, TypeOK
<1> QED BY <1>1, <1>2, <1>4, <1>5 DEF Writing

\* What each of them writes.
LEMMA RowWritten ==
  ASSUME TypeInv, NEW k \in Conns, WritesRow(k), NEW row, row = company[tx[k].company]
  PROVE  LET new == company'[tx[k].company]
         IN /\ new # None /\ new.owner = row.owner /\ new.event = row.event
            /\ new.deleted = row.deleted \/ DeleteCompany(k)
            /\ \/ new.status = row.status
               \/ tx[k].op \in {"open", "close"} /\ new.status \in {"active", "closed"}
               \/ new.status = "blocked" /\ BlockCompany(k)
<1> DEFINE r == tx[k]
           new == company'[r.company]
<1>1. r.company \in Companies /\ row \in CompanyRow
  BY RowWriter
<1>2. CASE Update(k)
  <2>1. new = [row EXCEPT !.max = Patched(r.patch.max, row.max),
                          !.join = Patched(r.patch.join, row.join),
                          !.minAge = Patched(r.patch.minAge, row.minAge)]
    BY <1>1, <1>2 DEF Update, TypeInv, TypeOK
  <2>2. /\ new.owner = row.owner /\ new.event = row.event /\ new.status = row.status
        /\ new.deleted = row.deleted
    BY <1>1, <2>1 DEF CompanyRow
  <2> QED BY <2>2, RowWriter, CompanyWritesKeepTypes, <1>2, NullAssumption
          DEF RowsRemain
<1>3. CASE Open(k) \/ Close(k) \/ BlockCompany(k)
  <2>1. PICK status : /\ new = [row EXCEPT !.status = status]
                      /\ \/ r.op \in {"open", "close"} /\ status \in {"active", "closed"}
                         \/ status = "blocked" /\ BlockCompany(k)
    BY <1>1, <1>3 DEF Open, Close, SetRecruitment, BlockCompany, Writing, TypeInv, TypeOK
  <2>2. /\ new.owner = row.owner /\ new.event = row.event /\ new.status = status
        /\ new.deleted = row.deleted
    BY <1>1, <2>1 DEF CompanyRow
  <2> QED BY <2>1, <2>2, RowWriter, CompanyWritesKeepTypes, <1>3, NullAssumption
          DEF RowsRemain
<1>4. CASE DeleteCompany(k)
  <2>1. new = [row EXCEPT !.deleted = TRUE]
    BY <1>1, <1>4 DEF DeleteCompany, TypeInv, TypeOK
  <2>2. new.owner = row.owner /\ new.event = row.event /\ new.status = row.status
    BY <1>1, <2>1 DEF CompanyRow
  <2> QED BY <2>2, RowWriter, CompanyWritesKeepTypes, <1>4, NullAssumption
          DEF RowsRemain
<1> QED BY <1>2, <1>3, <1>4 DEF WritesRow

LEMMA CommitKeepsOwners ==
  ASSUME OwnerInv, NEW k \in Conns, Commit(k)
  PROVE  OwnersStay /\ OwnerIsMember'
<1> DEFINE r == tx[k]
<1> USE DEF OwnerInv
<1>1. CASE \/ CreateEvent(k) \/ EditEvent(k) \/ ApproveEvent(k) \/ RejectEvent(k)
           \/ BlockEvent(k) \/ JoinSolo(k) \/ CancelSolo(k) \/ CompleteDue(k)
           \/ Apply(k) \/ CancelApplication(k) \/ Reject(k)
           \/ SetUserStatus(k, "ban", "banned") \/ SetUserStatus(k, "unban", "active")
  <2>1. UNCHANGED <<company, members>>
    BY <1>1 DEF CreateEvent, EditEvent, ApproveEvent, RejectEvent, BlockEvent, Moderate,
       JoinSolo, CancelSolo, CompleteDue, Apply, CancelApplication, Reject, SetUserStatus
  <2> QED BY <2>1 DEF OwnersStay, OwnerIsMember
<1>2. CASE Leave(k) \/ RemoveMember(k)
  <2>1. PICK op \in {"leave", "removeMember"} : Writing(k, op)
    BY <1>2 DEF Leave, RemoveMember
  <2>2. UNCHANGED company /\ Expel(r)
    BY <1>2 DEF Leave, RemoveMember
  <2>3. \A c \in Companies :
          members'[c] = IF c = r.company THEN members[c] \ {r.user} ELSE members[c]
    BY <2>2 DEF Expel, TypeInv, TypeOK
  <2>4. company[r.company].owner # r.user
    BY <2>1 DEF LeaverIsNotOwner, Writing, Idle
  <2> QED BY <2>2, <2>3, <2>4 DEF OwnersStay, OwnerIsMember
<1>3. CASE DeleteEvent(k)
  <2>1. \A c \in Companies : company[c] # None => company'[c].owner = company[c].owner
    BY <1>3 DEF DeleteEvent, TypeInv, TypeOK, CompanyRow
  <2>2. \A c \in Companies : company[c] # None => company'[c] # None
    BY <1>3, EventWritesKeepTypes DEF RowsRemain
  <2>3. UNCHANGED members /\ \A c \in Companies : company[c] = None => company'[c] = None
    BY <1>3 DEF DeleteEvent, CompaniesOfEvent
  <2> QED BY <2>1, <2>2, <2>3 DEF OwnersStay, OwnerIsMember
<1>4. CASE WritesRow(k)
  BY <1>4, RowWriter, RowWritten, NullAssumption DEF OwnersStay, OwnerIsMember
<1>5. CASE CreateCompany(k)
  <2>1. Writing(k, "createCompany")
    BY <1>5 DEF CreateCompany
  <2>2. NewCompany(r) # None /\ NewCompany(r).owner = r.user /\ r.user \in Users
    BY <2>1, WritingRequest, NewCompanyType DEF NewCompany, RequestOK, NamesUser, Admissions
  <2>3. PICK c \in Companies :
          /\ company[c] = None /\ Admit(r, c)
          /\ company' = [company EXCEPT ![c] = NewCompany(r)]
    BY <1>5 DEF CreateCompany
  <2>4. \A d \in Companies :
          /\ members'[d] = IF d = c THEN members[d] \cup {r.user} ELSE members[d]
          /\ company'[d] = IF d = c THEN NewCompany(r) ELSE company[d]
    BY <2>3 DEF Admit, TypeInv, TypeOK
  <2> QED BY <2>2, <2>3, <2>4 DEF OwnersStay, OwnerIsMember
<1>6. CASE JoinOpen(k) \/ Approve(k)
  <2>1. UNCHANGED company /\ Admit(r, r.company)
    BY <1>6 DEF JoinOpen, Approve
  <2>2. \A c \in Companies : members[c] \subseteq members'[c]
    BY <2>1 DEF Admit, TypeInv, TypeOK
  <2> QED BY <2>1, <2>2 DEF OwnersStay, OwnerIsMember
<1> QED BY <1>1, <1>2, <1>3, <1>4, <1>5, <1>6 DEF Commit, WritesRow

\* Only a commit writes to the tables.
LEMMA CommitWrites ==
  ASSUME [Next]_vars
  PROVE  UNCHANGED tables \/ \E k \in Conns : (Commit(k) /\ Release(k))
<1>1. ASSUME NEW k \in Conns, Begin(k) \/ Fail(k) \/ AbortVictim(k) PROVE UNCHANGED tables
  BY <1>1, BeginIsCall DEF Fail, AbortVictim
<1>2. ASSUME NEW k \in Conns, Progress(k)
      PROVE  UNCHANGED tables \/ (Commit(k) /\ Release(k))
  BY <1>2, CommitReleases
     DEF Progress, LockEvent, LockCompany, LockApplication, LockUser, LockDue, LockRow,
         Check, Refuse, Advance
<1> QED BY <1>1, <1>2 DEF Next, Tick, vars

LEMMA AllowedLeave ==
  ASSUME NEW r, r.op \in {"leave", "removeMember"}, Allowed(r)
  PROVE  company[r.company].owner # r.user
<1>1. LeaveAllowed(r)
  BY DEF Allowed, RemoveMemberAllowed
<1> QED BY <1>1 DEF LeaveAllowed

LEMMA StepKeepsOwners == OwnerInv /\ [Next]_vars => OwnerInv'
<1> SUFFICES ASSUME OwnerInv, [Next]_vars PROVE OwnerInv'
  OBVIOUS
<1>1. TypeInv /\ TypeInv'
  BY StepKeepsTypes DEF OwnerInv
<1>2. OwnersStay /\ OwnerIsMember'
  <2>1. CASE UNCHANGED tables
    BY <2>1 DEF tables, OwnerInv, OwnersStay, OwnerIsMember
  <2> QED BY <2>1, CommitWrites, CommitKeepsOwners
<1>3. ASSUME NEW j \in Conns, tx'[j] # Idle, tx'[j].op \in {"leave", "removeMember"},
             tx'[j].step = "write"
      PROVE  company'[tx'[j].company].owner # tx'[j].user
  <2>1. CASE tx'[j] = tx[j]
    <3>1. company[tx[j].company].owner # tx[j].user
      BY <1>3, <2>1 DEF OwnerInv, LeaverIsNotOwner
    <3>2. tx[j].company \in Companies /\ company[tx[j].company] # None
      BY <1>1, <1>3, <2>1 DEF TypeInv, RequestsOK, RequestOK, CompanyOps, EventThenCompany
    <3> QED BY <1>2, <2>1, <3>1, <3>2 DEF OwnersStay
  <2>2. CASE /\ tx'[j].user = tx[j].user /\ tx'[j].company = tx[j].company
             /\ tx'[j].op = tx[j].op /\ Allowed(tx[j]) /\ UNCHANGED tables
    BY <1>3, <2>2, AllowedLeave DEF tables
  <2> QED BY <1>1, <1>3, <2>1, <2>2, AboutToWrite
<1> QED BY <1>1, <1>2, <1>3 DEF OwnerInv, LeaverIsNotOwner

\* The owner of a company stays its member: neither Leave nor RemoveMember, interleaved with any
\* other handlers, takes the owner out, and a company is never without its row (leave, removeMember).
THEOREM OwnersAreMembers == Spec => []OwnerIsMember
<1>1. Init => OwnerInv
  BY InitTypes DEF Init, OwnerInv, LeaverIsNotOwner, OwnerIsMember
<1>2. OwnerInv => OwnerIsMember
  BY DEF OwnerInv
<1> QED BY <1>1, <1>2, StepKeepsOwners, PTL DEF Spec

-----------------------------------------------------------------------------
(* The locks of company rows, of applications and of users. *)

\* The request is past the statement that locks the row of its company, its application, its user.
PastCompany(op, step) ==
  \/ op \in CompanyThenEvent /\ step # "company"
  \/ op \in EventThenCompany \cup CompanyOnly /\ step \notin {"event", "company"}

ResolvesOrCancels == Resolutions \cup {"cancelApplication"}

PastApplication(op, step) == op \in ResolvesOrCancels /\ step \in {"user", "check", "write"}

PastUser(op, step) == op \in Resolutions \cup UserOps /\ step \in {"check", "write"}

RowLocks ==
  {CompanyLock(c) : c \in Companies} \cup {ApplicationLock(c, u) : c \in Companies, u \in Users}
    \cup {UserLock(u) : u \in Users}

RowLocksExclude ==
  \A i, j \in Conns, l \in RowLocks : l \in held[i] /\ l \in held[j] => i = j

RowsAreLocked ==
  \A k \in Conns : tx[k] # Idle =>
    /\ tx[k].op \in CompanyOnly => tx[k].step # "event"
    /\ PastCompany(tx[k].op, tx[k].step) => CompanyLock(tx[k].company) \in held[k]
    /\ PastApplication(tx[k].op, tx[k].step) =>
         ApplicationLock(tx[k].company, tx[k].user) \in held[k]
    /\ PastUser(tx[k].op, tx[k].step) => UserLock(tx[k].user) \in held[k]

RowLockInv == RowLocksExclude /\ RowsAreLocked

SameRequest(k) ==
  /\ tx[k] # Idle /\ UNCHANGED tables /\ Blockers(k) = {}
  /\ tx'[k].op = tx[k].op /\ tx'[k].user = tx[k].user /\ tx'[k].event = tx[k].event
  /\ tx'[k].company = tx[k].company

\* The statement of k takes the row lock l and goes on to a step.
Takes(k, l, step) ==
  SameRequest(k) /\ tx'[k].step = step /\ held'[k] = held[k] \cup {l} /\ l \in NeededLocks(tx[k], k)

\* What a step does to the connection that takes it.
Moves(k) ==
  \/ held'[k] = held[k] /\ tx'[k] = tx[k]
  \/ /\ tx'[k] = tx[k] /\ UNCHANGED tables
     /\ tx[k] # Idle /\ tx[k].op \in Cancellations /\ tx[k].step = "write"
     /\ \E l \in WriteLocks(tx[k], k) :
          /\ held'[k] = held[k] \cup {l}
          /\ \A j \in Conns \ {k} : l \notin held[j]
          /\ \A c \in Companies : l = CompanyLock(c) => CompanyLive(c)
          /\ l \in CompanyRows \/ WriteLocks(tx[k], k) \cap CompanyRows \subseteq held[k]
  \/ held'[k] \subseteq held[k] /\ tx'[k] = Idle
  \/ /\ held'[k] = held[k] /\ UNCHANGED tables
     /\ tx'[k].op \in AllOps /\ tx'[k].step = FirstStep(tx'[k].op)
  \/ /\ tx[k].step = "event"
     /\ Takes(k, EventLock(tx[k].event), StepAfter(tx[k].op, "event"))
  \/ /\ tx[k].step = "company" /\ CompanyLive(tx[k].company)
     /\ Takes(k, CompanyLock(tx[k].company), StepAfter(tx[k].op, "company"))
  \/ /\ tx[k].step = "application" /\ ApplicationFound(tx[k])
     /\ Takes(k, ApplicationLock(tx[k].company, tx[k].user), StepAfter(tx[k].op, "application"))
  \/ /\ tx[k].step = "user" /\ (tx[k].op \in Resolutions => ApplicantIsActive(tx[k]))
     /\ Takes(k, UserLock(tx[k].user), "check")
  \/ /\ tx[k].step = "check" /\ SameRequest(k) /\ tx'[k].step = "write"
     /\ \A l \in RowLocks : l \in held'[k] => l \in held[k]
     /\ held[k] \subseteq held'[k]

\* The kinds of locks are distinct.
LEMMA RowLocksApart ==
  /\ \A e : EventLock(e) \notin RowLocks
  /\ \A u, k : UserShare(u, k) \notin RowLocks
  /\ \A e, u : ParticipantLock(e, u) \notin RowLocks
BY DEF RowLocks, EventLock, UserLock, UserShare, ParticipantLock, CompanyLock, ApplicationLock

LEMMA AdvanceMoves ==
  ASSUME TypeInv, NEW k \in Conns, tx[k] # Idle, NEW locks, NEW step, Advance(k, locks, step)
  PROVE  /\ tx'[k].step = step /\ held'[k] = held[k] \cup locks /\ UNCHANGED tables
         /\ tx'[k].op = tx[k].op /\ tx'[k].user = tx[k].user /\ tx'[k].event = tx[k].event
         /\ tx'[k].company = tx[k].company
         /\ \A j \in Conns \ {k} : tx'[j] = tx[j] /\ held'[j] = held[j]
<1>1. tx[k] \in Request
  BY DEF TypeInv, TypeOK
<1>2. tx'[k] = [tx[k] EXCEPT !.step = step]
  BY DEF Advance, TypeInv, TypeOK
<1>3. /\ tx'[k].step = step /\ tx'[k].op = tx[k].op /\ tx'[k].user = tx[k].user
      /\ tx'[k].event = tx[k].event /\ tx'[k].company = tx[k].company
  BY <1>1, <1>2 DEF Request
<1>4. held'[k] = held[k] \cup locks /\ UNCHANGED tables
  BY DEF Advance, TypeInv, TypeOK
<1>5. \A j \in Conns \ {k} : tx'[j] = tx[j] /\ held'[j] = held[j]
  BY DEF Advance, TypeInv, TypeOK
<1> QED BY <1>3, <1>4, <1>5

LEMMA LockMoves ==
  ASSUME TypeInv, NEW k \in Conns,
         LockEvent(k) \/ LockCompany(k) \/ LockApplication(k) \/ LockUser(k) \/ LockDue(k)
  PROVE  Moves(k) /\ \A j \in Conns \ {k} : tx'[j] = tx[j] /\ held'[j] = held[j]
<1>1. tx[k] # Idle /\ Blockers(k) = {}
  BY AtIsRunning DEF LockEvent, LockCompany, LockApplication, LockUser, LockDue, Steps, At
<1>2. CASE LockEvent(k)
  BY <1>1, <1>2, AdvanceMoves DEF LockEvent, At, Moves, Takes, SameRequest, NeededLocks
<1>3. CASE LockCompany(k)
  BY <1>1, <1>3, AdvanceMoves DEF LockCompany, At, Moves, Takes, SameRequest, NeededLocks
<1>4. CASE LockApplication(k)
  BY <1>1, <1>4, AdvanceMoves DEF LockApplication, At, Moves, Takes, SameRequest, NeededLocks
<1>5. CASE LockUser(k)
  BY <1>1, <1>5, AdvanceMoves DEF LockUser, At, Moves, Takes, SameRequest, NeededLocks
<1>6. CASE LockDue(k)
  <2>1. PICK batch : Advance(k, {EventLock(e) : e \in batch}, "write")
    BY <1>6 DEF LockDue
  <2>2. tx[k].step = "check"
    BY <1>6 DEF LockDue, At
  <2> QED BY <1>1, <2>1, <2>2, AdvanceMoves, RowLocksApart DEF Moves, SameRequest
<1> QED BY <1>2, <1>3, <1>4, <1>5, <1>6

LEMMA LockRowMoves ==
  ASSUME TypeInv, NEW k \in Conns, LockRow(k)
  PROVE  Moves(k) /\ \A j \in Conns \ {k} : tx'[j] = tx[j] /\ held'[j] = held[j]
<1>1. PICK l \in WriteLocks(tx[k], k) :
        /\ \A c \in Companies : l = CompanyLock(c) => CompanyLive(c)
        /\ \A j \in Conns \ {k} : l \notin held[j]
        /\ l \in CompanyRows \/ WriteLocks(tx[k], k) \cap CompanyRows \subseteq held[k]
        /\ tx[k] # Idle /\ tx[k].op \in Cancellations /\ tx[k].step = "write"
        /\ held' = [held EXCEPT ![k] = @ \cup {l}]
        /\ UNCHANGED <<tables, tx>>
  BY LockRowTakesOne
<1>2. held'[k] = held[k] \cup {l} /\ \A j \in Conns \ {k} : tx'[j] = tx[j] /\ held'[j] = held[j]
  BY <1>1 DEF TypeInv, TypeOK
<1> QED BY <1>1, <1>2 DEF Moves

LEMMA CheckMoves ==
  ASSUME TypeInv, NEW k \in Conns, Check(k)
  PROVE  Moves(k) /\ \A j \in Conns \ {k} : tx'[j] = tx[j] /\ held'[j] = held[j]
<1> DEFINE had == tx[k].op \in Admissions /\ participant[tx[k].event][tx[k].user] # None
<1>1. tx[k] \in Request /\ tx[k] # Idle /\ tx[k].step = "check" /\ Blockers(k) = {}
  BY AtIsRunning DEF Check, Steps, At, TypeInv, TypeOK
<1>2. tx'[k] = [tx[k] EXCEPT !.step = "write", !.had = had]
  BY DEF Check, TypeInv, TypeOK
<1> HIDE DEF had
<1>3. /\ tx'[k].step = "write" /\ tx'[k].op = tx[k].op /\ tx'[k].user = tx[k].user
      /\ tx'[k].event = tx[k].event /\ tx'[k].company = tx[k].company
  BY <1>1, <1>2 DEF Request
<1>4. held'[k] = held[k] \cup CheckedLocks(tx[k], k) /\ UNCHANGED tables
  BY DEF Check, TypeInv, TypeOK
<1>5. \A l \in CheckedLocks(tx[k], k) : l \notin RowLocks
  BY RowLocksApart DEF CheckedLocks
<1>6. Moves(k)
  BY <1>1, <1>3, <1>4, <1>5 DEF Moves, SameRequest
<1>7. \A j \in Conns \ {k} : tx'[j] = tx[j] /\ held'[j] = held[j]
  BY DEF Check, TypeInv, TypeOK
<1> QED BY <1>6, <1>7

LEMMA ReleaseMoves ==
  ASSUME TypeInv, NEW k \in Conns, Release(k)
  PROVE  Moves(k) /\ \A j \in Conns \ {k} : tx'[j] = tx[j] /\ held'[j] = held[j]
BY DEF Release, Moves, TypeInv, TypeOK

\* One connection moves at a time.
LEMMA OneMoves ==
  ASSUME TypeInv, [Next]_vars
  PROVE  \/ UNCHANGED <<tables, tx, held>>
         \/ \E k \in Conns :
              Moves(k) /\ \A j \in Conns \ {k} : tx'[j] = tx[j] /\ held'[j] = held[j]
<1>1. ASSUME NEW k \in Conns, Begin(k)
      PROVE  Moves(k) /\ \A j \in Conns \ {k} : tx'[j] = tx[j] /\ held'[j] = held[j]
  <2>1. PICK r : /\ r.op \in AllOps /\ r.step = FirstStep(r.op)
                 /\ tx' = [tx EXCEPT ![k] = r]
    BY <1>1, BeginIsCall
  <2>2. UNCHANGED <<tables, held>>
    BY <1>1, BeginIsCall
  <2>3. tx'[k] = r /\ \A j \in Conns \ {k} : tx'[j] = tx[j]
    BY <2>1 DEF TypeInv, TypeOK
  <2> QED BY <2>1, <2>2, <2>3 DEF Moves
<1>2. ASSUME NEW k \in Conns, Progress(k)
      PROVE  Moves(k) /\ \A j \in Conns \ {k} : tx'[j] = tx[j] /\ held'[j] = held[j]
  BY <1>2, LockMoves, LockRowMoves, CheckMoves, ReleaseMoves, CommitReleases DEF Progress, Refuse
<1>3. ASSUME NEW k \in Conns, Fail(k) \/ AbortVictim(k)
      PROVE  Moves(k) /\ \A j \in Conns \ {k} : tx'[j] = tx[j] /\ held'[j] = held[j]
  BY <1>3, ReleaseMoves DEF Fail, AbortVictim
<1> QED BY <1>1, <1>2, <1>3 DEF Next, Tick, vars

\* The order of the row locks: a request is past its company, or its application, only when it
\* has locked it.
LEMMA OrderOfLocks ==
  /\ \A op : LET step == FirstStep(op)
            IN /\ op \in CompanyOnly => step # "event"
               /\ ~PastCompany(op, step) /\ ~PastApplication(op, step) /\ ~PastUser(op, step)
  /\ \A op : LET step == StepAfter(op, "event")
            IN /\ step # "event"
               /\ PastCompany(op, step) => op \in CompanyThenEvent \cup CompanyOnly
               /\ PastApplication(op, step) => op \in CompanyOnly
               /\ PastUser(op, step) => op \in UserOps
  /\ \A op : LET step == StepAfter(op, "company")
            IN /\ op \in CompanyOnly => step # "event"
               /\ ~PastApplication(op, step)
               /\ PastUser(op, step) => op \in UserOps
  /\ \A op : LET step == StepAfter(op, "application")
            IN /\ step \in {"user", "check"}
               /\ PastUser(op, step) => op \in UserOps
BY DEF FirstStep, StepAfter, PastCompany, PastApplication, PastUser, ResolvesOrCancels, Resolutions,
   CompanyOnly, CompanyThenEvent, EventThenCompany, EventOps, UserOps

LEMMA MoveKeepsRowLocks ==
  ASSUME TypeInv, RowLockInv, NEW k \in Conns, Moves(k),
         \A j \in Conns \ {k} : tx'[j] = tx[j] /\ held'[j] = held[j]
  PROVE  RowLockInv'
<1> DEFINE r == tx[k]
<1>1. \A l \in RowLocks : l \in held'[k] =>
        l \in held[k] \/ \A j \in Conns \ {k} : l \notin held[j]
  BY NeededAreFree DEF Moves, Takes, SameRequest
<1>2. RowLocksExclude'
  BY <1>1 DEF RowLockInv, RowLocksExclude, RowLocks
<1> SUFFICES RowsAreLocked'
  BY <1>2 DEF RowLockInv
<1>3. CASE held[k] \subseteq held'[k] /\ tx'[k] = tx[k]
  BY <1>3 DEF RowLockInv, RowsAreLocked
<1>4. CASE tx'[k] = Idle
  BY <1>4 DEF RowLockInv, RowsAreLocked
<1>5. ASSUME NEW step, tx'[k].op = r.op, tx'[k].step = step, tx'[k].user = r.user,
             tx'[k].company = r.company,
             r.op \in CompanyOnly => step # "event",
             PastCompany(r.op, step) => CompanyLock(r.company) \in held'[k],
             PastApplication(r.op, step) => ApplicationLock(r.company, r.user) \in held'[k],
             PastUser(r.op, step) => UserLock(r.user) \in held'[k]
      PROVE  RowsAreLocked'
  BY <1>5 DEF RowLockInv, RowsAreLocked
<1>6. CASE tx'[k].step = FirstStep(tx'[k].op)
  BY <1>6, OrderOfLocks DEF RowLockInv, RowsAreLocked
<1>7. r # Idle => /\ r.op \in CompanyOnly => r.step # "event"
                  /\ PastCompany(r.op, r.step) => CompanyLock(r.company) \in held[k]
                  /\ PastApplication(r.op, r.step) => ApplicationLock(r.company, r.user) \in held[k]
                  /\ PastUser(r.op, r.step) => UserLock(r.user) \in held[k]
                  /\ r.op \in UserOps => r.step \notin {"event", "company", "application"}
  <2>1. r # Idle => RequestOK(r)
    BY DEF TypeInv, RequestsOK
  <2> QED
    BY <2>1 DEF RowLockInv, RowsAreLocked, RequestOK, StepOK, NamesEvent, UserOps, EventOps,
       CompanyOps, EventThenCompany, CompanyThenEvent, CompanyOnly
<1>8. CASE r.step = "event" /\ Takes(k, EventLock(r.event), StepAfter(r.op, "event"))
  <2>1. r # Idle /\ held[k] \subseteq held'[k] /\ r.op \notin CompanyOnly
    BY <1>7, <1>8 DEF Takes, SameRequest
  <2>2. r.op \in CompanyThenEvent => PastCompany(r.op, r.step)
    BY <1>8 DEF PastCompany
  <2> QED BY <1>5, <1>7, <1>8, <2>1, <2>2, OrderOfLocks DEF Takes, SameRequest
<1>9. CASE r.step = "company" /\ Takes(k, CompanyLock(r.company), StepAfter(r.op, "company"))
  BY <1>5, <1>7, <1>9, OrderOfLocks DEF Takes, SameRequest
<1>10. CASE /\ r.step = "application"
            /\ Takes(k, ApplicationLock(r.company, r.user), StepAfter(r.op, "application"))
  <2>1. r # Idle /\ held[k] \subseteq held'[k]
    BY <1>10 DEF Takes, SameRequest
  <2>2. PastCompany(r.op, StepAfter(r.op, "application")) => PastCompany(r.op, r.step)
    BY <1>10 DEF PastCompany
  <2> QED BY <1>5, <1>7, <1>10, <2>1, <2>2, OrderOfLocks DEF Takes, SameRequest
<1>11. CASE r.step = "user" /\ Takes(k, UserLock(r.user), "check")
  <2>1. r # Idle /\ held[k] \subseteq held'[k]
    BY <1>11 DEF Takes, SameRequest
  <2>2. /\ PastCompany(r.op, "check") => PastCompany(r.op, r.step)
        /\ PastApplication(r.op, "check") => PastApplication(r.op, r.step)
    BY <1>11 DEF PastCompany, PastApplication
  <2> QED BY <1>5, <1>7, <1>11, <2>1, <2>2 DEF Takes, SameRequest
<1>12. CASE /\ r.step = "check" /\ SameRequest(k) /\ tx'[k].step = "write"
            /\ held[k] \subseteq held'[k]
  <2>1. /\ PastCompany(r.op, "write") => PastCompany(r.op, r.step)
        /\ PastApplication(r.op, "write") => PastApplication(r.op, r.step)
        /\ PastUser(r.op, "write") => PastUser(r.op, r.step)
    BY <1>12 DEF PastCompany, PastApplication, PastUser
  <2> QED BY <1>5, <1>7, <1>12, <2>1 DEF SameRequest
<1> QED BY <1>3, <1>4, <1>6, <1>8, <1>9, <1>10, <1>11, <1>12 DEF Moves

LEMMA StepKeepsRowLocks == ASSUME TypeInv, RowLockInv, [Next]_vars PROVE RowLockInv'
<1>1. CASE UNCHANGED <<tx, held>>
  BY <1>1 DEF RowLockInv, RowLocksExclude, RowsAreLocked
<1> QED BY <1>1, OneMoves, MoveKeepsRowLocks

\* A committing transaction has the locks its writes need, or finds them free.
LEMMA CommitIsFree ==
  ASSUME NEW k \in Conns, NEW op, Writing(k, op)
  PROVE  /\ tx[k] # Idle /\ tx[k].op = op /\ tx[k].step = "write"
         /\ \A j \in Conns \ {k}, l \in WriteLocks(tx[k], k) : l \notin held[j]
<1>1. tx[k] # Idle /\ tx[k].op = op /\ tx[k].step = "write" /\ Blockers(k) = {}
  BY DEF Writing, Idle
<1>2. NeededLocks(tx[k], k) = WriteLocks(tx[k], k)
  BY <1>1 DEF NeededLocks
<1> QED BY <1>1, <1>2, NeededAreFree

\* Whoever rewrites the row of a company has its lock, or finds it free.
LEMMA RowIsLocked ==
  ASSUME TypeInv, RowLockInv, NEW k \in Conns, Commit(k), NEW c \in Companies,
         company[c] # None, company'[c] # company[c], NEW j \in Conns \ {k}
  PROVE  CompanyLock(c) \notin held[j]
<1> DEFINE r == tx[k]
<1>1. CASE WritesRow(k)
  <2>1. r # Idle /\ r.op \in RowOps /\ r.step = "write" /\ r.company = c
    BY <1>1, RowWriter
  <2>2. PastCompany(r.op, r.step)
    BY <2>1 DEF PastCompany, RowOps, CompanyThenEvent, CompanyOnly
  <2> QED BY <2>1, <2>2 DEF RowLockInv, RowsAreLocked, RowLocksExclude, RowLocks
<1>2. CASE DeleteEvent(k)
  <2>1. c \in CompaniesOfEvent(r.event) /\ ~company[c].deleted
    BY <1>2 DEF DeleteEvent
  <2>2. Writing(k, "deleteEvent")
    BY <1>2 DEF DeleteEvent
  <2>3. CompanyLock(c) \in WriteLocks(r, k)
    BY <2>1, <2>2, CommitIsFree DEF WriteLocks
  <2> QED BY <2>2, <2>3, CommitIsFree
<1>3. ~CreateCompany(k)
  BY DEF CreateCompany, TypeInv, TypeOK
<1>4. CASE ~WritesRow(k) /\ ~DeleteEvent(k)
  <2>1. UNCHANGED company
    BY <1>3, <1>4 DEF Commit, WritesRow, CreateEvent, EditEvent, ApproveEvent, RejectEvent,
       BlockEvent, Moderate, JoinSolo, CancelSolo, CompleteDue, JoinOpen, Leave, RemoveMember,
       Apply, CancelApplication, Approve, Reject, SetUserStatus
  <2> QED BY <2>1
<1> QED BY <1>1, <1>2, <1>4

-----------------------------------------------------------------------------
(* A blocked company stays blocked. *)

\* Between its check and its write a company that opens or closes is not blocked.
RecruitmentChecked ==
  \A k \in Conns :
    tx[k] # Idle /\ tx[k].op \in {"open", "close"} /\ tx[k].step = "write" =>
      company[tx[k].company].status # "blocked"

BlockInv == TypeInv /\ RowLockInv /\ RecruitmentChecked

LEMMA AllowedRecruitment ==
  ASSUME NEW r, r.op \in {"open", "close"}, Allowed(r)
  PROVE  company[r.company].status # "blocked"
<1>1. OwnsUnblocked(r)
  BY DEF Allowed, OpenAllowed, CloseAllowed
<1> QED BY <1>1 DEF OwnsUnblocked

LEMMA StepKeepsRecruitmentChecked ==
  ASSUME BlockInv, TypeInv', [Next]_vars PROVE RecruitmentChecked'
<1> SUFFICES ASSUME NEW j \in Conns, tx'[j] # Idle, tx'[j].op \in {"open", "close"},
                    tx'[j].step = "write"
             PROVE  company'[tx'[j].company].status # "blocked"
  BY DEF RecruitmentChecked
<1> USE DEF BlockInv
<1>1. CASE /\ tx'[j].company = tx[j].company /\ tx'[j].op = tx[j].op
           /\ Allowed(tx[j]) /\ UNCHANGED tables
  BY <1>1, AllowedRecruitment DEF tables
<1>2. CASE tx'[j] = tx[j]
  <2> DEFINE c == tx[j].company
  <2>1. c \in Companies /\ company[c] # None /\ company[c].status # "blocked"
    BY <1>2 DEF RecruitmentChecked, TypeInv, RequestsOK, RequestOK, CompanyOps, CompanyThenEvent
  <2>2. CompanyLock(c) \in held[j]
    BY <1>2 DEF RowLockInv, RowsAreLocked, PastCompany, CompanyThenEvent
  <2>3. ASSUME NEW k \in Conns, Commit(k), Release(k) PROVE company'[c] = company[c]
    <3>1. k # j
      BY <2>3 DEF Release, TypeInv, TypeOK
    <3> QED BY <2>1, <2>2, <2>3, <3>1, RowIsLocked
  <2>4. company'[c] = company[c]
    BY <2>3, CommitWrites DEF tables
  <2> QED BY <1>2, <2>1, <2>4
<1> QED BY <1>1, <1>2, AboutToWrite

LEMMA CommitKeepsBlocked ==
  ASSUME BlockInv, NEW k \in Conns, Commit(k), NEW c \in Companies, company[c] # None,
         company[c].status = "blocked"
  PROVE  company'[c].status = "blocked"
<1> USE DEF BlockInv
<1>1. CASE WritesRow(k)
  BY <1>1, RowWriter, RowWritten DEF RecruitmentChecked
<1>2. CASE DeleteEvent(k)
  <2>1. company[c] \in CompanyRow
    BY DEF TypeInv, TypeOK
  <2> QED BY <1>2, <2>1 DEF DeleteEvent, CompanyRow
<1>3. CASE CreateCompany(k)
  BY <1>3 DEF CreateCompany, TypeInv, TypeOK
<1>4. CASE ~WritesRow(k) /\ ~DeleteEvent(k) /\ ~CreateCompany(k)
  <2>1. UNCHANGED company
    BY <1>4 DEF Commit, WritesRow, CreateEvent, EditEvent, ApproveEvent, RejectEvent,
       BlockEvent, Moderate, JoinSolo, CancelSolo, CompleteDue, JoinOpen, Leave, RemoveMember,
       Apply, CancelApplication, Approve, Reject, SetUserStatus
  <2> QED BY <2>1
<1> QED BY <1>1, <1>2, <1>3, <1>4

LEMMA StepKeepsBlocked == BlockInv /\ [Next]_vars => BlockInv'
BY StepKeepsTypes, StepKeepsRowLocks, StepKeepsRecruitmentChecked DEF BlockInv

LEMMA InitRowLocks == Init => RowLockInv
BY DEF Init, RowLockInv, RowLocksExclude, RowsAreLocked

\* A blocked company is never reopened: Open and Close, which write the status without reading
\* it again, hold the lock of the row from before their check (SetRecruitment, Block, Delete).
THEOREM BlockedStaysBlocked == Spec => BlockIsFinal
<1>1. Init => BlockInv
  BY InitTypes, InitRowLocks DEF Init, BlockInv, RecruitmentChecked
<1>2. BlockInv /\ [Next]_vars =>
        [\A c \in Companies :
           company[c] # None /\ company[c].status = "blocked" =>
             company'[c].status = "blocked"]_vars
  <2> SUFFICES ASSUME BlockInv, [Next]_vars, NEW c \in Companies, company[c] # None,
                      company[c].status = "blocked"
               PROVE  company'[c].status = "blocked"
    OBVIOUS
  <2> QED BY CommitWrites, CommitKeepsBlocked DEF BlockInv, tables
<1> QED BY <1>1, <1>2, StepKeepsBlocked, PTL DEF Spec, BlockIsFinal

-----------------------------------------------------------------------------
(* A resolved application stays resolved. *)

\* A transaction past the lock of its application found it pending, and it still is.
ApplicationChecked ==
  \A k \in Conns :
    tx[k] # Idle /\ PastApplication(tx[k].op, tx[k].step) =>
      application[tx[k].company][tx[k].user] = "pending"

ResolutionInv == TypeInv /\ RowLockInv /\ ApplicationChecked

WritesApplication(k) == CancelApplication(k) \/ Approve(k) \/ Reject(k)

\* What a commit does to an application.
LEMMA ApplicationWriter ==
  ASSUME TypeInv, NEW k \in Conns, Commit(k), NEW c \in Companies, NEW u \in Users,
         application'[c][u] # application[c][u]
  PROVE  \/ Apply(k) /\ application[c][u] # "pending" /\ application'[c][u] = "pending"
         \/ /\ WritesApplication(k) /\ c = tx[k].company /\ u = tx[k].user
            /\ application'[c][u] # "pending"
         \/ /\ application[c][u] = "pending" /\ application'[c][u] = "cancelled"
            /\ \/ (DeleteCompany(k) \/ BlockCompany(k)) /\ c = tx[k].company
               \/ DeleteEvent(k) /\ c \in CompaniesOfEvent(tx[k].event)
               \/ /\ CompleteDue(k) /\ company[c] # None
                  /\ EventLock(company[c].event) \in held[k]
<1> DEFINE r == tx[k]
<1>1. ASSUME NEW status, application' = [application EXCEPT ![r.company][r.user] = status]
      PROVE  c = r.company /\ u = r.user /\ application'[c][u] = status
  BY <1>1 DEF TypeInv, TypeOK
<1>2. ASSUME NEW cs, application' = Cancelled(cs)
      PROVE  c \in cs /\ application[c][u] = "pending" /\ application'[c][u] = "cancelled"
  BY <1>2 DEF Cancelled
<1>3. CASE DeleteCompany(k) \/ BlockCompany(k)
  BY <1>2, <1>3 DEF DeleteCompany, BlockCompany
<1>4. CASE DeleteEvent(k)
  BY <1>2, <1>4 DEF DeleteEvent
<1>5. CASE CompleteDue(k)
  <2>1. c \in UNION {CompaniesOfEvent(e) : e \in {d \in Events : EventLock(d) \in held[k]}}
    BY <1>2, <1>5 DEF CompleteDue
  <2>2. company[c] # None /\ EventLock(company[c].event) \in held[k]
    BY <2>1 DEF CompaniesOfEvent
  <2> QED BY <1>2, <1>5, <2>2 DEF CompleteDue
<1>6. CASE Apply(k)
  BY <1>1, <1>6 DEF Apply, Resolve
<1>7. CASE WritesApplication(k)
  <2>1. \E status \in {"cancelled", "approved", "rejected"} :
          application' = [application EXCEPT ![r.company][r.user] = status]
    BY <1>7 DEF WritesApplication, CancelApplication, Approve, Reject, Resolve
  <2> QED BY <1>1, <1>7, <2>1
<1>8. CASE ~(Apply(k) \/ WritesApplication(k) \/ DeleteCompany(k) \/ BlockCompany(k)
              \/ DeleteEvent(k) \/ CompleteDue(k))
  <2>1. UNCHANGED application
    BY <1>8 DEF Commit, WritesApplication, CreateEvent, EditEvent, ApproveEvent, RejectEvent,
       BlockEvent, Moderate, JoinSolo, CancelSolo, CreateCompany, JoinOpen, Leave, RemoveMember,
       Update, Open, Close, SetRecruitment, SetUserStatus
  <2> QED BY <2>1
<1> QED BY <1>3, <1>4, <1>5, <1>6, <1>7, <1>8

LEMMA ApplicationWriting ==
  ASSUME NEW k \in Conns, WritesApplication(k)
  PROVE  tx[k] # Idle /\ tx[k].op \in ResolvesOrCancels /\ tx[k].step = "write"
BY CommitIsFree
   DEF WritesApplication, CancelApplication, Approve, Reject, ResolvesOrCancels, Resolutions

\* Whoever takes an application out of its pending state has its lock or that of its company,
\* or finds it free.
LEMMA ApplicationIsLocked ==
  ASSUME TypeInv, RowLockInv, NEW k \in Conns, Commit(k), NEW c \in Companies, NEW u \in Users,
         application[c][u] = "pending", application'[c][u] # "pending", NEW j \in Conns \ {k}
  PROVE  ~(CompanyLock(c) \in held[j] /\ ApplicationLock(c, u) \in held[j])
<1> DEFINE r == tx[k]
<1>1. CASE WritesApplication(k) /\ c = r.company /\ u = r.user
  <2>1. ApplicationLock(c, u) \in held[k]
    BY <1>1, ApplicationWriting DEF PastApplication, RowLockInv, RowsAreLocked
  <2> QED BY <2>1 DEF RowLockInv, RowLocksExclude, RowLocks
<1>2. CASE (DeleteCompany(k) \/ BlockCompany(k)) /\ c = r.company
  <2>1. WritesRow(k)
    BY <1>2 DEF WritesRow
  <2>2. r # Idle /\ PastCompany(r.op, r.step)
    BY <2>1, RowWriter DEF PastCompany, RowOps, CompanyThenEvent, CompanyOnly
  <2>3. CompanyLock(c) \in held[k]
    BY <1>2, <2>2 DEF RowLockInv, RowsAreLocked
  <2> QED BY <2>3 DEF RowLockInv, RowLocksExclude, RowLocks
<1>3. ASSUME NEW op, NEW cs, Writing(k, op), c \in cs,
             PendingRows(cs) \subseteq WriteLocks(r, k)
      PROVE  ApplicationLock(c, u) \notin held[j]
  <2>1. <<c, u>> \in PendingOf(cs)
    BY <1>3 DEF PendingOf
  <2>2. ApplicationLock(c, u) \in WriteLocks(r, k)
    BY <1>3, <2>1 DEF PendingRows
  <2> QED BY <1>3, <2>2, CommitIsFree
<1>4. CASE DeleteEvent(k) /\ c \in CompaniesOfEvent(r.event)
  <2>1. Writing(k, "deleteEvent") /\ r.op = "deleteEvent"
    BY <1>4 DEF DeleteEvent, Writing
  <2>2. PendingRows(CompaniesOfEvent(r.event)) \subseteq WriteLocks(r, k)
    BY <2>1 DEF WriteLocks
  <2> QED BY <1>3, <1>4, <2>1, <2>2
<1>5. CASE CompleteDue(k) /\ company[c] # None /\ EventLock(company[c].event) \in held[k]
  <2> DEFINE cs == {d \in Companies : company[d] # None /\ EventLock(company[d].event) \in held[k]}
  <2>1. Writing(k, "completeDue") /\ r.op = "completeDue"
    BY <1>5 DEF CompleteDue, Writing
  <2>2. PendingRows(cs) \subseteq WriteLocks(r, k)
    BY <2>1 DEF WriteLocks
  <2>3. c \in cs
    BY <1>5
  <2> HIDE DEF cs
  <2> QED BY <1>3, <2>1, <2>2, <2>3
<1> QED BY <1>1, <1>2, <1>4, <1>5, ApplicationWriter

LEMMA NamedApplication ==
  ASSUME TypeInv, NEW j \in Conns, tx[j] # Idle, PastApplication(tx[j].op, tx[j].step)
  PROVE  tx[j].company \in Companies /\ tx[j].user \in Users
<1>1. RequestOK(tx[j]) /\ tx[j].op \in ResolvesOrCancels
  BY DEF TypeInv, RequestsOK, PastApplication
<1>2. tx[j].op \in CompanyOps /\ tx[j].op \in NamesUser
  BY <1>1 DEF ResolvesOrCancels, Resolutions, CompanyOps, EventThenCompany, CompanyOnly,
     NamesUser, Admissions
<1> QED BY <1>1, <1>2 DEF RequestOK

\* A step of the transaction itself, which writes nothing.
LEMMA MoveKeepsApplicationChecked ==
  ASSUME ResolutionInv, NEW k \in Conns, Moves(k), UNCHANGED application, tx'[k] # Idle,
         PastApplication(tx'[k].op, tx'[k].step)
  PROVE  application[tx'[k].company][tx'[k].user] = "pending"
<1> DEFINE r == tx[k]
<1> USE DEF ResolutionInv
<1>1. r # Idle /\ PastApplication(r.op, r.step) =>
        application[r.company][r.user] = "pending"
  BY DEF ApplicationChecked
<1>2. CASE tx'[k] = r
  BY <1>1, <1>2
<1>3. tx'[k].step # FirstStep(tx'[k].op)
  BY OrderOfLocks
<1>4. CASE r.step = "event" /\ Takes(k, EventLock(r.event), StepAfter(r.op, "event"))
  BY <1>4, OrderOfLocks DEF Takes, SameRequest, RowLockInv, RowsAreLocked
<1>5. CASE r.step = "company" /\ Takes(k, CompanyLock(r.company), StepAfter(r.op, "company"))
  BY <1>5, OrderOfLocks DEF Takes, SameRequest
<1>6. CASE /\ r.step = "application" /\ ApplicationFound(r)
           /\ Takes(k, ApplicationLock(r.company, r.user), StepAfter(r.op, "application"))
  BY <1>6 DEF Takes, SameRequest, ApplicationFound, ApplicationIsPending
<1>7. CASE r.step \in {"user", "check"} /\ SameRequest(k)
  <2>1. PastApplication(r.op, r.step)
    BY <1>7 DEF SameRequest, PastApplication
  <2> QED BY <1>1, <1>7, <2>1 DEF SameRequest
<1> QED BY <1>2, <1>3, <1>4, <1>5, <1>6, <1>7 DEF Moves, Takes

LEMMA StepKeepsApplicationChecked ==
  ASSUME ResolutionInv, [Next]_vars PROVE ApplicationChecked'
<1> SUFFICES ASSUME NEW j \in Conns, tx'[j] # Idle, PastApplication(tx'[j].op, tx'[j].step)
             PROVE  application'[tx'[j].company][tx'[j].user] = "pending"
  BY DEF ApplicationChecked
<1> USE DEF ResolutionInv
<1>1. CASE UNCHANGED tables
  <2>1. UNCHANGED application
    BY <1>1 DEF tables
  <2>2. tx'[j] = tx[j] \/ Moves(j)
    BY OneMoves
  <2> QED BY <2>1, <2>2, MoveKeepsApplicationChecked DEF ApplicationChecked
<1>2. ASSUME NEW k \in Conns, Commit(k), Release(k)
      PROVE  application'[tx'[j].company][tx'[j].user] = "pending"
  <2> DEFINE c == tx[j].company
             u == tx[j].user
  <2>1. k # j /\ tx'[j] = tx[j]
    BY <1>2 DEF Release, TypeInv, TypeOK
  <2>2. tx[j] # Idle /\ PastApplication(tx[j].op, tx[j].step) /\ application[c][u] = "pending"
    BY <2>1 DEF ApplicationChecked
  <2>3. CompanyLock(c) \in held[j] /\ ApplicationLock(c, u) \in held[j]
    <3>1. PastCompany(tx[j].op, tx[j].step)
      BY <2>2 DEF PastApplication, PastCompany, ResolvesOrCancels, Resolutions,
         EventThenCompany, CompanyOnly
    <3> QED BY <2>2, <3>1 DEF RowLockInv, RowsAreLocked
  <2>4. c \in Companies /\ u \in Users
    BY <2>2, NamedApplication
  <2> QED BY <1>2, <2>1, <2>2, <2>3, <2>4, ApplicationIsLocked
<1> QED BY <1>1, <1>2, CommitWrites

LEMMA StepKeepsResolution == ResolutionInv /\ [Next]_vars => ResolutionInv'
BY StepKeepsTypes, StepKeepsRowLocks, StepKeepsApplicationChecked DEF ResolutionInv

LEMMA CommitResolves ==
  ASSUME ResolutionInv, NEW k \in Conns, Commit(k), NEW c \in Companies, NEW u \in Users,
         application[c][u] # application'[c][u]
  PROVE  (application[c][u] = "pending") # (application'[c][u] = "pending")
<1>1. CASE WritesApplication(k) /\ c = tx[k].company /\ u = tx[k].user
  BY <1>1, ApplicationWriting DEF PastApplication, ResolutionInv, ApplicationChecked
<1> QED BY <1>1, ApplicationWriter DEF ResolutionInv

\* A resolved application stays as it was resolved: whoever resolves or cancels one found it
\* pending under the lock that it keeps, and those who cancel whole companies or events wait
\* for that lock (ResolveApplication, CancelApplication, Delete, Block, CompleteDue).
THEOREM ResolutionsAreFinal == Spec => ResolutionIsFinal
<1>1. Init => ResolutionInv
  BY InitTypes, InitRowLocks DEF Init, ResolutionInv, ApplicationChecked
<1>2. ResolutionInv /\ [Next]_vars =>
        [\A c \in Companies, u \in Users :
           application[c][u] # application'[c][u] =>
             (application[c][u] = "pending") # (application'[c][u] = "pending")]_vars
  <2> SUFFICES ASSUME ResolutionInv, [Next]_vars, NEW c \in Companies, NEW u \in Users,
                      application[c][u] # application'[c][u]
               PROVE  (application[c][u] = "pending") # (application'[c][u] = "pending")
    OBVIOUS
  <2> QED BY CommitWrites, CommitResolves DEF ResolutionInv, tables
<1> QED BY <1>1, <1>2, StepKeepsResolution, PTL DEF Spec, ResolutionIsFinal

-----------------------------------------------------------------------------
(* An event that has ended stays so. *)

LockedAreLive == \A k \in Conns, e \in Events : EventLock(e) \in held[k] => EventLive(e)

\* The status an operation has found its event in.
StatusFits(r) ==
  /\ r.op \in {"approveEvent", "rejectEvent"} => event[r.event].status = "pending"
  /\ r.op = "blockEvent" => event[r.event].status = "active"
  /\ r.op = "editEvent" /\ r.actor # Admin => event[r.event].status \in Editable

StatusChecked ==
  \A k \in Conns : tx[k] # Idle /\ tx[k].step = "write" => StatusFits(tx[k])

\* A pass has locked nothing before it looks for events that are due, and only those then.
PassChecked ==
  \A k \in Conns, e \in Events : EventLock(e) \in held[k] =>
    /\ tx[k] # Idle
    /\ tx[k].op = "completeDue" => tx[k].step = "write" /\ event[e].status = "active"

EndInv == TypeInv /\ LockInv /\ LockedAreLive /\ StatusChecked /\ PassChecked

LEMMA LocksGoOn == \A op, step : StepAfter(op, step) \notin {"write", "idle"}
BY DEF StepAfter

\* A connection stands still, or locks other rows than events, ends, begins, goes on, checks, or
\* picks the events that are due.
Acts(j) ==
  \/ /\ tx'[j] = tx[j]
     /\ \A e \in Events : EventLock(e) \in held'[j] => EventLock(e) \in held[j]
  \/ tx'[j] = Idle /\ held'[j] = {}
  \/ /\ held'[j] = held[j] /\ tx[j] = Idle /\ UNCHANGED tables
     /\ tx'[j].step = FirstStep(tx'[j].op)
  \/ /\ tx[j] # Idle /\ tx[j].op # "completeDue" /\ tx'[j].op = tx[j].op
     /\ UNCHANGED tables
     /\ tx'[j].step \notin {"write", "idle"}
     /\ \A e \in Events : EventLock(e) \in held'[j] =>
          EventLock(e) \in held[j] \/ EventLive(e)
  \/ /\ tx[j] # Idle /\ tx[j].op # "completeDue" /\ tx'[j].op = tx[j].op
     /\ UNCHANGED tables
     /\ tx'[j].event = tx[j].event /\ tx'[j].actor = tx[j].actor /\ tx'[j].step = "write"
     /\ Allowed(tx[j])
     /\ \A e \in Events : EventLock(e) \in held'[j] => EventLock(e) \in held[j]
  \/ /\ tx[j] # Idle /\ tx[j].op = "completeDue" /\ tx'[j].op = "completeDue"
     /\ tx[j].step = "check" /\ tx'[j].step = "write" /\ UNCHANGED tables
     /\ \A e \in Events : EventLock(e) \in held'[j] =>
          EventLock(e) \in held[j] \/ e \in Due(tx[j].now)

LEMMA EventMoves == ASSUME TypeInv, [Next]_vars, NEW j \in Conns PROVE Acts(j)
<1> USE DEF Acts
<1>1. CASE UNCHANGED <<tx, held>>
  BY <1>1
<1>2. ASSUME NEW k \in Conns, Begin(k) PROVE Acts(j)
  <2>1. PICK r : r.op \in AllOps /\ r.step = FirstStep(r.op) /\ tx' = [tx EXCEPT ![k] = r]
    BY <1>2, BeginIsCall
  <2>2. tx[k] = Idle /\ UNCHANGED <<tables, held>>
    BY <1>2, BeginIsCall
  <2>3. tx'[k] = r /\ \A i \in Conns \ {k} : tx'[i] = tx[i]
    BY <2>1 DEF TypeInv, TypeOK
  <2> QED BY <2>1, <2>2, <2>3
<1>3. ASSUME NEW k \in Conns, Release(k) PROVE Acts(j)
  BY <1>3 DEF Release, TypeInv, TypeOK
<1>4. ASSUME NEW k \in Conns,
             LockEvent(k) \/ LockCompany(k) \/ LockApplication(k) \/ LockUser(k)
      PROVE Acts(j)
  <2>1. tx[k] # Idle
    BY <1>4, AtIsRunning DEF LockEvent, LockCompany, LockApplication, LockUser, Steps
  <2>2. tx[k].op # "completeDue"
    <3>1. StepOK(tx[k].op, tx[k].step)
      BY <2>1 DEF TypeInv, RequestsOK, RequestOK
    <3>2. tx[k].step \in {"event", "company", "application", "user"}
      BY <1>4 DEF LockEvent, LockCompany, LockApplication, LockUser, At
    <3> QED
      BY <3>1, <3>2 DEF StepOK, NamesEvent, NamesUser, CompanyOps, EventOps, Admissions, UserOps,
         EventThenCompany, CompanyThenEvent, CompanyOnly
  <2>3. PICK locks, step :
          /\ Advance(k, locks, step) /\ step \notin {"write", "idle"}
          /\ \A e \in Events : EventLock(e) \in locks => EventLive(e)
    BY <1>4, LocksGoOn, EventLocksApart
       DEF LockEvent, LockCompany, LockApplication, LockUser
  <2> QED BY <2>1, <2>2, <2>3, AdvanceMoves
<1>5. ASSUME NEW k \in Conns, LockDue(k) PROVE Acts(j)
  <2>1. tx[k] # Idle /\ tx[k].op = "completeDue" /\ tx[k].step = "check"
    BY <1>5, AtIsRunning DEF LockDue, Steps, At
  <2>2. PICK batch \in SUBSET Due(tx[k].now) :
          Advance(k, {EventLock(e) : e \in batch}, "write")
    BY <1>5 DEF LockDue
  <2>3. \A e \in Events :
          EventLock(e) \in {EventLock(f) : f \in batch} => e \in Due(tx[k].now)
    BY <2>2, EventLocksApart
  <2> QED BY <2>1, <2>2, <2>3, AdvanceMoves
<1>6. ASSUME NEW k \in Conns, Check(k) PROVE Acts(j)
  <2> DEFINE had == tx[k].op \in Admissions /\ participant[tx[k].event][tx[k].user] # None
  <2>1. tx[k] \in Request /\ tx[k] # Idle /\ RequestOK(tx[k])
    BY <1>6, AtIsRunning DEF Check, Steps, TypeInv, TypeOK, RequestsOK
  <2>2. tx'[k] = [tx[k] EXCEPT !.step = "write", !.had = had]
    BY <1>6 DEF Check, TypeInv, TypeOK
  <2> HIDE DEF had
  <2>3. /\ tx'[k].op = tx[k].op /\ tx'[k].event = tx[k].event /\ tx'[k].actor = tx[k].actor
        /\ tx'[k].step = "write"
    BY <2>1, <2>2 DEF Request
  <2>4. \A e \in Events : EventLock(e) \in held'[k] => EventLock(e) \in held[k]
    BY <1>6, <2>1, CheckedLocksType DEF Check, TypeInv, TypeOK
  <2>5. \A i \in Conns \ {k} : tx'[i] = tx[i] /\ held'[i] = held[i]
    BY <1>6, CheckMoves
  <2> QED BY <1>6, <2>1, <2>3, <2>4, <2>5 DEF Check
<1>7. ASSUME NEW k \in Conns, LockRow(k) PROVE Acts(j)
  BY <1>7, LockRowTakesOne DEF TypeInv, TypeOK
<1> QED
  BY <1>1, <1>2, <1>3, <1>4, <1>5, <1>6, <1>7, CommitReleases
     DEF Next, Tick, vars, Progress, Refuse, Fail, AbortVictim

\* Whoever rewrites the row of an event has locked it, and deletes it, completes it, or has found
\* it in a status that may change.
LEMMA EventWritten ==
  ASSUME EndInv, NEW k \in Conns, Commit(k), NEW e \in Events,
         event[e] # None, event'[e] # event[e]
  PROVE  /\ EventLock(e) \in held[k]
         /\ \/ event'[e].deleted
            \/ event[e].status \notin {"completed", "blocked"}
            \/ event'[e].status = event[e].status
<1> DEFINE r == tx[k]
<1> USE DEF EndInv
<1>1. PICK op : Writing(k, op)
  BY CommitReleases
<1>2. r # Idle /\ r.step = "write" /\ r.op = op /\ StatusFits(r)
  BY <1>1 DEF Writing, Idle, StatusChecked
<1>3. r.op \in LocksEvent => EventLock(r.event) \in held[k]
  BY <1>2 DEF LockInv, EventIsLocked
<1>4. event[e] \in EventRow /\ event \in [Events -> EventRow \cup {None}]
  BY DEF TypeInv, TypeOK
<1>5. ~CreateEvent(k)
  BY <1>4 DEF CreateEvent
<1>6. CASE EditEvent(k)
  <2>1. r.op = "editEvent" /\ r.event = e
    BY <1>4, <1>6 DEF EditEvent, Writing
  <2>2. event'[e] = [event[e] EXCEPT !.form = NewForm(r),
                       !.status = IF r.actor = Admin THEN event[e].status ELSE "pending"]
    BY <1>4, <1>6, <2>1 DEF EditEvent
  <2>3. event'[e].status = IF r.actor = Admin THEN event[e].status ELSE "pending"
    BY <1>4, <2>2 DEF EventRow
  <2> QED BY <1>2, <1>3, <2>1, <2>3 DEF StatusFits, Editable, LocksEvent, EventOps
<1>7. CASE DeleteEvent(k)
  <2>1. r.op = "deleteEvent" /\ r.event = e
    BY <1>4, <1>7 DEF DeleteEvent, Writing
  <2>2. event'[e] = Tombstone(event[e])
    BY <1>4, <1>7, <2>1 DEF DeleteEvent
  <2>3. event'[e].deleted
    BY <1>4, <2>2 DEF Tombstone, EventRow
  <2> QED BY <1>3, <2>1, <2>3 DEF LocksEvent, EventOps
<1>8. CASE ApproveEvent(k) \/ RejectEvent(k) \/ BlockEvent(k)
  <2>1. r.op \in {"approveEvent", "rejectEvent", "blockEvent"} /\ r.event = e
    BY <1>4, <1>8 DEF ApproveEvent, RejectEvent, BlockEvent, Moderate, Writing
  <2> QED BY <1>2, <1>3, <2>1 DEF StatusFits, LocksEvent, EventOps
<1>9. CASE CompleteDue(k)
  <2>1. EventLock(e) \in held[k] /\ r.op = "completeDue"
    BY <1>9 DEF CompleteDue, Writing
  <2> QED BY <2>1 DEF PassChecked
<1>10. CASE ~(EditEvent(k) \/ DeleteEvent(k) \/ ApproveEvent(k) \/ RejectEvent(k) \/ BlockEvent(k)
                \/ CompleteDue(k))
  <2>1. UNCHANGED event
    BY <1>5, <1>10 DEF Commit, JoinSolo, CancelSolo, CreateCompany, JoinOpen, Leave, RemoveMember,
       Update, Open, Close, SetRecruitment, DeleteCompany, BlockCompany, Apply, CancelApplication,
       Approve, Reject, SetUserStatus
  <2> QED BY <2>1
<1> QED BY <1>6, <1>7, <1>8, <1>9, <1>10

\* A locked event is written by nobody else.
LEMMA LockedEventStays ==
  ASSUME EndInv, [Next]_vars, NEW j \in Conns, tx'[j] = tx[j], tx[j] # Idle, NEW e \in Events,
         EventLock(e) \in held[j]
  PROVE  event'[e] = event[e]
<1> USE DEF EndInv
<1>1. ASSUME NEW k \in Conns, Commit(k), Release(k) PROVE event'[e] = event[e]
  <2>1. k # j
    BY <1>1 DEF Release, TypeInv, TypeOK
  <2>2. event[e] # None /\ EventLock(e) \notin held[k]
    BY <2>1 DEF LockedAreLive, EventLive, LockInv, EventLocksExclude
  <2> QED BY <1>1, <2>2, EventWritten
<1> QED BY <1>1, CommitWrites DEF tables

\* What the checks of a request say of the status.
LEMMA AllowedStatus == ASSUME NEW r, Allowed(r) PROVE StatusFits(r)
<1>1. CASE r.op = "editEvent"
  BY <1>1 DEF Allowed, EditEventAllowed, StatusFits
<1>2. CASE r.op \in {"approveEvent", "rejectEvent", "blockEvent"}
  BY <1>2 DEF Allowed, ApproveEventAllowed, RejectEventAllowed, BlockEventAllowed, StatusFits
<1> QED BY <1>1, <1>2 DEF StatusFits

LEMMA StepKeepsEnd == EndInv /\ [Next]_vars => EndInv'
<1> SUFFICES ASSUME EndInv, [Next]_vars PROVE EndInv'
  OBVIOUS
<1> USE DEF EndInv
<1>1. TypeInv'
  BY StepKeepsTypes
<1>2. LockInv'
  BY <1>1, StepKeepsLocks
<1>3. LockedAreLive'
  <2> SUFFICES ASSUME NEW j \in Conns, NEW e \in Events, EventLock(e) \in held'[j]
               PROVE  EventLive(e)'
    BY DEF LockedAreLive
  <2>1. CASE EventLock(e) \in held[j] /\ UNCHANGED tables
    BY <2>1 DEF LockedAreLive, EventLive, tables
  <2>2. CASE tx'[j] = tx[j] /\ EventLock(e) \in held[j]
    <3>1. tx[j] # Idle /\ EventLive(e)
      BY <2>2 DEF PassChecked, LockedAreLive
    <3> QED BY <2>2, <3>1, LockedEventStays DEF EventLive
  <2>3. CASE UNCHANGED tables /\ (EventLive(e) \/ e \in Due(tx[j].now))
    BY <2>3 DEF Due, EventLive, tables
  <2> QED BY <2>1, <2>2, <2>3, EventMoves DEF Acts
<1>4. StatusChecked'
  <2> SUFFICES ASSUME NEW j \in Conns, tx'[j] # Idle, tx'[j].step = "write"
               PROVE  StatusFits(tx[j])'
    BY DEF StatusChecked
  <2>1. CASE tx'[j] = tx[j]
    <3>1. StatusFits(tx[j])
      BY <2>1 DEF StatusChecked
    <3>2. CASE tx[j].op \in {"approveEvent", "rejectEvent", "blockEvent", "editEvent"}
      <4>1. EventLock(tx[j].event) \in held[j] /\ tx[j].event \in Events
        BY <2>1, <3>2 DEF LockInv, EventIsLocked, LocksEvent, EventOps, TypeInv, RequestsOK,
           RequestOK, NamesEvent
      <4>2. event'[tx[j].event] = event[tx[j].event]
        BY <2>1, <4>1, LockedEventStays
      <4> QED BY <2>1, <3>1, <4>2 DEF StatusFits
    <3> QED BY <2>1, <3>2 DEF StatusFits
  <2>2. CASE tx'[j].op = "completeDue"
    BY <2>2 DEF StatusFits
  <2>3. CASE /\ tx'[j].op = tx[j].op /\ tx'[j].event = tx[j].event /\ tx'[j].actor = tx[j].actor
             /\ Allowed(tx[j]) /\ UNCHANGED tables
    BY <2>3, AllowedStatus DEF StatusFits, tables
  <2> QED BY <2>1, <2>2, <2>3, EventMoves, NoLockIsTheLast DEF Acts
<1>5. PassChecked'
  <2> SUFFICES ASSUME NEW j \in Conns, NEW e \in Events, EventLock(e) \in held'[j]
               PROVE  /\ tx'[j] # Idle
                      /\ tx'[j].op = "completeDue" =>
                           tx'[j].step = "write" /\ event'[e].status = "active"
    BY DEF PassChecked
  <2>1. CASE tx'[j] = tx[j] /\ EventLock(e) \in held[j]
    <3>1. tx[j] # Idle
      BY <2>1 DEF PassChecked
    <3> QED BY <2>1, <3>1, LockedEventStays DEF PassChecked
  <2>2. CASE held'[j] = held[j] /\ tx[j] = Idle
    BY <2>2 DEF PassChecked
  <2>3. CASE tx'[j].step # "idle" /\ tx[j].op # "completeDue" /\ tx'[j].op = tx[j].op
    BY <2>3 DEF Idle
  <2>4. CASE /\ tx[j] # Idle /\ tx[j].op = "completeDue" /\ tx[j].step = "check"
             /\ tx'[j].op = "completeDue" /\ tx'[j].step = "write" /\ UNCHANGED tables
             /\ EventLock(e) \in held[j] \/ e \in Due(tx[j].now)
    <3>1. e \in Due(tx[j].now)
      BY <2>4 DEF PassChecked
    <3> QED BY <2>4, <3>1 DEF Due, Idle, tables
  <2> QED BY <2>1, <2>2, <2>3, <2>4, EventMoves DEF Acts
<1> QED BY <1>1, <1>2, <1>3, <1>4, <1>5

\* Completion, blocking and deletion of an event are final: whoever edits, moderates, completes or
\* deletes an event has locked its row, has found it live and in a status that may change, and
\* nobody changes it before the commit (events/postgres: lockEvent, update, Transition, CompleteDue).
THEOREM EventsEndForGood == Spec => EventEndIsFinal
<1>1. Init => EndInv
  BY InitTypes DEF Init, EndInv, LockInv, EventLocksExclude, EventIsLocked, LockedAreLive,
     StatusChecked, PassChecked
<1>2. EndInv /\ [Next]_vars =>
        [\A e \in Events :
           event[e] # None =>
             /\ event[e].deleted => event'[e] = event[e]
             /\ event[e].status \in {"completed", "blocked"} =>
                  event'[e].status = event[e].status \/ event'[e].deleted]_vars
  <2> SUFFICES ASSUME EndInv, [Next]_vars, NEW e \in Events, event[e] # None,
                      event'[e] # event[e]
               PROVE  /\ ~event[e].deleted
                      /\ event[e].status \in {"completed", "blocked"} =>
                           event'[e].status = event[e].status \/ event'[e].deleted
    OBVIOUS
  <2>1. PICK k \in Conns : Commit(k)
    BY CommitWrites DEF tables
  <2> QED BY <2>1, EventWritten DEF EndInv, LockedAreLive, EventLive
<1> QED BY <1>1, <1>2, StepKeepsEnd, PTL DEF Spec, EventEndIsFinal
=============================================================================
