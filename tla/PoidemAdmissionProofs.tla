----------------------- MODULE PoidemAdmissionProofs -----------------------
(***************************************************************************)
(* Every state is well typed, for any number of users, events, companies   *)
(* and connections; and a user belongs to at most one company of an event. *)
(*                                                                         *)
(* The table company_members has no constraint that says the latter: the   *)
(* code relies on the lock of the event row, which every admission holds   *)
(* from its check of the rule to its commit.                               *)
(***************************************************************************)
EXTENDS Poidem, FiniteSetTheorems, TLAPS

-----------------------------------------------------------------------------
(* Types: what a transaction may rely on. *)

NamesEvent == CompanyOps \cup (EventOps \ {"createEvent"})
NamesUser ==
  Admissions \cup UserOps \cup
    {"joinSolo", "cancelSolo", "leave", "removeMember", "apply", "cancelApplication", "reject"}

\* A row is locked only by an operation that names one.
StepOK(op, step) ==
  /\ op \in AllOps /\ step \in Steps
  /\ step = "event" => op \in NamesEvent
  /\ step \in {"company", "application"} => op \in CompanyOps
  /\ step \in {"application", "user"} => op \in NamesUser

\* The rows and the input a request names exist, and have the kind its operation expects.
RequestOK(r) ==
  /\ StepOK(r.op, r.step)
  /\ r.op \in NamesEvent => r.event \in Events /\ event[r.event] # None
  /\ r.op \in CompanyOps =>
       r.company \in Companies /\ company[r.company] # None
         /\ company[r.company].event = r.event
  /\ r.op \in NamesUser => r.user \in Users
  /\ r.op = "createEvent" => r.actor \in Users /\ r.patch \in EventForms
  /\ r.op = "editEvent" => r.patch \in EventForms \cup {None}
  /\ r.op = "createCompany" => r.patch \in Drafts
  /\ r.op = "update" => r.patch \in Patches

RequestsOK == \A k \in Conns : tx[k] # Idle => RequestOK(tx[k])

\* Only rows that exist are locked.
LockedEventsExist ==
  \A k \in Conns, e \in Events : EventLock(e) \in held[k] => event[e] # None

\* companies.event_id REFERENCES events(id).
EventsOfCompaniesExist ==
  \A c \in Companies : company[c] # None => event[company[c].event] # None

TypeInv == TypeOK /\ EventsOfCompaniesExist /\ RequestsOK /\ LockedEventsExist

TablesOK ==
  /\ account \in [Users -> Accounts]
  /\ event \in [Events -> EventRow \cup {None}]
  /\ company \in [Companies -> CompanyRow \cup {None}]
  /\ members \in [Companies -> SUBSET Users]
  /\ participant \in [Events -> [Users -> Companies \cup {None, Solo}]]
  /\ application \in [Companies -> [Users -> ApplicationStatuses \cup {None}]]
  /\ EventsOfCompaniesExist

-----------------------------------------------------------------------------

LEMMA NotIdle == ASSUME NEW r \in Request PROVE r # Idle
BY DEF Request, Idle, Steps

\* FirstStep and StepAfter lock only rows the operation names.
LEMMA FirstStepOK == ASSUME NEW op \in AllOps PROVE StepOK(op, FirstStep(op))
BY DEF FirstStep, StepOK, Steps, NamesEvent, NamesUser, CompanyOps, UserOps

LEMMA StepAfterOK ==
  ASSUME NEW op \in AllOps, NEW step PROVE StepOK(op, StepAfter(op, step))
<1> USE DEF NamesEvent, NamesUser, CompanyOps, EventThenCompany, CompanyThenEvent,
        CompanyOnly, Resolutions, Admissions
<1> QED BY DEF StepAfter, StepOK, Steps

\* A transaction that goes on names the same rows.
LEMMA StepOfRequest ==
  ASSUME NEW r \in Request, NEW step, RequestOK(r), StepOK(r.op, step)
  PROVE  [r EXCEPT !.step = step] \in Request /\ RequestOK([r EXCEPT !.step = step])
<1> DEFINE s == [r EXCEPT !.step = step]
<1>1. s \in Request
  BY DEF Request, StepOK
<1>2. /\ s.op = r.op /\ s.step = step /\ s.event = r.event /\ s.company = r.company
      /\ s.user = r.user /\ s.actor = r.actor /\ s.patch = r.patch
  BY DEF Request
<1> HIDE DEF s
<1>3. RequestOK(s)
  BY <1>2 DEF RequestOK
<1> QED BY <1>1, <1>3 DEF s

\* Putting a well-formed request on a connection, with more locks, keeps the types.
LEMMA RunningKeepsTypes ==
  ASSUME TypeInv, NEW k \in Conns, NEW r \in Request, RequestOK(r),
         NEW locks \in SUBSET Locks,
         \A e \in Events : EventLock(e) \in locks => event[e] # None,
         tx' = [tx EXCEPT ![k] = r],
         held' = [held EXCEPT ![k] = @ \cup locks],
         UNCHANGED <<clock, tables>>
  PROVE  TypeInv'
<1>1. TypeOK'
  <2>1. tx' \in [Conns -> Request \cup {Idle}]
    BY DEF TypeInv, TypeOK
  <2>2. held' \in [Conns -> SUBSET Locks]
    BY DEF TypeInv, TypeOK
  <2> QED BY <2>1, <2>2 DEF TypeInv, TypeOK, tables
<1>2. RequestsOK'
  <2> SUFFICES ASSUME NEW j \in Conns, tx'[j] # Idle PROVE RequestOK(tx[j])'
    BY DEF RequestsOK
  <2>1. tx'[j] = IF j = k THEN r ELSE tx[j]
    BY DEF TypeInv, TypeOK
  <2> QED BY <2>1 DEF TypeInv, RequestsOK, RequestOK, tables
<1>3. EventsOfCompaniesExist' /\ LockedEventsExist'
  BY DEF TypeInv, TypeOK, EventsOfCompaniesExist, LockedEventsExist, tables
<1> QED BY <1>1, <1>2, <1>3 DEF TypeInv

\* No row ever disappears, and the event of a company never changes.
RowsRemain ==
  /\ \A e \in Events : event[e] # None => event'[e] # None
  /\ \A c \in Companies : company[c] # None =>
       company'[c] # None /\ company'[c].event = company[c].event

\* Ending a transaction, with or without writing, keeps the types.
LEMMA ReleaseKeepsTypes ==
  ASSUME TypeInv, NEW k \in Conns, Release(k), UNCHANGED clock, TablesOK', RowsRemain
  PROVE  TypeInv'
<1>1. /\ tx' \in [Conns -> Request \cup {Idle}]
      /\ \A j \in Conns : tx'[j] = IF j = k THEN Idle ELSE tx[j]
  BY DEF TypeInv, TypeOK, Release
<1>2. /\ held' \in [Conns -> SUBSET Locks]
      /\ \A j \in Conns : held'[j] = IF j = k THEN {} ELSE held[j]
  BY DEF TypeInv, TypeOK, Release
<1>3. TypeOK'
  BY <1>1, <1>2 DEF TypeInv, TypeOK, TablesOK
<1>4. RequestsOK'
  <2> SUFFICES ASSUME NEW j \in Conns, tx'[j] # Idle PROVE RequestOK(tx[j])'
    BY DEF RequestsOK
  <2>1. tx'[j] = tx[j] /\ tx[j] # Idle
    BY <1>1
  <2>2. RequestOK(tx[j]) /\ tx[j] \in Request
    BY <2>1 DEF TypeInv, TypeOK, RequestsOK
  <2> QED BY <2>1, <2>2 DEF RequestOK, RowsRemain
<1>5. LockedEventsExist'
  BY <1>2 DEF TypeInv, LockedEventsExist, RowsRemain
<1> QED BY <1>3, <1>4, <1>5 DEF TypeInv, TablesOK

\* The members of a company are finitely many.
LEMMA MembersCount ==
  ASSUME TypeOK, NEW c \in Companies
  PROVE  IsFiniteSet(members[c]) /\ Cardinality(members[c]) \in Nat
<1>1. members[c] \subseteq Users /\ IsFiniteSet(Users)
  BY DatabaseAssumption DEF TypeOK
<1>2. IsFiniteSet(members[c])
  BY <1>1, FS_Subset
<1> QED BY <1>2, FS_CardinalityType

\* A call whose arguments suit its operation keeps the types.
LEMMA CallKeepsTypes ==
  ASSUME TypeInv, NEW k \in Conns, NEW op,
         NEW actor \in Users \cup {Admin}, NEW user \in Users \cup {None},
         NEW e \in Events \cup {None}, NEW c \in Companies \cup {None},
         NEW patch \in Drafts \cup Patches \cup EventForms \cup {None},
         op \in NamesEvent => e \in Events /\ event[e] # None,
         op \in CompanyOps =>
           c \in Companies /\ company[c] # None /\ company[c].event = e,
         op \in NamesUser => user \in Users,
         op = "createEvent" => actor \in Users /\ patch \in EventForms,
         op = "editEvent" => patch \in EventForms \cup {None},
         op = "createCompany" => patch \in Drafts,
         op = "update" => patch \in Patches,
         Call(k, op, actor, user, e, c, patch)
  PROVE  TypeInv'
<1> DEFINE count == IF op = "update" THEN Cardinality(members[c]) ELSE 0
           r == [op |-> op, step |-> FirstStep(op), actor |-> actor, user |-> user,
                 event |-> e, company |-> c, now |-> clock, count |-> count,
                 had |-> FALSE, patch |-> patch]
<1>1. op \in AllOps
  BY OpsAssumption DEF Call
<1>2. StepOK(op, FirstStep(op)) /\ FirstStep(op) \in Steps
  BY <1>1, FirstStepOK DEF StepOK
<1>3. count \in Nat
  BY MembersCount DEF TypeInv, CompanyOps, CompanyThenEvent
<1>4. clock \in Nat
  BY DatabaseAssumption DEF TypeInv, TypeOK
<1> HIDE DEF count
<1>5. r \in Request
  BY <1>1, <1>2, <1>3, <1>4 DEF Request
<1>6. RequestOK(r)
  BY <1>2 DEF RequestOK
<1>7. tx' = [tx EXCEPT ![k] = r] /\ UNCHANGED <<clock, tables, held>>
  BY DEF Call, count
<1>8. held' = [held EXCEPT ![k] = @ \cup {}]
  BY <1>7 DEF TypeInv, TypeOK
<1>9. {} \in SUBSET Locks /\ \A f \in Events : EventLock(f) \notin {}
  OBVIOUS
<1> HIDE DEF r
<1> QED BY <1>5, <1>6, <1>7, <1>8, <1>9, RunningKeepsTypes

-----------------------------------------------------------------------------
(* Types, one lemma per group of actions. *)

LEMMA InitTypes == Init => TypeInv
<1> SUFFICES ASSUME Init PROVE TypeInv
  OBVIOUS
<1>1. PICK form \in [Published -> {f \in EventForms : f.publishable}],
           creator \in [Published -> Users] :
        event = [e \in Events |->
          IF e \in Published
          THEN [status |-> "active", deleted |-> FALSE, form |-> form[e], creator |-> creator[e]]
          ELSE None]
  BY DEF Init
<1>2. event \in [Events -> EventRow \cup {None}]
  <2> SUFFICES ASSUME NEW e \in Published
               PROVE [status |-> "active", deleted |-> FALSE, form |-> form[e],
                      creator |-> creator[e]] \in EventRow
    BY <1>1
  <2> QED BY DatabaseAssumption DEF EventRow, EventStatuses
<1>3. TypeOK
  BY <1>2, DatabaseAssumption DEF Init, TypeOK, Accounts
<1>4. RequestsOK
  BY DEF Init, RequestsOK
<1>5. EventsOfCompaniesExist /\ LockedEventsExist
  BY DEF Init, EventsOfCompaniesExist, LockedEventsExist
<1> QED BY <1>3, <1>4, <1>5 DEF TypeInv

\* CallEvent and CallCompany name rows that exist.
LEMMA CallEventKeepsTypes ==
  ASSUME TypeInv, NEW k \in Conns, NEW op,
         NEW actor \in Users \cup {Admin}, NEW user \in Users \cup {None},
         NEW e \in Events, NEW patch \in Drafts \cup Patches \cup EventForms \cup {None},
         op \notin CompanyOps, op # "createEvent",
         op \in NamesUser => user \in Users,
         op = "editEvent" => patch \in EventForms \cup {None},
         op = "createCompany" => patch \in Drafts,
         CallEvent(k, op, actor, user, e, patch)
  PROVE  TypeInv'
<1>1. Call(k, op, actor, user, e, None, patch) /\ event[e] # None
  BY DEF CallEvent, EventLive
<1>2. op # "update"
  BY DEF CompanyOps, CompanyThenEvent
<1> QED BY <1>1, <1>2, CallKeepsTypes

LEMMA CallCompanyKeepsTypes ==
  ASSUME TypeInv, NEW k \in Conns, NEW op \in CompanyOps,
         NEW actor \in Users \cup {Admin}, NEW user \in Users \cup {None},
         NEW c \in Companies, NEW patch \in Patches \cup {None},
         op \in NamesUser => user \in Users,
         op = "update" => patch \in Patches,
         CallCompany(k, op, actor, user, c, patch)
  PROVE  TypeInv'
<1>1. Call(k, op, actor, user, company[c].event, c, patch) /\ company[c] # None
  BY DEF CallCompany, CompanyLive
<1>2. company[c].event \in Events /\ event[company[c].event] # None
  BY <1>1 DEF TypeInv, TypeOK, CompanyRow, EventsOfCompaniesExist
<1>3. op \notin {"createEvent", "editEvent", "createCompany"}
  BY DEF CompanyOps, CompanyThenEvent, EventThenCompany, CompanyOnly
<1> QED BY <1>1, <1>2, <1>3, CallKeepsTypes

LEMMA BeginKeepsTypes == ASSUME TypeInv, NEW k \in Conns, Begin(k) PROVE TypeInv'
<1> USE DEF NamesUser, Admissions, Resolutions, UserOps, CompanyOps, CompanyThenEvent,
        EventThenCompany, CompanyOnly
<1>1. CASE SoloRequest(k)
  BY <1>1, CallEventKeepsTypes DEF SoloRequest
<1>2. CASE MemberRequest(k)
  BY <1>2, CallCompanyKeepsTypes DEF MemberRequest
<1>3. CASE CreateCompanyRequest(k)
  BY <1>3, CallEventKeepsTypes DEF CreateCompanyRequest
<1>4. CASE OwnerRequest(k)
  BY <1>4, CallCompanyKeepsTypes DEF OwnerRequest
<1>5. CASE RecruitmentRequest(k)
  BY <1>5, CallCompanyKeepsTypes DEF RecruitmentRequest
<1>6. CASE UpdateCompanyRequest(k)
  BY <1>6, CallCompanyKeepsTypes DEF UpdateCompanyRequest
<1>7. CASE CreateEventRequest(k)
  BY <1>7, CallKeepsTypes DEF CreateEventRequest, NamesEvent
<1>8. CASE EditEventRequest(k)
  BY <1>8, CallEventKeepsTypes DEF EditEventRequest
<1>9. CASE DeleteEventRequest(k)
  BY <1>9, CallEventKeepsTypes DEF DeleteEventRequest
<1>10. CASE ModerationRequest(k)
  <2>1. CASE \E e \in Events, op \in {"approveEvent", "rejectEvent", "blockEvent"} :
               CallEvent(k, op, Admin, None, e, None)
    BY <2>1, CallEventKeepsTypes
  <2>2. CASE \E c \in Companies : CallCompany(k, "blockCompany", Admin, None, c, None)
    BY <2>2, CallCompanyKeepsTypes
  <2> QED BY <1>10, <2>1, <2>2 DEF ModerationRequest
<1>11. CASE StatusRequest(k)
  BY <1>11, CallKeepsTypes DEF StatusRequest, NamesEvent, EventOps
<1>12. CASE CompletionPass(k)
  BY <1>12, CallKeepsTypes DEF CompletionPass, NamesEvent, EventOps
<1> QED
  BY <1>1, <1>2, <1>3, <1>4, <1>5, <1>6, <1>7, <1>8, <1>9, <1>10, <1>11, <1>12 DEF Begin

\* The statements that lock rows and the check that precedes the writes: the tables stay, and
\* the transaction goes on with more locks.
LEMMA AdvanceKeepsTypes ==
  ASSUME TypeInv, NEW k \in Conns, tx[k] # Idle,
         NEW locks \in SUBSET Locks, NEW step, StepOK(tx[k].op, step),
         \A e \in Events : EventLock(e) \in locks => event[e] # None,
         Advance(k, locks, step)
  PROVE  TypeInv'
<1> DEFINE r == [tx[k] EXCEPT !.step = step]
<1>1. tx[k] \in Request /\ RequestOK(tx[k])
  BY DEF TypeInv, TypeOK, RequestsOK
<1>2. r \in Request /\ RequestOK(r)
  BY <1>1, StepOfRequest
<1>3. /\ tx' = [tx EXCEPT ![k] = r]
      /\ held' = [held EXCEPT ![k] = @ \cup locks]
      /\ UNCHANGED <<clock, tables>>
  BY DEF Advance
<1> HIDE DEF r
<1> QED BY <1>2, <1>3, RunningKeepsTypes

LEMMA AtIsRunning == ASSUME NEW k \in Conns, NEW step \in Steps, At(k, step) PROVE tx[k] # Idle
BY DEF At, Steps, Idle

\* An event's lock is no lock of another row.
LEMMA EventLocksApart ==
  ASSUME NEW e
  PROVE  /\ \A f : EventLock(e) = EventLock(f) => e = f
         /\ \A c : EventLock(e) # CompanyLock(c)
         /\ \A c, u : EventLock(e) # ApplicationLock(c, u)
         /\ \A f, u : EventLock(e) # ParticipantLock(f, u)
         /\ \A u : EventLock(e) # UserLock(u)
         /\ \A u, j : EventLock(e) # UserShare(u, j)
BY DEF EventLock, CompanyLock, ApplicationLock, ParticipantLock, UserLock, UserShare

\* The rows of the bulk UPDATEs: the live companies of a deleted event, and the pending
\* applications of a deleted event, of events that are due, of a blocked or deleted company.
LEMMA BulkRows ==
  ASSUME TypeInv, NEW k \in Conns, tx[k] # Idle, tx[k].op \in Cancellations,
         NEW l \in WriteLocks(tx[k], k)
  PROVE  \/ /\ tx[k].op = "deleteEvent"
            /\ \E c \in CompaniesOfEvent(tx[k].event) : CompanyLive(c) /\ l = CompanyLock(c)
         \/ \E c \in Companies, u \in Users :
              /\ l = ApplicationLock(c, u) /\ company[c] # None /\ application[c][u] = "pending"
              /\ tx[k].op = "deleteEvent" => c \in CompaniesOfEvent(tx[k].event)
              /\ tx[k].op = "completeDue" => EventLock(company[c].event) \in held[k]
              /\ tx[k].op \in {"blockCompany", "deleteCompany"} => c = tx[k].company
<1>1. \A cs \in SUBSET Companies : \A m \in PendingRows(cs) :
        \E c \in cs, u \in Users : m = ApplicationLock(c, u) /\ application[c][u] = "pending"
  BY DEF PendingRows, PendingOf
<1>2. CASE tx[k].op = "deleteEvent"
  <2> DEFINE cs == CompaniesOfEvent(tx[k].event)
  <2>1. cs \in SUBSET Companies /\ \A c \in cs : company[c] # None
    BY DEF CompaniesOfEvent
  <2>2. CASE l \in PendingRows(cs)
    BY <1>1, <1>2, <2>1, <2>2
  <2>3. CASE \E c \in cs : ~company[c].deleted /\ l = CompanyLock(c)
    BY <1>2, <2>1, <2>3 DEF CompanyLive
  <2> QED BY <1>2, <2>2, <2>3 DEF WriteLocks
<1>3. CASE tx[k].op = "completeDue"
  <2> DEFINE cs == {c \in Companies : company[c] # None /\ EventLock(company[c].event) \in held[k]}
  <2>1. l \in PendingRows(cs)
    BY <1>3 DEF WriteLocks
  <2> QED BY <1>1, <1>3, <2>1
<1>4. CASE tx[k].op \in {"blockCompany", "deleteCompany"}
  <2>1. tx[k].company \in Companies /\ company[tx[k].company] # None
    BY <1>4 DEF TypeInv, RequestsOK, RequestOK, CompanyOps, CompanyOnly
  <2>2. l \in PendingRows({tx[k].company})
    BY <1>4 DEF WriteLocks
  <2> QED BY <1>1, <1>4, <2>1, <2>2
<1> QED BY <1>2, <1>3, <1>4 DEF Cancellations

\* A bulk UPDATE locks one of its rows that nobody else has locked.
LEMMA LockRowTakesOne ==
  ASSUME TypeInv, NEW k \in Conns, LockRow(k)
  PROVE  \E l \in WriteLocks(tx[k], k) :
           /\ l \in Locks /\ \A e \in Events : l # EventLock(e)
           /\ \A c \in Companies : l = CompanyLock(c) => CompanyLive(c)
           /\ \A j \in Conns \ {k} : l \notin held[j]
           /\ l \in CompanyRows \/ WriteLocks(tx[k], k) \cap CompanyRows \subseteq held[k]
           /\ tx[k] # Idle /\ tx[k].op \in Cancellations /\ tx[k].step = "write"
           /\ held' = [held EXCEPT ![k] = @ \cup {l}]
           /\ UNCHANGED <<clock, tables, tx>>
<1>1. tx[k] # Idle /\ tx[k].op \in Cancellations
  BY DEF LockRow, Idle
<1>2. PICK l \in WriteLocks(tx[k], k) :
        /\ \A j \in Conns \ {k} : l \notin held[j]
        /\ l \in CompanyRows \/ WriteLocks(tx[k], k) \cap CompanyRows \subseteq held[k]
        /\ held' = [held EXCEPT ![k] = @ \cup {l}]
  BY DEF LockRow
<1>3. \/ \E c \in Companies : CompanyLive(c) /\ l = CompanyLock(c)
      \/ \E c \in Companies, u \in Users : l = ApplicationLock(c, u)
  BY <1>1, BulkRows DEF CompaniesOfEvent
<1>4. l \in Locks /\ \A e \in Events : l # EventLock(e)
  BY <1>3, EventLocksApart DEF Locks
<1>5. \A c \in Companies : l = CompanyLock(c) => CompanyLive(c)
  BY <1>3 DEF CompanyLock, ApplicationLock
<1> QED BY <1>1, <1>2, <1>4, <1>5 DEF LockRow

LEMMA LockRowKeepsTypes == ASSUME TypeInv, NEW k \in Conns, LockRow(k) PROVE TypeInv'
<1>1. PICK l \in Locks : /\ \A e \in Events : l # EventLock(e)
                         /\ held' = [held EXCEPT ![k] = @ \cup {l}]
                         /\ UNCHANGED <<clock, tables, tx>>
  BY LockRowTakesOne
<1>2. held' \in [Conns -> SUBSET Locks]
  BY <1>1 DEF TypeInv, TypeOK
<1>3. LockedEventsExist'
  BY <1>1 DEF TypeInv, TypeOK, LockedEventsExist, tables
<1> QED BY <1>1, <1>2, <1>3
  DEF TypeInv, TypeOK, EventsOfCompaniesExist, RequestsOK, RequestOK, tables

LEMMA LockKeepsTypes ==
  ASSUME TypeInv, NEW k \in Conns,
         LockEvent(k) \/ LockCompany(k) \/ LockApplication(k) \/ LockUser(k) \/ LockDue(k)
  PROVE  TypeInv'
<1> DEFINE r == tx[k]
<1>1. r # Idle
  BY AtIsRunning DEF LockEvent, LockCompany, LockApplication, LockUser, LockDue, Steps
<1>2. r \in Request /\ RequestOK(r) /\ r.op \in AllOps
  BY <1>1 DEF TypeInv, TypeOK, RequestsOK, RequestOK, StepOK
<1>3. \A step : StepOK(r.op, StepAfter(r.op, step)) /\ StepOK(r.op, "check")
                  /\ StepOK(r.op, "write")
  BY <1>2, StepAfterOK DEF StepOK, Steps
<1>4. CASE LockEvent(k)
  <2>1. r.event \in Events /\ event[r.event] # None
    BY <1>2, <1>4 DEF LockEvent, At, RequestOK, StepOK
  <2>2. {EventLock(r.event)} \in SUBSET Locks
    BY <2>1 DEF Locks
  <2>3. \A e \in Events : EventLock(e) \in {EventLock(r.event)} => event[e] # None
    BY <2>1, EventLocksApart
  <2> QED BY <1>1, <1>3, <1>4, <2>2, <2>3, AdvanceKeepsTypes DEF LockEvent
<1>5. CASE LockCompany(k)
  <2>1. r.company \in Companies
    BY <1>2, <1>5 DEF LockCompany, At, RequestOK, StepOK
  <2>2. {CompanyLock(r.company)} \in SUBSET Locks
    BY <2>1 DEF Locks
  <2>3. \A e \in Events : EventLock(e) \notin {CompanyLock(r.company)}
    BY EventLocksApart
  <2> QED BY <1>1, <1>3, <1>5, <2>2, <2>3, AdvanceKeepsTypes DEF LockCompany
<1>6. CASE LockApplication(k)
  <2>1. r.company \in Companies /\ r.user \in Users
    BY <1>2, <1>6 DEF LockApplication, At, RequestOK, StepOK
  <2>2. {ApplicationLock(r.company, r.user)} \in SUBSET Locks
    BY <2>1 DEF Locks
  <2>3. \A e \in Events : EventLock(e) \notin {ApplicationLock(r.company, r.user)}
    BY EventLocksApart
  <2> QED BY <1>1, <1>3, <1>6, <2>2, <2>3, AdvanceKeepsTypes DEF LockApplication
<1>7. CASE LockUser(k)
  <2>1. r.user \in Users
    BY <1>2, <1>7 DEF LockUser, At, RequestOK, StepOK
  <2>2. {UserLock(r.user)} \in SUBSET Locks
    BY <2>1 DEF Locks
  <2>3. \A e \in Events : EventLock(e) \notin {UserLock(r.user)}
    BY EventLocksApart
  <2> QED BY <1>1, <1>3, <1>7, <2>2, <2>3, AdvanceKeepsTypes DEF LockUser
<1>8. CASE LockDue(k)
  <2>1. PICK batch \in SUBSET Due(r.now) : Advance(k, {EventLock(e) : e \in batch}, "write")
    BY <1>8 DEF LockDue
  <2>2. \A e \in batch : e \in Events /\ event[e] # None
    BY <2>1 DEF Due, EventLive
  <2>3. {EventLock(e) : e \in batch} \in SUBSET Locks
    BY <2>2 DEF Locks
  <2>4. \A e \in Events : EventLock(e) \in {EventLock(f) : f \in batch} => event[e] # None
    BY <2>2, EventLocksApart
  <2> QED BY <1>1, <1>3, <2>1, <2>3, <2>4, AdvanceKeepsTypes
<1> QED BY <1>4, <1>5, <1>6, <1>7, <1>8

LEMMA CheckedLocksType ==
  ASSUME NEW k \in Conns, NEW r, RequestOK(r)
  PROVE  /\ CheckedLocks(r, k) \in SUBSET Locks
         /\ \A e \in Events : EventLock(e) \notin CheckedLocks(r, k)
<1> USE DEF RequestOK, NamesEvent, NamesUser, Admissions, CompanyOps, EventThenCompany, EventOps
<1>1. r.op \in Admissions => ParticipantLock(r.event, r.user) \in Locks
  BY DEF Locks
<1>2. r.op \in {"joinOpen", "apply"} => UserShare(r.user, k) \in Locks
  BY DEF Locks
<1> QED BY <1>1, <1>2, EventLocksApart DEF CheckedLocks

LEMMA CheckKeepsTypes == ASSUME TypeInv, NEW k \in Conns, Check(k) PROVE TypeInv'
<1> DEFINE old == tx[k]
           had == old.op \in Admissions /\ participant[old.event][old.user] # None
           r == [old EXCEPT !.step = "write", !.had = had]
<1>1. old \in Request /\ RequestOK(old)
  BY AtIsRunning DEF Check, Steps, TypeInv, TypeOK, RequestsOK
<1>2. had \in BOOLEAN
  OBVIOUS
<1>3. tx' = [tx EXCEPT ![k] = r] /\ UNCHANGED <<clock, tables>>
  BY DEF Check
<1> HIDE DEF had
<1>4. r \in Request
  BY <1>1, <1>2 DEF Request, Steps
<1>5. /\ r.op = old.op /\ r.step = "write" /\ r.event = old.event /\ r.company = old.company
      /\ r.user = old.user /\ r.actor = old.actor /\ r.patch = old.patch
  BY <1>1 DEF Request
<1>6. RequestOK(r)
  BY <1>1, <1>5 DEF RequestOK, StepOK, Steps
<1>7. held' = [held EXCEPT ![k] = @ \cup CheckedLocks(old, k)]
  BY DEF Check
<1> HIDE DEF r
<1> QED BY <1>1, <1>3, <1>4, <1>6, <1>7, CheckedLocksType, RunningKeepsTypes

LEMMA EndKeepsTypes ==
  ASSUME TypeInv, NEW k \in Conns, Refuse(k) \/ Fail(k) \/ AbortVictim(k) PROVE TypeInv'
<1>1. Release(k) /\ UNCHANGED <<clock, tables>>
  BY DEF Refuse, Fail, AbortVictim
<1>2. TablesOK' /\ RowsRemain
  BY <1>1 DEF TypeInv, TypeOK, TablesOK, EventsOfCompaniesExist, RowsRemain, tables
<1> QED BY <1>1, <1>2, ReleaseKeepsTypes

-----------------------------------------------------------------------------
(* Types of the writes. *)

\* A transaction about to write names rows that exist.
LEMMA WritingRequest ==
  ASSUME TypeInv, NEW k \in Conns, NEW op, Writing(k, op)
  PROVE  /\ tx[k] \in Request /\ RequestOK(tx[k]) /\ tx[k].op = op
         /\ Release(k) /\ UNCHANGED clock
<1>1. tx[k] # Idle
  BY DEF Writing, Idle
<1> QED BY <1>1 DEF Writing, TypeInv, TypeOK, RequestsOK

\* Applications are cancelled to the type they have.
LEMMA CancelledType ==
  ASSUME TypeOK, NEW cs
  PROVE  Cancelled(cs) \in [Companies -> [Users -> ApplicationStatuses \cup {None}]]
BY DEF TypeOK, Cancelled, ApplicationStatuses

LEMMA EventWritesKeepTypes ==
  ASSUME TypeInv, NEW k \in Conns,
         \/ CreateEvent(k) \/ EditEvent(k) \/ DeleteEvent(k)
         \/ ApproveEvent(k) \/ RejectEvent(k) \/ BlockEvent(k)
         \/ JoinSolo(k) \/ CancelSolo(k) \/ CompleteDue(k)
  PROVE  TypeInv' /\ RowsRemain
<1> DEFINE r == tx[k]
<1> USE DEF TypeInv, TypeOK, TablesOK, RowsRemain, EventsOfCompaniesExist
<1>1. CASE CreateEvent(k)
  <2>1. Writing(k, "createEvent")
    BY <1>1 DEF CreateEvent
  <2>2. r.actor \in Users /\ r.patch \in EventForm
    BY <2>1, WritingRequest, DatabaseAssumption DEF RequestOK
  <2>3. [status |-> "pending", deleted |-> FALSE, form |-> r.patch, creator |-> r.actor]
          \in EventRow
    BY <2>2 DEF EventRow, EventStatuses
  <2>4. TablesOK' /\ RowsRemain
    BY <1>1, <2>3 DEF CreateEvent
  <2> QED BY <2>1, <2>4, WritingRequest, ReleaseKeepsTypes
<1>2. CASE EditEvent(k)
  <2> DEFINE row == event[r.event]
             new == [row EXCEPT !.form = NewForm(r),
                                !.status = IF r.actor = Admin THEN row.status ELSE "pending"]
  <2>1. Writing(k, "editEvent")
    BY <1>2 DEF EditEvent
  <2>2. r.event \in Events /\ row \in EventRow /\ r.patch \in EventForms \cup {None}
    BY <2>1, WritingRequest DEF RequestOK, NamesEvent, EventOps
  <2>3. NewForm(r) \in EventForm
    BY <2>2, DatabaseAssumption DEF NewForm, EventRow
  <2>4. new \in EventRow
    BY <2>2, <2>3 DEF EventRow, EventStatuses
  <2>5. event' = [event EXCEPT ![r.event] = new]
    BY <1>2 DEF EditEvent
  <2> HIDE DEF new
  <2>6. new # None
    BY <2>4, NullAssumption
  <2>7. TablesOK' /\ RowsRemain
    BY <1>2, <2>2, <2>4, <2>5, <2>6 DEF EditEvent
  <2> QED BY <2>1, <2>7, WritingRequest, ReleaseKeepsTypes
<1>3. CASE DeleteEvent(k)
  <2> DEFINE e == r.event
             block(c) == [company[c] EXCEPT !.status = "blocked"]
  <2>1. Writing(k, "deleteEvent")
    BY <1>3 DEF DeleteEvent
  <2>2. e \in Events /\ event[e] \in EventRow
    BY <2>1, WritingRequest DEF RequestOK, NamesEvent, EventOps
  <2>3. Tombstone(event[e]) \in EventRow /\ Tombstone(event[e]) # None
    BY <2>2, NullAssumption DEF Tombstone, EventRow, EventStatuses
  <2>4. \A c \in Companies : company[c] \in CompanyRow =>
          block(c) \in CompanyRow /\ block(c) # None /\ block(c).event = company[c].event
    BY NullAssumption DEF CompanyRow, CompanyStatuses
  <2> HIDE DEF block
  <2>5. /\ event' = [event EXCEPT ![e] = Tombstone(event[e])]
        /\ company' = [c \in Companies |->
             IF c \in CompaniesOfEvent(e) /\ ~company[c].deleted THEN block(c) ELSE company[c]]
        /\ application' = Cancelled(CompaniesOfEvent(e))
        /\ participant' = ParticipationRemoved(e)
        /\ UNCHANGED <<account, members>>
    BY <1>3 DEF DeleteEvent, block
  <2>6. participant' \in [Events -> [Users -> Companies \cup {None, Solo}]]
    BY <2>5 DEF ParticipationRemoved
  <2>7. /\ company' \in [Companies -> CompanyRow \cup {None}]
        /\ \A c \in Companies : /\ company[c] = None => company'[c] = None
                                /\ company[c] # None =>
                                     company'[c] # None /\ company'[c].event = company[c].event
    BY <2>4, <2>5 DEF CompaniesOfEvent
  <2>8. /\ event' \in [Events -> EventRow \cup {None}]
        /\ \A f \in Events : event[f] # None => event'[f] # None
    BY <2>2, <2>3, <2>5
  <2>9. EventsOfCompaniesExist'
    BY <2>7, <2>8 DEF CompanyRow
  <2>10. TablesOK' /\ RowsRemain
    BY <2>5, <2>6, <2>7, <2>8, <2>9, CancelledType
  <2> QED BY <2>1, <2>10, WritingRequest, ReleaseKeepsTypes
<1>4. ASSUME NEW op \in {"approveEvent", "rejectEvent", "blockEvent"},
             NEW status \in EventStatuses, Moderate(k, op, status)
      PROVE TypeInv' /\ RowsRemain
  <2> DEFINE new == [event[r.event] EXCEPT !.status = status]
  <2>1. Writing(k, op)
    BY <1>4 DEF Moderate
  <2>2. r.event \in Events /\ event[r.event] \in EventRow
    BY <2>1, WritingRequest DEF RequestOK, NamesEvent, EventOps
  <2>3. new \in EventRow /\ new # None
    BY <2>2, NullAssumption DEF EventRow
  <2>4. event' = [event EXCEPT ![r.event] = new]
          /\ UNCHANGED <<account, company, members, participant, application>>
    BY <1>4 DEF Moderate
  <2> HIDE DEF new
  <2>5. /\ event' \in [Events -> EventRow \cup {None}]
        /\ \A f \in Events : event[f] # None => event'[f] # None
    BY <2>2, <2>3, <2>4
  <2>6. TablesOK' /\ RowsRemain
    BY <2>4, <2>5 DEF CompanyRow
  <2> QED BY <2>1, <2>6, WritingRequest, ReleaseKeepsTypes
<1>5. CASE ApproveEvent(k) \/ RejectEvent(k) \/ BlockEvent(k)
  BY <1>4, <1>5 DEF ApproveEvent, RejectEvent, BlockEvent, EventStatuses
<1>6. CASE JoinSolo(k) \/ CancelSolo(k)
  <2>1. PICK op \in {"joinSolo", "cancelSolo"} : Writing(k, op)
    BY <1>6 DEF JoinSolo, CancelSolo
  <2>2. r.event \in Events /\ r.user \in Users
    BY <2>1, WritingRequest DEF RequestOK, NamesEvent, NamesUser, EventOps
  <2>3. /\ UNCHANGED <<account, event, company, members, application>>
        /\ \E p \in {None, Solo} :
             participant' = [participant EXCEPT ![r.event][r.user] = p]
    BY <1>6 DEF JoinSolo, CancelSolo
  <2>4. participant' \in [Events -> [Users -> Companies \cup {None, Solo}]]
    BY <2>2, <2>3
  <2>5. TablesOK' /\ RowsRemain
    BY <2>3, <2>4
  <2> QED BY <2>1, <2>5, WritingRequest, ReleaseKeepsTypes
<1>7. CASE CompleteDue(k)
  <2> DEFINE done == {e \in Events : EventLock(e) \in held[k]}
             new(e) == [event[e] EXCEPT !.status = "completed"]
  <2>1. Writing(k, "completeDue")
    BY <1>7 DEF CompleteDue
  <2>2. \A e \in done : event[e] \in EventRow
    BY DEF LockedEventsExist
  <2>3. \A e \in done : new(e) \in EventRow /\ new(e) # None
    BY <2>2, NullAssumption DEF EventRow, EventStatuses
  <2>4. event' = [e \in Events |-> IF e \in done THEN new(e) ELSE event[e]]
    BY <1>7 DEF CompleteDue
  <2>5. application' = Cancelled(UNION {CompaniesOfEvent(e) : e \in done})
          /\ UNCHANGED <<account, company, members, participant>>
    BY <1>7 DEF CompleteDue
  <2> HIDE DEF done, new
  <2>6. /\ event' \in [Events -> EventRow \cup {None}]
        /\ \A f \in Events : event[f] # None => event'[f] # None
    BY <2>3, <2>4
  <2>7. TablesOK' /\ RowsRemain
    BY <2>5, <2>6, CancelledType DEF CompanyRow
  <2> QED BY <2>1, <2>7, WritingRequest, ReleaseKeepsTypes
<1> QED BY <1>1, <1>2, <1>3, <1>5, <1>6, <1>7

\* The effect of Admit and Expel on types.
LEMMA MembershipTypes ==
  ASSUME TypeOK, NEW r, NEW c \in Companies, r.event \in Events, r.user \in Users,
         Admit(r, c) \/ (c = r.company /\ Expel(r))
  PROVE  /\ members' \in [Companies -> SUBSET Users]
         /\ participant' \in [Events -> [Users -> Companies \cup {None, Solo}]]
<1>1. \E ms \in SUBSET Users : members' = [members EXCEPT ![c] = ms]
  BY DEF Admit, Expel, TypeOK
<1>2. \E p \in Companies \cup {None, Solo} :
        participant' = [participant EXCEPT ![r.event][r.user] = p]
  <2> DEFINE old == participant[r.event][r.user]
  <2>1. old \in Companies \cup {None, Solo}
    BY DEF TypeOK
  <2>2. CASE Admit(r, c)
    BY <2>2 DEF Admit
  <2>3. CASE c = r.company /\ Expel(r)
    <3>1. participant' = [participant EXCEPT ![r.event] =
             [participant[r.event] EXCEPT ![r.user] = IF old = r.company THEN None ELSE old]]
      BY <2>3 DEF Expel
    <3> QED BY <2>1, <3>1
  <2> QED BY <2>2, <2>3
<1> QED BY <1>1, <1>2 DEF TypeOK

\* One company row is rewritten: its event stays.
LEMMA CompanyRowWritten ==
  ASSUME TypeInv, NEW c \in Companies, NEW new \in CompanyRow, company[c] # None,
         new.event = company[c].event, company' = [company EXCEPT ![c] = new],
         UNCHANGED <<account, event, members>>,
         participant' \in [Events -> [Users -> Companies \cup {None, Solo}]],
         application' \in [Companies -> [Users -> ApplicationStatuses \cup {None}]]
  PROVE  TablesOK' /\ RowsRemain
<1>1. new # None
  BY NullAssumption
<1> QED BY <1>1 DEF TypeInv, TypeOK, TablesOK, RowsRemain, EventsOfCompaniesExist

LEMMA NewCompanyType ==
  ASSUME NEW r, RequestOK(r), r.op = "createCompany"
  PROVE  /\ r.user \in Users
         /\ NewCompany(r) \in CompanyRow /\ NewCompany(r) # None
         /\ NewCompany(r).event = r.event
<1>1. r.event \in Events /\ r.user \in Users /\ r.patch \in Draft
  BY DatabaseAssumption DEF RequestOK, NamesEvent, NamesUser, EventOps, Admissions
<1>2. r.patch.max \in Sizes /\ r.patch.join \in JoinTypes /\ r.patch.minAge \in Nat
  BY <1>1 DEF Draft
<1>3. NewCompany(r) \in CompanyRow /\ NewCompany(r).event = r.event
  BY <1>1, <1>2 DEF NewCompany, CompanyRow, CompanyStatuses
<1> QED BY <1>1, <1>3, NullAssumption

LEMMA CompanyWritesKeepTypes ==
  ASSUME TypeInv, NEW k \in Conns,
         \/ CreateCompany(k) \/ JoinOpen(k) \/ Leave(k) \/ RemoveMember(k)
         \/ Update(k) \/ Open(k) \/ Close(k) \/ DeleteCompany(k) \/ BlockCompany(k)
  PROVE  TypeInv' /\ RowsRemain
<1> DEFINE r == tx[k]
           row == company[r.company]
<1> USE DEF TypeInv, TypeOK
<1>1. CASE CreateCompany(k)
  <2>1. Writing(k, "createCompany")
    BY <1>1 DEF CreateCompany
  <2>2. /\ r.event \in Events /\ r.user \in Users /\ event[r.event] # None
        /\ NewCompany(r) \in CompanyRow /\ NewCompany(r) # None
        /\ NewCompany(r).event = r.event
    BY <2>1, WritingRequest, NewCompanyType DEF RequestOK, NamesEvent, EventOps
  <2>3. PICK c \in Companies :
          /\ company[c] = None
          /\ company' = [company EXCEPT ![c] = NewCompany(r)]
          /\ Admit(r, c)
          /\ UNCHANGED <<account, event, application>>
    BY <1>1 DEF CreateCompany
  <2>4. TablesOK' /\ RowsRemain
    BY <2>2, <2>3, MembershipTypes DEF TablesOK, RowsRemain, EventsOfCompaniesExist
  <2> QED BY <2>1, <2>4, WritingRequest, ReleaseKeepsTypes
<1>2. CASE JoinOpen(k) \/ Leave(k) \/ RemoveMember(k)
  <2>1. PICK op \in {"joinOpen", "leave", "removeMember"} : Writing(k, op)
    BY <1>2 DEF JoinOpen, Leave, RemoveMember
  <2>2. r.event \in Events /\ r.user \in Users /\ r.company \in Companies
    BY <2>1, WritingRequest
       DEF RequestOK, NamesEvent, NamesUser, CompanyOps, EventThenCompany, Admissions
  <2>3. /\ UNCHANGED <<account, event, company, application>>
        /\ Admit(r, r.company) \/ Expel(r)
    BY <1>2 DEF JoinOpen, Leave, RemoveMember
  <2>4. TablesOK' /\ RowsRemain
    BY <2>2, <2>3, MembershipTypes DEF TablesOK, RowsRemain, EventsOfCompaniesExist
  <2> QED BY <2>1, <2>4, WritingRequest, ReleaseKeepsTypes
<1>3. ASSUME NEW op \in CompanyThenEvent \cup CompanyOnly, Writing(k, op)
      PROVE r.company \in Companies /\ row \in CompanyRow /\ row # None
  BY <1>3, WritingRequest DEF RequestOK, CompanyOps
<1>4. CASE Update(k)
  <2>1. Writing(k, "update")
    BY <1>4 DEF Update
  <2>2. r.company \in Companies /\ row \in CompanyRow /\ row # None
    BY <1>3, <2>1 DEF CompanyThenEvent
  <2>3. r.patch \in Patch
    BY <2>1, WritingRequest, DatabaseAssumption DEF RequestOK
  <2> DEFINE max == Patched(r.patch.max, row.max)
             join == Patched(r.patch.join, row.join)
             minAge == Patched(r.patch.minAge, row.minAge)
             new == [row EXCEPT !.max = max, !.join = join, !.minAge = minAge]
  <2>4. max \in Sizes /\ join \in JoinTypes /\ minAge \in Nat
    BY <2>2, <2>3 DEF Patched, Patch, CompanyRow
  <2>5. /\ company' = [company EXCEPT ![r.company] = new]
        /\ UNCHANGED <<account, event, members, participant, application>>
    BY <1>4 DEF Update
  <2> HIDE DEF max, join, minAge
  <2>6. new \in CompanyRow /\ new.event = row.event
    BY <2>2, <2>4 DEF CompanyRow
  <2> HIDE DEF new
  <2>7. TablesOK' /\ RowsRemain
    BY <2>2, <2>5, <2>6, CompanyRowWritten
  <2> QED BY <2>1, <2>7, WritingRequest, ReleaseKeepsTypes
<1>5. ASSUME NEW op \in {"open", "close"}, NEW status \in CompanyStatuses,
             SetRecruitment(k, op, status)
      PROVE TypeInv' /\ RowsRemain
  <2> DEFINE new == [row EXCEPT !.status = status]
  <2>1. Writing(k, op)
    BY <1>5 DEF SetRecruitment
  <2>2. r.company \in Companies /\ row \in CompanyRow /\ row # None
    BY <1>3, <2>1 DEF CompanyThenEvent
  <2>3. new \in CompanyRow /\ new.event = row.event
    BY <2>2 DEF CompanyRow
  <2>4. /\ company' = [company EXCEPT ![r.company] = new]
        /\ UNCHANGED <<account, event, members, participant, application>>
    BY <1>5 DEF SetRecruitment
  <2> HIDE DEF new
  <2>5. TablesOK' /\ RowsRemain
    BY <2>2, <2>3, <2>4, CompanyRowWritten
  <2> QED BY <2>1, <2>5, WritingRequest, ReleaseKeepsTypes
<1>6. CASE Open(k) \/ Close(k)
  BY <1>5, <1>6 DEF Open, Close, CompanyStatuses
<1>7. CASE DeleteCompany(k)
  <2> DEFINE new == [row EXCEPT !.deleted = TRUE]
  <2>1. Writing(k, "deleteCompany")
    BY <1>7 DEF DeleteCompany
  <2>2. r.company \in Companies /\ row \in CompanyRow /\ row # None
    BY <1>3, <2>1 DEF CompanyOnly
  <2>3. new \in CompanyRow /\ new.event = row.event
    BY <2>2 DEF CompanyRow
  <2>4. /\ company' = [company EXCEPT ![r.company] = new]
        /\ application' = Cancelled({r.company})
        /\ participant' = CompanyParticipationRemoved(r.company)
        /\ UNCHANGED <<account, event, members>>
    BY <1>7 DEF DeleteCompany
  <2>5. participant' \in [Events -> [Users -> Companies \cup {None, Solo}]]
    BY <2>4 DEF CompanyParticipationRemoved
  <2> HIDE DEF new
  <2>6. TablesOK' /\ RowsRemain
    BY <2>2, <2>3, <2>4, <2>5, CancelledType, CompanyRowWritten
  <2> QED BY <2>1, <2>6, WritingRequest, ReleaseKeepsTypes
<1>8. CASE BlockCompany(k)
  <2> DEFINE new == [row EXCEPT !.status = "blocked"]
  <2>1. Writing(k, "blockCompany")
    BY <1>8 DEF BlockCompany
  <2>2. r.company \in Companies /\ row \in CompanyRow /\ row # None
    BY <1>3, <2>1 DEF CompanyOnly
  <2>3. new \in CompanyRow /\ new.event = row.event
    BY <2>2 DEF CompanyRow, CompanyStatuses
  <2>4. /\ company' = [company EXCEPT ![r.company] = new]
        /\ application' = Cancelled({r.company})
        /\ UNCHANGED <<account, event, members, participant>>
    BY <1>8 DEF BlockCompany
  <2> HIDE DEF new
  <2>5. TablesOK' /\ RowsRemain
    BY <2>2, <2>3, <2>4, CancelledType, CompanyRowWritten
  <2> QED BY <2>1, <2>5, WritingRequest, ReleaseKeepsTypes
<1> QED BY <1>1, <1>2, <1>4, <1>6, <1>7, <1>8

LEMMA ApplicationWritesKeepTypes ==
  ASSUME TypeInv, NEW k \in Conns,
         Apply(k) \/ CancelApplication(k) \/ Approve(k) \/ Reject(k)
  PROVE  TypeInv'
<1> DEFINE r == tx[k]
<1> USE DEF TypeInv, TypeOK
<1>1. PICK op \in {"apply", "cancelApplication", "approve", "reject"} : Writing(k, op)
  BY DEF Apply, CancelApplication, Approve, Reject
<1>2. r.event \in Events /\ r.user \in Users /\ r.company \in Companies
  BY <1>1, WritingRequest
     DEF RequestOK, NamesEvent, NamesUser, CompanyOps, EventThenCompany, CompanyOnly, Admissions
<1>3. /\ UNCHANGED <<account, event, company>>
      /\ \E status \in ApplicationStatuses : Resolve(r, status)
      /\ Admit(r, r.company) \/ UNCHANGED <<members, participant>>
  BY DEF Apply, CancelApplication, Approve, Reject, ApplicationStatuses
<1>4. application' \in [Companies -> [Users -> ApplicationStatuses \cup {None}]]
  BY <1>2, <1>3 DEF Resolve
<1>5. /\ members' \in [Companies -> SUBSET Users]
      /\ participant' \in [Events -> [Users -> Companies \cup {None, Solo}]]
  BY <1>2, <1>3, MembershipTypes
<1>6. TablesOK' /\ RowsRemain
  BY <1>3, <1>4, <1>5 DEF TablesOK, RowsRemain, EventsOfCompaniesExist
<1> QED BY <1>1, <1>6, WritingRequest, ReleaseKeepsTypes

LEMMA StatusWriteKeepsTypes ==
  ASSUME TypeInv, NEW k \in Conns, NEW op \in UserOps, NEW status \in Accounts,
         SetUserStatus(k, op, status)
  PROVE  TypeInv'
<1>1. Writing(k, op)
  BY DEF SetUserStatus
<1>2. TablesOK' /\ RowsRemain
  BY DEF SetUserStatus, TypeInv, TypeOK, TablesOK, RowsRemain, EventsOfCompaniesExist
<1> QED BY <1>1, <1>2, WritingRequest, ReleaseKeepsTypes

-----------------------------------------------------------------------------

LEMMA StepKeepsTypes == TypeInv /\ [Next]_vars => TypeInv'
<1> SUFFICES ASSUME TypeInv, [Next]_vars PROVE TypeInv'
  OBVIOUS
<1>1. CASE UNCHANGED vars
  BY <1>1 DEF TypeInv, TypeOK, EventsOfCompaniesExist, RequestsOK, RequestOK,
     LockedEventsExist, vars, tables
<1>2. CASE Tick
  BY <1>2, DatabaseAssumption
     DEF Tick, TypeInv, TypeOK, EventsOfCompaniesExist, RequestsOK, RequestOK,
     LockedEventsExist, tables
<1>3. ASSUME NEW k \in Conns, Begin(k) PROVE TypeInv'
  BY <1>3, BeginKeepsTypes
<1>4. ASSUME NEW k \in Conns, Progress(k) PROVE TypeInv'
  <2>1. CASE Commit(k)
    BY <2>1, EventWritesKeepTypes, CompanyWritesKeepTypes, ApplicationWritesKeepTypes,
       StatusWriteKeepsTypes DEF Commit, UserOps, Accounts
  <2> QED BY <1>4, <2>1, LockKeepsTypes, LockRowKeepsTypes, CheckKeepsTypes, EndKeepsTypes
     DEF Progress
<1>5. ASSUME NEW k \in Conns, Fail(k) \/ AbortVictim(k) PROVE TypeInv'
  BY <1>5, EndKeepsTypes
<1> QED BY <1>1, <1>2, <1>3, <1>4, <1>5 DEF Next

\* Every reachable state has the types that the tables and the Go structures give it, and a
\* transaction only ever names rows that exist (every handler of companies and events).
THEOREM TypeCorrect == Spec => []TypeOK
<1>1. TypeInv => TypeOK
  BY DEF TypeInv
<1> QED BY <1>1, InitTypes, StepKeepsTypes, PTL DEF Spec

-----------------------------------------------------------------------------
(* One company per event: the invariant. *)

\* Operations that hold the lock of their event from their first statement on.
LocksEvent == EventThenCompany \cup (EventOps \ {"createEvent"})

EventLocksExclude ==
  \A j, k \in Conns, e \in Events :
    EventLock(e) \in held[j] /\ EventLock(e) \in held[k] => j = k

EventIsLocked ==
  \A k \in Conns :
    tx[k] # Idle /\ tx[k].op \in LocksEvent /\ tx[k].step # "event" =>
      EventLock(tx[k].event) \in held[k]

LockInv == EventLocksExclude /\ EventIsLocked

\* What an admission has checked stays true until it is written.
AdmissionChecked ==
  \A k \in Conns :
    tx[k] # Idle /\ tx[k].op \in Admissions /\ tx[k].step = "write" =>
      CompaniesOf(tx[k].user, tx[k].event) = {}

UnbornIsEmpty == \A c \in Companies : company[c] = None => members[c] = {}

AdmissionInv ==
  TypeInv /\ LockInv /\ AdmissionChecked /\ UnbornIsEmpty /\ OneCompanyPerEvent

-----------------------------------------------------------------------------
(* Locks. *)

\* A transaction that goes on, or begins, keeps the lock invariant when its new locks are free.
LEMMA RunningKeepsLocks ==
  ASSUME TypeInv, LockInv, NEW k \in Conns, NEW r \in Request,
         NEW locks \in SUBSET Locks,
         \A j \in Conns \ {k}, e \in Events : EventLock(e) \in locks => EventLock(e) \notin held[j],
         r.op \in LocksEvent /\ r.step # "event" => EventLock(r.event) \in held[k] \cup locks,
         tx' = [tx EXCEPT ![k] = r],
         held' = [held EXCEPT ![k] = @ \cup locks]
  PROVE  LockInv'
<1>1. \A j \in Conns : /\ tx'[j] = IF j = k THEN r ELSE tx[j]
                       /\ held'[j] = IF j = k THEN held[k] \cup locks ELSE held[j]
  BY DEF TypeInv, TypeOK
<1>2. EventLocksExclude'
  BY <1>1 DEF LockInv, EventLocksExclude
<1>3. EventIsLocked'
  BY <1>1 DEF LockInv, EventIsLocked
<1> QED BY <1>2, <1>3 DEF LockInv

LEMMA ReleaseKeepsLocks ==
  ASSUME TypeInv, LockInv, NEW k \in Conns, Release(k) PROVE LockInv'
<1>1. \A j \in Conns : /\ tx'[j] = IF j = k THEN Idle ELSE tx[j]
                       /\ held'[j] = IF j = k THEN {} ELSE held[j]
  BY DEF TypeInv, TypeOK, Release
<1>2. EventLocksExclude'
  BY <1>1 DEF LockInv, EventLocksExclude
<1>3. EventIsLocked'
  BY <1>1 DEF LockInv, EventIsLocked
<1> QED BY <1>2, <1>3 DEF LockInv

\* Every request is a call: a transaction starts at the first step of its operation.
LEMMA BeginIsCall ==
  ASSUME NEW k \in Conns, Begin(k)
  PROVE  /\ tx[k] = Idle
         /\ UNCHANGED <<clock, tables, held>>
         /\ \E r : /\ r.op \in Ops /\ r.op \in AllOps /\ r.step = FirstStep(r.op)
                   /\ tx' = [tx EXCEPT ![k] = r]
<1>1. ASSUME NEW op, NEW actor, NEW user, NEW e, NEW c, NEW patch,
             Call(k, op, actor, user, e, c, patch)
      PROVE  /\ tx[k] = Idle
             /\ UNCHANGED <<clock, tables, held>>
             /\ \E r : /\ r.op \in Ops /\ r.op \in AllOps /\ r.step = FirstStep(r.op)
                       /\ tx' = [tx EXCEPT ![k] = r]
  <2> DEFINE r == [op |-> op, step |-> FirstStep(op), actor |-> actor, user |-> user,
                   event |-> e, company |-> c, now |-> clock,
                   count |-> IF op = "update" THEN Cardinality(members[c]) ELSE 0,
                   had |-> FALSE, patch |-> patch]
  <2>1. tx' = [tx EXCEPT ![k] = r] /\ tx[k] = Idle /\ UNCHANGED <<clock, tables, held>>
    BY <1>1 DEF Call
  <2>2. r.op = op /\ r.step = FirstStep(op) /\ op \in Ops /\ op \in AllOps
    BY <1>1, OpsAssumption DEF Call
  <2> HIDE DEF r
  <2> QED BY <2>1, <2>2
<1>2. \E op, actor, user, e, c, patch : Call(k, op, actor, user, e, c, patch)
  <2>1. CASE SoloRequest(k) \/ MemberRequest(k) \/ CreateCompanyRequest(k) \/ OwnerRequest(k)
    BY <2>1 DEF SoloRequest, MemberRequest, CreateCompanyRequest, OwnerRequest,
       CallEvent, CallCompany
  <2>2. CASE RecruitmentRequest(k) \/ UpdateCompanyRequest(k) \/ CreateEventRequest(k)
               \/ EditEventRequest(k) \/ DeleteEventRequest(k)
    BY <2>2 DEF RecruitmentRequest, UpdateCompanyRequest, CreateEventRequest,
       EditEventRequest, DeleteEventRequest, CallEvent, CallCompany
  <2>3. CASE ModerationRequest(k) \/ StatusRequest(k) \/ CompletionPass(k)
    BY <2>3 DEF ModerationRequest, StatusRequest, CompletionPass, CallEvent, CallCompany
  <2> QED BY <2>1, <2>2, <2>3 DEF Begin
<1> QED BY <1>1, <1>2

\* Operations that lock their event do so first.
LEMMA EventFirst == \A op \in LocksEvent : FirstStep(op) = "event"
BY DEF FirstStep, LocksEvent, EventThenCompany, EventOps, CompanyThenEvent, CompanyOnly, UserOps

LEMMA AdmissionsLockEvent == Admissions \subseteq LocksEvent
BY DEF Admissions, LocksEvent, EventThenCompany, EventOps

\* The request a step leaves on a connection is well typed.
LEMMA NextRequest ==
  ASSUME TypeInv, TypeInv', NEW k \in Conns, NEW r, tx' = [tx EXCEPT ![k] = r], r # Idle
  PROVE  r \in Request
BY DEF TypeInv, TypeOK

LEMMA BeginKeepsLocks ==
  ASSUME TypeInv, TypeInv', LockInv, NEW k \in Conns, Begin(k) PROVE LockInv'
<1>1. PICK r : /\ r.op \in AllOps /\ r.step = FirstStep(r.op)
               /\ tx' = [tx EXCEPT ![k] = r]
  BY BeginIsCall
<1>2. r # Idle
  BY <1>1, FirstStepOK DEF StepOK, Steps, Idle
<1>3. r \in Request
  BY <1>1, <1>2, NextRequest
<1>4. held' = [held EXCEPT ![k] = @ \cup {}]
  BY BeginIsCall DEF TypeInv, TypeOK
<1>5. r.op \in LocksEvent => r.step = "event"
  BY <1>1, EventFirst
<1>6. {} \in SUBSET Locks
  OBVIOUS
<1> QED BY <1>1, <1>3, <1>4, <1>5, <1>6, RunningKeepsLocks

\* A statement that locks the event, when no other connection holds it, or none.
LEMMA AdvanceKeepsLocks ==
  ASSUME TypeInv, LockInv, NEW k \in Conns, tx[k] # Idle, NEW locks \in SUBSET Locks, NEW step \in Steps,
         \A j \in Conns \ {k}, e \in Events : EventLock(e) \in locks => EventLock(e) \notin held[j],
         tx[k].step = "event" => EventLock(tx[k].event) \in locks,
         Advance(k, locks, step)
  PROVE  LockInv'
<1> DEFINE r == [tx[k] EXCEPT !.step = step]
<1>1. tx[k] \in Request
  BY DEF TypeInv, TypeOK
<1>2. r \in Request /\ r.op = tx[k].op /\ r.event = tx[k].event
  BY <1>1 DEF Request
<1>3. /\ tx' = [tx EXCEPT ![k] = r]
      /\ held' = [held EXCEPT ![k] = @ \cup locks]
  BY DEF Advance
<1> HIDE DEF r
<1>4. r.op \in LocksEvent => EventLock(r.event) \in held[k] \cup locks
  BY <1>2 DEF LockInv, EventIsLocked
<1> QED BY <1>2, <1>3, <1>4, RunningKeepsLocks

\* A step waits while another connection holds a lock it needs.
LEMMA NeededAreFree ==
  ASSUME NEW k \in Conns, tx[k] # Idle, Blockers(k) = {}
  PROVE  \A j \in Conns \ {k}, l \in NeededLocks(tx[k], k) : l \notin held[j]
BY DEF Blockers

LEMMA LockKeepsLocks ==
  ASSUME TypeInv, LockInv, NEW k \in Conns,
         LockEvent(k) \/ LockCompany(k) \/ LockApplication(k) \/ LockUser(k) \/ LockDue(k)
  PROVE  LockInv'
<1> DEFINE r == tx[k]
<1>1. r # Idle
  BY AtIsRunning DEF LockEvent, LockCompany, LockApplication, LockUser, LockDue, Steps
<1>2. r \in Request /\ RequestOK(r) /\ r.op \in AllOps
  BY <1>1 DEF TypeInv, TypeOK, RequestsOK, RequestOK, StepOK
<1>3. \A step : StepAfter(r.op, step) \in Steps
  BY <1>2, StepAfterOK DEF StepOK
<1>4. CASE LockEvent(k)
  <2> DEFINE locks == {EventLock(r.event)}
  <2>1. r.event \in Events /\ r.step = "event" /\ Blockers(k) = {}
    BY <1>2, <1>4 DEF LockEvent, At, RequestOK, StepOK
  <2>2. locks \in SUBSET Locks
    BY <2>1 DEF Locks
  <2>3. NeededLocks(r, k) = locks
    BY <2>1 DEF NeededLocks
  <2>4. \A j \in Conns \ {k}, e \in Events : EventLock(e) \in locks => EventLock(e) \notin held[j]
    BY <1>1, <2>1, <2>3, NeededAreFree
  <2> QED BY <1>1, <1>3, <1>4, <2>2, <2>4, AdvanceKeepsLocks DEF LockEvent
<1>5. ASSUME NEW locks \in SUBSET Locks, NEW step \in Steps, r.step # "event",
             \A e \in Events : EventLock(e) \notin locks, Advance(k, locks, step)
      PROVE  LockInv'
  BY <1>1, <1>5, AdvanceKeepsLocks
<1>6. CASE LockCompany(k)
  <2>1. r.company \in Companies /\ r.step # "event"
    BY <1>2, <1>6 DEF LockCompany, At, RequestOK, StepOK
  <2>2. /\ {CompanyLock(r.company)} \in SUBSET Locks
        /\ \A e \in Events : EventLock(e) \notin {CompanyLock(r.company)}
    BY <2>1, EventLocksApart DEF Locks
  <2> QED BY <1>3, <1>5, <1>6, <2>1, <2>2 DEF LockCompany
<1>7. CASE LockApplication(k)
  <2>1. r.company \in Companies /\ r.user \in Users /\ r.step # "event"
    BY <1>2, <1>7 DEF LockApplication, At, RequestOK, StepOK
  <2>2. /\ {ApplicationLock(r.company, r.user)} \in SUBSET Locks
        /\ \A e \in Events : EventLock(e) \notin {ApplicationLock(r.company, r.user)}
    BY <2>1, EventLocksApart DEF Locks
  <2> QED BY <1>3, <1>5, <1>7, <2>1, <2>2 DEF LockApplication
<1>8. CASE LockUser(k)
  <2>1. r.user \in Users /\ r.step # "event"
    BY <1>2, <1>8 DEF LockUser, At, RequestOK, StepOK
  <2>2. /\ {UserLock(r.user)} \in SUBSET Locks
        /\ \A e \in Events : EventLock(e) \notin {UserLock(r.user)}
    BY <2>1, EventLocksApart DEF Locks
  <2> QED BY <1>5, <1>8, <2>1, <2>2 DEF LockUser, Steps
<1>9. CASE LockDue(k)
  <2> DEFINE free == {e \in Due(r.now) : \A j \in Conns \ {k} : EventLock(e) \notin held[j]}
  <2>1. PICK batch \in SUBSET free : Advance(k, {EventLock(e) : e \in batch}, "write")
    BY <1>9 DEF LockDue
  <2> DEFINE locks == {EventLock(e) : e \in batch}
  <2>2. locks \in SUBSET Locks
    BY <2>1 DEF Due, Locks
  <2>3. \A j \in Conns \ {k}, e \in Events : EventLock(e) \in locks => EventLock(e) \notin held[j]
    BY EventLocksApart
  <2>4. r.step # "event"
    BY <1>9 DEF LockDue, At
  <2> QED BY <1>1, <2>1, <2>2, <2>3, <2>4, AdvanceKeepsLocks DEF Steps
<1> QED BY <1>4, <1>6, <1>7, <1>8, <1>9

LEMMA LockRowKeepsLocks == ASSUME TypeInv, LockInv, NEW k \in Conns, LockRow(k) PROVE LockInv'
<1>1. PICK l \in Locks : /\ \A e \in Events : l # EventLock(e)
                         /\ held' = [held EXCEPT ![k] = @ \cup {l}] /\ tx' = tx
  BY LockRowTakesOne
<1> QED BY <1>1 DEF LockInv, EventLocksExclude, EventIsLocked, TypeInv, TypeOK

LEMMA CheckKeepsLocks ==
  ASSUME TypeInv, LockInv, NEW k \in Conns, Check(k) PROVE LockInv'
<1> DEFINE old == tx[k]
           had == old.op \in Admissions /\ participant[old.event][old.user] # None
           r == [old EXCEPT !.step = "write", !.had = had]
           locks == CheckedLocks(old, k)
<1>1. old \in Request /\ RequestOK(old) /\ old # Idle /\ old.step # "event"
  BY AtIsRunning DEF Check, Steps, TypeInv, TypeOK, RequestsOK, At
<1>2. had \in BOOLEAN
  OBVIOUS
<1>3. tx' = [tx EXCEPT ![k] = r] /\ held' = [held EXCEPT ![k] = @ \cup locks]
  BY DEF Check
<1> HIDE DEF had
<1>4. r \in Request /\ r.op = old.op /\ r.event = old.event
  BY <1>1, <1>2 DEF Request, Steps
<1>5. locks \in SUBSET Locks /\ \A e \in Events : EventLock(e) \notin locks
  BY <1>1, CheckedLocksType
<1>6. r.op \in LocksEvent => EventLock(r.event) \in held[k] \cup locks
  BY <1>1, <1>4 DEF LockInv, EventIsLocked
<1> HIDE DEF r, locks
<1> QED BY <1>3, <1>4, <1>5, <1>6, RunningKeepsLocks

\* Every write commits: the connection and its locks are free again.
LEMMA CommitReleases ==
  ASSUME NEW k \in Conns, Commit(k)
  PROVE  Release(k) /\ \E op : Writing(k, op)
<1>1. \E op : Writing(k, op)
  BY DEF Commit, CreateEvent, EditEvent, DeleteEvent, ApproveEvent, RejectEvent, BlockEvent,
     Moderate, JoinSolo, CancelSolo, CompleteDue, CreateCompany, JoinOpen, Leave, RemoveMember,
     Update, Open, Close, SetRecruitment, DeleteCompany, BlockCompany, Apply, CancelApplication,
     Approve, Reject, SetUserStatus
<1> QED BY <1>1 DEF Writing

\* Whatever a connection does but begin, lock or check ends its transaction.
LEMMA StepKeepsLocks == ASSUME TypeInv, TypeInv', LockInv, [Next]_vars PROVE LockInv'
<1>1. CASE UNCHANGED vars \/ Tick
  BY <1>1 DEF Tick, vars, LockInv, EventLocksExclude, EventIsLocked
<1>2. ASSUME NEW k \in Conns, Begin(k) PROVE LockInv'
  BY <1>2, BeginKeepsLocks
<1>3. ASSUME NEW k \in Conns, Progress(k) PROVE LockInv'
  <2>1. CASE Commit(k) \/ Refuse(k)
    BY <2>1, CommitReleases, ReleaseKeepsLocks DEF Refuse
  <2> QED BY <1>3, <2>1, LockKeepsLocks, LockRowKeepsLocks, CheckKeepsLocks DEF Progress
<1>4. ASSUME NEW k \in Conns, Fail(k) \/ AbortVictim(k) PROVE LockInv'
  BY <1>4, ReleaseKeepsLocks DEF Fail, AbortVictim
<1> QED BY <1>1, <1>2, <1>3, <1>4 DEF Next

-----------------------------------------------------------------------------
(* What the writes do to the companies of a user. *)

Shrinks == \A u \in Users, e \in Events : CompaniesOf(u, e)' \subseteq CompaniesOf(u, e)

\* The user of the request enters one company of its event, and nobody another.
AdmitsOne(r) ==
  \E c \in Companies : \A u \in Users, e \in Events :
    CompaniesOf(u, e)' \subseteq
      CompaniesOf(u, e) \cup (IF u = r.user /\ e = r.event THEN {c} ELSE {})

LEMMA SameMembers ==
  ASSUME UnbornIsEmpty, UNCHANGED <<company, members>> PROVE Shrinks /\ UnbornIsEmpty'
BY DEF UnbornIsEmpty, Shrinks, CompaniesOf, CompaniesOfEvent

\* Rewriting the row of a company, unless it is revived or moved to another event.
LEMMA RowsRewritten ==
  ASSUME UnbornIsEmpty, UNCHANGED members,
         \A c \in Companies :
           /\ company[c] = None <=> company'[c] = None
           /\ company[c] # None =>
                /\ company'[c].event = company[c].event
                /\ ~company'[c].deleted => ~company[c].deleted
  PROVE  Shrinks /\ UnbornIsEmpty'
BY DEF UnbornIsEmpty, Shrinks, CompaniesOf, CompaniesOfEvent

LEMMA ExpelShrinks ==
  ASSUME TypeInv, UnbornIsEmpty, NEW r, Expel(r), UNCHANGED company
  PROVE  Shrinks /\ UnbornIsEmpty'
<1>1. \A c \in Companies : members'[c] \subseteq members[c]
  BY DEF Expel, TypeInv, TypeOK
<1> QED BY <1>1 DEF UnbornIsEmpty, Shrinks, CompaniesOf, CompaniesOfEvent

LEMMA AdmitAdmitsOne ==
  ASSUME TypeInv, UnbornIsEmpty, NEW r, RequestOK(r), NEW c \in Companies, Admit(r, c),
         \/ /\ company[c] = None
            /\ \E new : /\ new # None /\ new.event = r.event
                       /\ company' = [company EXCEPT ![c] = new]
         \/ company[c] # None /\ company[c].event = r.event /\ UNCHANGED company
  PROVE  AdmitsOne(r) /\ UnbornIsEmpty'
<1>1. \A d \in Companies : members'[d] = IF d = c THEN members[d] \cup {r.user} ELSE members[d]
  BY DEF Admit, TypeInv, TypeOK
<1>2. /\ company'[c] # None /\ company'[c].event = r.event
      /\ \A d \in Companies : d # c => company'[d] = company[d]
      /\ company[c] = None \/ company'[c] = company[c]
  BY NullAssumption DEF TypeInv, TypeOK
<1>3. UnbornIsEmpty'
  BY <1>1, <1>2 DEF UnbornIsEmpty
<1>4. ASSUME NEW u \in Users, NEW e \in Events, NEW d \in CompaniesOf(u, e)'
      PROVE  d \in CompaniesOf(u, e) \cup (IF u = r.user /\ e = r.event THEN {c} ELSE {})
  <2>1. /\ d \in Companies /\ company'[d] # None /\ company'[d].event = e
        /\ ~company'[d].deleted /\ u \in members'[d]
    BY <1>4 DEF CompaniesOf, CompaniesOfEvent
  <2>2. CASE d # c
    BY <1>1, <1>2, <2>1, <2>2 DEF CompaniesOf, CompaniesOfEvent
  <2>3. CASE d = c /\ u = r.user
    BY <1>2, <2>1, <2>3
  <2>4. CASE d = c /\ u # r.user
    <3>1. u \in members[c]
      BY <1>1, <2>1, <2>4
    <3>2. company[c] # None
      BY <3>1 DEF UnbornIsEmpty
    <3> QED BY <1>2, <2>1, <2>4, <3>1, <3>2 DEF CompaniesOf, CompaniesOfEvent
  <2> QED BY <2>2, <2>3, <2>4
<1>5. AdmitsOne(r)
  BY <1>4 DEF AdmitsOne
<1> QED BY <1>3, <1>5

LEMMA CommitEffect ==
  ASSUME TypeInv, UnbornIsEmpty, NEW k \in Conns, Commit(k)
  PROVE  /\ UnbornIsEmpty'
         /\ Shrinks \/ \E op \in Admissions : Writing(k, op) /\ AdmitsOne(tx[k])
<1> DEFINE r == tx[k]
           row == company[r.company]
<1>1. CASE \/ CreateEvent(k) \/ EditEvent(k) \/ ApproveEvent(k) \/ RejectEvent(k)
           \/ BlockEvent(k) \/ JoinSolo(k) \/ CancelSolo(k) \/ CompleteDue(k)
           \/ Apply(k) \/ CancelApplication(k) \/ Reject(k)
           \/ SetUserStatus(k, "ban", "banned") \/ SetUserStatus(k, "unban", "active")
  <2>1. UNCHANGED <<company, members>>
    BY <1>1 DEF CreateEvent, EditEvent, ApproveEvent, RejectEvent, BlockEvent, Moderate,
       JoinSolo, CancelSolo, CompleteDue, Apply, CancelApplication, Reject, SetUserStatus
  <2> QED BY <2>1, SameMembers
<1>2. CASE Leave(k) \/ RemoveMember(k)
  BY <1>2, ExpelShrinks DEF Leave, RemoveMember
<1>3. CASE DeleteEvent(k)
  <2>1. UNCHANGED members /\ \A c \in Companies : company[c] # None =>
          (~company'[c].deleted => ~company[c].deleted)
    BY <1>3 DEF DeleteEvent, TypeInv, TypeOK, CompanyRow
  <2>2. RowsRemain /\ \A c \in Companies : company[c] = None => company'[c] = None
    BY <1>3, EventWritesKeepTypes DEF DeleteEvent, CompaniesOfEvent
  <2> QED BY <2>1, <2>2, RowsRewritten DEF RowsRemain
<1>4. CASE Update(k) \/ Open(k) \/ Close(k) \/ DeleteCompany(k) \/ BlockCompany(k)
  <2>1. UNCHANGED members /\ RowsRemain
    BY <1>4, CompanyWritesKeepTypes
       DEF Update, Open, Close, SetRecruitment, DeleteCompany, BlockCompany
  <2>2. PICK op \in CompanyThenEvent \cup CompanyOnly : Writing(k, op)
    BY <1>4 DEF Update, Open, Close, SetRecruitment, DeleteCompany, BlockCompany,
       CompanyThenEvent, CompanyOnly
  <2>3. r.company \in Companies /\ company[r.company] # None
    BY <2>2, WritingRequest DEF RequestOK, CompanyOps
  <2>4. \A c \in Companies : c # r.company => company'[c] = company[c]
    BY <1>4 DEF Update, Open, Close, SetRecruitment, DeleteCompany, BlockCompany,
       TypeInv, TypeOK
  <2>5. ~company'[r.company].deleted => ~company[r.company].deleted
    <3>1. company[r.company] \in CompanyRow
      BY <2>3 DEF TypeInv, TypeOK
    <3>2. CASE Update(k)
      <4>1. company'[r.company] =
              [row EXCEPT !.max = Patched(r.patch.max, row.max),
                          !.join = Patched(r.patch.join, row.join),
                          !.minAge = Patched(r.patch.minAge, row.minAge)]
        BY <2>3, <3>2 DEF Update, TypeInv, TypeOK
      <4>2. company'[r.company].deleted = row.deleted
        BY <3>1, <4>1 DEF CompanyRow
      <4> QED BY <4>2
    <3>3. CASE Open(k) \/ Close(k) \/ BlockCompany(k)
      <4>1. \E status : company'[r.company] = [row EXCEPT !.status = status]
        BY <2>3, <3>3 DEF Open, Close, SetRecruitment, BlockCompany, TypeInv, TypeOK
      <4>2. company'[r.company].deleted = row.deleted
        BY <3>1, <4>1 DEF CompanyRow
      <4> QED BY <4>2
    <3>4. CASE DeleteCompany(k)
      BY <2>3, <3>1, <3>4 DEF DeleteCompany, TypeInv, TypeOK, CompanyRow
    <3> QED BY <1>4, <3>2, <3>3, <3>4
  <2> QED BY <2>1, <2>3, <2>4, <2>5, RowsRewritten DEF RowsRemain
<1>5. CASE CreateCompany(k)
  <2>1. Writing(k, "createCompany")
    BY <1>5 DEF CreateCompany
  <2>2. RequestOK(r) /\ NewCompany(r) # None /\ NewCompany(r).event = r.event
    BY <2>1, WritingRequest, NewCompanyType
  <2>3. PICK c \in Companies :
          /\ company[c] = None /\ Admit(r, c)
          /\ company' = [company EXCEPT ![c] = NewCompany(r)]
    BY <1>5 DEF CreateCompany
  <2> QED BY <2>1, <2>2, <2>3, AdmitAdmitsOne DEF Admissions
<1>6. CASE JoinOpen(k) \/ Approve(k)
  <2>1. PICK op \in {"joinOpen", "approve"} : Writing(k, op)
    BY <1>6 DEF JoinOpen, Approve
  <2>2. RequestOK(r) /\ r.op = op
    BY <2>1, WritingRequest
  <2>3. r.company \in Companies /\ company[r.company] # None
          /\ company[r.company].event = r.event
    BY <2>2 DEF RequestOK, CompanyOps, EventThenCompany
  <2>4. Admit(r, r.company) /\ UNCHANGED company
    BY <1>6 DEF JoinOpen, Approve
  <2> QED BY <2>1, <2>2, <2>3, <2>4, AdmitAdmitsOne DEF Admissions
<1> QED BY <1>1, <1>2, <1>3, <1>4, <1>5, <1>6 DEF Commit

\* Every step but the commit of an admission leaves users in the companies they had, or fewer.
LEMMA StepEffect ==
  ASSUME TypeInv, UnbornIsEmpty, [Next]_vars
  PROVE  /\ UnbornIsEmpty'
         /\ \/ Shrinks
            \/ \E k \in Conns, op \in Admissions :
                 Writing(k, op) /\ Release(k) /\ AdmitsOne(tx[k])
<1>1. CASE UNCHANGED <<company, members>>
  BY <1>1, SameMembers
<1>2. ASSUME NEW k \in Conns, Progress(k), ~ UNCHANGED <<company, members>> PROVE Commit(k)
  BY <1>2 DEF Progress, LockEvent, LockCompany, LockApplication, LockUser, LockDue, LockRow,
     Check, Refuse, Advance, tables
<1>3. ASSUME NEW k \in Conns, Commit(k)
      PROVE  /\ UnbornIsEmpty'
             /\ Shrinks \/ \E op \in Admissions :
                             Writing(k, op) /\ Release(k) /\ AdmitsOne(tx[k])
  BY <1>3, CommitEffect, CommitReleases
<1>4. ASSUME NEW k \in Conns, Begin(k) \/ Fail(k) \/ AbortVictim(k)
      PROVE UNCHANGED <<company, members>>
  BY <1>4, BeginIsCall DEF Fail, AbortVictim, tables
<1> QED BY <1>1, <1>2, <1>3, <1>4 DEF Next, Tick, vars, tables

LEMMA NoLockIsTheLast ==
  \A op, step : FirstStep(op) # "write" /\ StepAfter(op, step) # "write"
BY DEF FirstStep, StepAfter

\* A request about to be written was so before the step, or has just made its check.
LEMMA AboutToWrite ==
  ASSUME TypeInv, TypeInv', [Next]_vars, NEW j \in Conns,
         tx'[j] # Idle, tx'[j].op # "completeDue", tx'[j].step = "write"
  PROVE  \/ tx'[j] = tx[j]
         \/ /\ tx'[j].user = tx[j].user /\ tx'[j].event = tx[j].event
            /\ tx'[j].company = tx[j].company /\ tx'[j].op = tx[j].op
            /\ tx'[j].count = tx[j].count /\ tx'[j].patch = tx[j].patch /\ tx'[j].now = tx[j].now
            /\ tx[j].step = "check" /\ Allowed(tx[j]) /\ UNCHANGED tables
<1> USE DEF TypeInv, TypeOK
<1>1. CASE UNCHANGED tx
  BY <1>1
<1>2. ASSUME NEW k \in Conns, Begin(k) PROVE tx'[j] = tx[j]
  <2>1. PICK r : r.step = FirstStep(r.op) /\ tx' = [tx EXCEPT ![k] = r]
    BY <1>2, BeginIsCall
  <2>2. k # j
    BY <2>1, NoLockIsTheLast
  <2> QED BY <2>1, <2>2
<1>3. ASSUME NEW k \in Conns, NEW locks, NEW step, Advance(k, locks, step),
             step # "write" \/ tx[k].op = "completeDue", tx[k] # Idle
      PROVE  tx'[j] = tx[j]
  <2>1. tx[k] \in Request
    BY <1>3
  <2>2. tx' = [tx EXCEPT ![k].step = step]
    BY <1>3 DEF Advance
  <2>3. k # j
    BY <1>3, <2>1, <2>2 DEF Request
  <2> QED BY <2>2, <2>3
<1>4. ASSUME NEW k \in Conns, LockEvent(k) \/ LockCompany(k) \/ LockApplication(k) \/ LockUser(k)
      PROVE  tx'[j] = tx[j]
  <2>1. tx[k] # Idle
    BY <1>4, AtIsRunning DEF LockEvent, LockCompany, LockApplication, LockUser, Steps
  <2>2. \E locks, step : Advance(k, locks, step) /\ step # "write"
    BY <1>4, NoLockIsTheLast DEF LockEvent, LockCompany, LockApplication, LockUser
  <2> QED BY <1>3, <2>1, <2>2
<1>5. ASSUME NEW k \in Conns, LockDue(k) PROVE tx'[j] = tx[j]
  <2>1. tx[k] # Idle /\ tx[k].op = "completeDue"
    BY <1>5, AtIsRunning DEF LockDue, Steps
  <2> QED BY <1>3, <1>5, <2>1 DEF LockDue
<1>6. ASSUME NEW k \in Conns, Check(k), k # j PROVE tx'[j] = tx[j]
  BY <1>6 DEF Check
<1>7. ASSUME Check(j)
      PROVE  /\ tx'[j].user = tx[j].user /\ tx'[j].event = tx[j].event
             /\ tx'[j].company = tx[j].company /\ tx'[j].op = tx[j].op
             /\ tx'[j].count = tx[j].count /\ tx'[j].patch = tx[j].patch /\ tx'[j].now = tx[j].now
             /\ tx[j].step = "check" /\ Allowed(tx[j]) /\ UNCHANGED tables
  <2> DEFINE had == tx[j].op \in Admissions /\ participant[tx[j].event][tx[j].user] # None
  <2>1. tx[j] \in Request
    BY <1>7, AtIsRunning DEF Check, Steps
  <2>2. tx'[j] = [tx[j] EXCEPT !.step = "write", !.had = had]
    BY <1>7 DEF Check
  <2> HIDE DEF had
  <2>3. /\ tx'[j].op = tx[j].op /\ tx'[j].user = tx[j].user /\ tx'[j].event = tx[j].event
        /\ tx'[j].company = tx[j].company
        /\ tx'[j].count = tx[j].count /\ tx'[j].patch = tx[j].patch /\ tx'[j].now = tx[j].now
    BY <2>1, <2>2 DEF Request
  <2> QED BY <1>7, <2>3 DEF Check, At
<1>8. ASSUME NEW k \in Conns, Release(k) PROVE tx'[j] = tx[j]
  BY <1>8 DEF Release
<1>9. ASSUME NEW k \in Conns, Progress(k)
      PROVE  Release(k) \/ Check(k) \/ LockDue(k) \/ UNCHANGED tx
               \/ LockEvent(k) \/ LockCompany(k) \/ LockApplication(k) \/ LockUser(k)
  BY <1>9, CommitReleases DEF Progress, Refuse, LockRow
<1> QED
  BY <1>1, <1>2, <1>4, <1>5, <1>6, <1>7, <1>8, <1>9 DEF Next, Tick, vars, Fail, AbortVictim

-----------------------------------------------------------------------------

LEMMA InitAdmission == Init => AdmissionInv
<1> SUFFICES ASSUME Init PROVE AdmissionInv
  OBVIOUS
<1>1. TypeInv
  BY InitTypes
<1>2. LockInv /\ AdmissionChecked
  BY DEF Init, LockInv, EventLocksExclude, EventIsLocked, AdmissionChecked
<1>3. UnbornIsEmpty /\ OneCompanyPerEvent
  BY DEF Init, UnbornIsEmpty, OneCompanyPerEvent, CompaniesOf, CompaniesOfEvent
<1> QED BY <1>1, <1>2, <1>3 DEF AdmissionInv

LEMMA AllowedAdmission ==
  ASSUME NEW r, r.op \in Admissions, Allowed(r) PROVE CompaniesOf(r.user, r.event) = {}
<1>1. NotInACompany(r)
  BY DEF Admissions, Allowed, CreateCompanyAllowed, JoinOpenAllowed, ApproveAllowed
<1> QED BY <1>1 DEF NotInACompany

\* The two connections of a lost race would both hold the lock of the event.
LEMMA StepKeepsAdmissionChecked ==
  ASSUME AdmissionInv, TypeInv', [Next]_vars PROVE AdmissionChecked'
<1> SUFFICES ASSUME NEW j \in Conns, tx'[j] # Idle, tx'[j].op \in Admissions,
                    tx'[j].step = "write"
             PROVE  CompaniesOf(tx[j].user, tx[j].event)' = {}
  BY DEF AdmissionChecked
<1> USE DEF AdmissionInv
<1>1. PICK u \in Users, e \in Events : u = tx'[j].user /\ e = tx'[j].event
  BY DEF TypeInv, RequestsOK, RequestOK, NamesEvent, NamesUser, Admissions, EventOps,
     CompanyOps, EventThenCompany
<1>2. CompaniesOf(u, e) = {}
  <2>1. CASE tx'[j] = tx[j]
    BY <1>1, <2>1 DEF AdmissionChecked
  <2>2. CASE /\ tx'[j].user = tx[j].user /\ tx'[j].event = tx[j].event
             /\ tx'[j].op = tx[j].op /\ Allowed(tx[j])
    BY <1>1, <2>2, AllowedAdmission
  <2>3. tx'[j].op # "completeDue"
    BY DEF Admissions
  <2> QED BY <2>1, <2>2, <2>3, AboutToWrite
<1>3. CompaniesOf(u, e)' = {}
  <2>1. CASE Shrinks
    BY <1>2, <2>1 DEF Shrinks
  <2>2. ASSUME NEW k \in Conns, NEW op \in Admissions,
               Writing(k, op), Release(k), AdmitsOne(tx[k])
        PROVE  CompaniesOf(u, e)' = {}
    <3>1. k # j /\ tx'[j] = tx[j]
      BY <2>2 DEF Release, TypeInv, TypeOK
    <3>2. EventLock(tx[k].event) \in held[k] /\ EventLock(e) \in held[j]
      <4>1. tx[k] # Idle /\ tx[k].op \in LocksEvent /\ tx[k].step # "event"
        BY <2>2, AdmissionsLockEvent DEF Writing, Idle
      <4>2. tx[j] # Idle /\ tx[j].op \in LocksEvent /\ tx[j].step # "event"
        BY <3>1, AdmissionsLockEvent
      <4> QED BY <1>1, <3>1, <4>1, <4>2 DEF LockInv, EventIsLocked
    <3>3. e # tx[k].event
      BY <3>1, <3>2 DEF LockInv, EventLocksExclude
    <3> QED BY <1>2, <2>2, <3>3 DEF AdmitsOne
  <2> QED BY <2>1, <2>2, StepEffect
<1> QED BY <1>1, <1>3

LEMMA StepKeepsOneCompany ==
  ASSUME AdmissionInv, [Next]_vars PROVE OneCompanyPerEvent'
<1> SUFFICES ASSUME NEW u \in Users, NEW e \in Events, NEW c \in Companies, NEW d \in Companies,
                    c \in CompaniesOf(u, e)', d \in CompaniesOf(u, e)'
             PROVE  c = d
  BY DEF OneCompanyPerEvent
<1> USE DEF AdmissionInv
<1>1. CASE Shrinks
  BY <1>1 DEF Shrinks, OneCompanyPerEvent
<1>2. ASSUME NEW k \in Conns, NEW op \in Admissions, Writing(k, op), AdmitsOne(tx[k])
      PROVE  c = d
  <2>1. CompaniesOf(tx[k].user, tx[k].event) = {}
    BY <1>2 DEF AdmissionChecked, Writing, Idle
  <2>2. CASE u = tx[k].user /\ e = tx[k].event
    BY <1>2, <2>1, <2>2 DEF AdmitsOne
  <2>3. CASE ~(u = tx[k].user /\ e = tx[k].event)
    BY <1>2, <2>3 DEF AdmitsOne, OneCompanyPerEvent
  <2> QED BY <2>2, <2>3
<1> QED BY <1>1, <1>2, StepEffect

LEMMA StepKeepsAdmission == AdmissionInv /\ [Next]_vars => AdmissionInv'
<1> SUFFICES ASSUME AdmissionInv, [Next]_vars PROVE AdmissionInv'
  OBVIOUS
<1>1. TypeInv'
  BY StepKeepsTypes DEF AdmissionInv
<1> QED
  BY <1>1, StepKeepsLocks, StepEffect, StepKeepsAdmissionChecked, StepKeepsOneCompany
  DEF AdmissionInv

\* A user belongs to at most one company of an event, whatever mix of Repository.Create,
\* JoinOpen and ResolveApplication runs on however many connections.
THEOREM OneCompany == Spec => []OneCompanyPerEvent
<1>1. AdmissionInv => OneCompanyPerEvent
  BY DEF AdmissionInv
<1> QED BY <1>1, InitAdmission, StepKeepsAdmission, PTL DEF Spec

\* No two connections hold the lock of one event, and an operation that takes part in an event
\* holds it from its first statement to its end (lockCompany, the SELECT ... FOR UPDATE of the
\* events repository).
THEOREM EventIsSerialised == Spec => []LockInv
<1>1. AdmissionInv => LockInv
  BY DEF AdmissionInv
<1> QED BY <1>1, InitAdmission, StepKeepsAdmission, PTL DEF Spec
=============================================================================
