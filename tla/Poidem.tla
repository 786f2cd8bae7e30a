------------------------------- MODULE Poidem -------------------------------
(***************************************************************************)
(* The event, company and application handlers of the backend, together    *)
(* with the ban of an account, running concurrently on the connections of  *)
(* one database.                                                           *)
(***************************************************************************)
EXTENDS EventHandlers, ApplicationHandlers

Init ==
  /\ clock = 0
  /\ account = [u \in Users |-> "active"]
  /\ \E form \in [Published -> {f \in EventForms : f.publishable}],
        creator \in [Published -> Users] :
       event = [e \in Events |->
         IF e \in Published
         THEN [status |-> "active", deleted |-> FALSE, form |-> form[e], creator |-> creator[e]]
         ELSE None]
  /\ company = [c \in Companies |-> None]
  /\ members = [c \in Companies |-> {}]
  /\ participant = [e \in Events |-> [u \in Users |-> None]]
  /\ application = [c \in Companies |-> [u \in Users |-> None]]
  /\ tx = [k \in Conns |-> Idle]
  /\ held = [k \in Conns |-> {}]

Tick ==
  /\ clock < LastInstant
  /\ clock' = clock + 1
  /\ UNCHANGED <<tables, tx, held>>

-----------------------------------------------------------------------------
(* Requests. *)

\* service.Authenticate reads the account's status once, before the handler's transaction.
Authenticated(actor) == actor \notin {u \in Users : account[u] = "banned"}

\* The service samples now; a transaction begins on connection k.  For "update" the count of
\* members is the one in the snapshot of lockCompany's statement.
Call(k, op, actor, user, e, c, patch) ==
  /\ op \in Ops
  /\ tx[k] = Idle
  /\ Authenticated(actor)
  /\ tx' = [tx EXCEPT ![k] =
       [op |-> op, step |-> FirstStep(op), actor |-> actor, user |-> user, event |-> e,
        company |-> c, now |-> clock,
        count |-> IF op = "update" THEN Cardinality(members[c]) ELSE 0,
        had |-> FALSE, patch |-> patch]]
  /\ UNCHANGED <<clock, tables, held>>

CallEvent(k, op, actor, user, e, patch) ==
  EventLive(e) /\ Call(k, op, actor, user, e, None, patch)

\* Handlers of a company first read its row, whose event_id never changes.
CallCompany(k, op, actor, user, c, patch) ==
  CompanyLive(c) /\ Call(k, op, actor, user, company[c].event, c, patch)

SoloRequest(k) ==
  \E u \in Users, e \in Events, op \in {"joinSolo", "cancelSolo"} :
    CallEvent(k, op, u, u, e, None)

MemberRequest(k) ==
  \E u \in Users, c \in Companies, op \in {"joinOpen", "leave", "apply", "cancelApplication"} :
    CallCompany(k, op, u, u, c, None)

\* The bounds Companies and Events: a creation begins while an id is left for it.
SpareId(row, op) ==
  Cardinality({i \in DOMAIN row : row[i] = None})
    > Cardinality({j \in Conns : tx[j] # Idle /\ tx[j].op = op})

CreateCompanyRequest(k) ==
  /\ SpareId(company, "createCompany")
  /\ \E u \in Users, e \in Events, d \in Drafts : CallEvent(k, "createCompany", u, u, e, d)

\* Owner is checked in the transaction, so anyone may ask.
MayAsk(actor, c) == actor \in Strangers \/ (CompanyLive(c) /\ actor = company[c].owner)

\* A resolution names an application of the company, which is found by its id.
OwnerRequest(k) ==
  \E actor, u \in Users, c \in Companies, op \in {"removeMember"} \cup Resolutions :
    /\ MayAsk(actor, c)
    /\ op \in Resolutions => application[c][u] # None
    /\ CallCompany(k, op, actor, u, c, None)

RecruitmentRequest(k) ==
  \E u \in Users, c \in Companies, op \in {"open", "close", "deleteCompany"} :
    MayAsk(u, c) /\ CallCompany(k, op, u, None, c, None)

UpdateCompanyRequest(k) ==
  \E u \in Users, c \in Companies, p \in Patches :
    MayAsk(u, c) /\ CallCompany(k, "update", u, None, c, p)

CreateEventRequest(k) ==
  /\ SpareId(event, "createEvent")
  /\ \E u \in Users, f \in EventForms : Call(k, "createEvent", u, u, None, None, f)

\* PATCH and DELETE of an event, by its creator or by an administrator.
EditEventRequest(k) ==
  \E actor \in Users \cup {Admin}, e \in Events, f \in EventForms \cup {None} :
    CallEvent(k, "editEvent", actor, None, e, f)

DeleteEventRequest(k) ==
  \E actor \in Users \cup {Admin}, e \in Events :
    CallEvent(k, "deleteEvent", actor, None, e, None)

ModerationRequest(k) ==
  \/ \E e \in Events, op \in {"approveEvent", "rejectEvent", "blockEvent"} :
       CallEvent(k, op, Admin, None, e, None)
  \/ \E c \in Companies : CallCompany(k, "blockCompany", Admin, None, c, None)

StatusRequest(k) ==
  \E u \in Users, op \in UserOps : Call(k, op, Admin, u, None, None, None)

\* A pass of the completion worker.
CompletionPass(k) == Call(k, "completeDue", Admin, None, None, None, None)

Begin(k) ==
  \/ SoloRequest(k) \/ MemberRequest(k) \/ CreateCompanyRequest(k) \/ OwnerRequest(k)
  \/ RecruitmentRequest(k) \/ UpdateCompanyRequest(k)
  \/ CreateEventRequest(k) \/ EditEventRequest(k) \/ DeleteEventRequest(k)
  \/ ModerationRequest(k) \/ StatusRequest(k) \/ CompletionPass(k)

-----------------------------------------------------------------------------
(* Statements of a transaction: locks, checks, writes. *)

LockEvent(k) ==
  /\ At(k, "event")
  /\ EventLive(tx[k].event)
  /\ Advance(k, {EventLock(tx[k].event)}, StepAfter(tx[k].op, "event"))

LockCompany(k) ==
  /\ At(k, "company")
  /\ CompanyLive(tx[k].company)
  /\ Advance(k, {CompanyLock(tx[k].company)}, StepAfter(tx[k].op, "company"))

\* Both resolutions ask who owns the company before they look for the application.
ApplicationFound(r) ==
  /\ r.op \in Resolutions => company[r.company].owner = r.actor
  /\ ApplicationIsPending(r)

LockApplication(k) ==
  /\ At(k, "application")
  /\ ApplicationFound(tx[k])
  /\ Advance(k, {ApplicationLock(tx[k].company, tx[k].user)}, StepAfter(tx[k].op, "application"))

LockUser(k) ==
  /\ At(k, "user")
  /\ tx[k].op \in Resolutions => ApplicantIsActive(tx[k])
  /\ Advance(k, {UserLock(tx[k].user)}, "check")

Allowed(r) ==
  CASE r.op = "createEvent" -> CreateEventAllowed(r)
    [] r.op = "editEvent" -> EditEventAllowed(r)
    [] r.op = "deleteEvent" -> DeleteEventAllowed(r)
    [] r.op = "approveEvent" -> ApproveEventAllowed(r)
    [] r.op = "rejectEvent" -> RejectEventAllowed(r)
    [] r.op = "blockEvent" -> BlockEventAllowed(r)
    [] r.op = "joinSolo" -> JoinSoloAllowed(r)
    [] r.op = "cancelSolo" -> CancelSoloAllowed(r)
    [] r.op = "createCompany" -> CreateCompanyAllowed(r)
    [] r.op = "joinOpen" -> JoinOpenAllowed(r)
    [] r.op = "leave" -> LeaveAllowed(r)
    [] r.op = "removeMember" -> RemoveMemberAllowed(r)
    [] r.op = "update" -> UpdateAllowed(r)
    [] r.op = "open" -> OpenAllowed(r)
    [] r.op = "close" -> CloseAllowed(r)
    [] r.op = "deleteCompany" -> DeleteCompanyAllowed(r)
    [] r.op = "blockCompany" -> BlockCompanyAllowed(r)
    [] r.op = "apply" -> ApplyAllowed(r)
    [] r.op = "approve" -> ApproveAllowed(r)
    [] OTHER -> TRUE

\* The rows the checks lock: an existing participation row, and the key of the user whose
\* age is compared.
CheckedLocks(r, k) ==
  (IF r.op \in Admissions /\ participant[r.event][r.user] # None
   THEN {ParticipantLock(r.event, r.user)} ELSE {})
  \cup
  (IF r.op \in {"joinOpen", "apply"} /\ company[r.company].minAge > 0
   THEN {UserShare(r.user, k)} ELSE {})

Check(k) ==
  /\ At(k, "check")
  /\ tx[k].op # "completeDue"
  /\ Allowed(tx[k])
  /\ tx' = [tx EXCEPT ![k].step = "write",
                      ![k].had = tx[k].op \in Admissions
                                   /\ participant[tx[k].event][tx[k].user] # None]
  /\ held' = [held EXCEPT ![k] = @ \cup CheckedLocks(tx[k], k)]
  /\ UNCHANGED <<clock, tables>>

\* A row the checks did not see has been inserted since: the primary key of
\* event_participants or the index of pending applications refuses another.
UniqueViolation(r) ==
  \/ /\ r.op \in Admissions \cup {"joinSolo"} /\ ~r.had
     /\ participant[r.event][r.user] # None
  \/ r.op = "apply" /\ application[r.company][r.user] = "pending"

\* The handlers return an error here and the transaction is rolled back.
Refused(r) ==
  \/ r.step = "event" /\ ~EventLive(r.event)
  \/ r.step = "company" /\ ~CompanyLive(r.company)
  \/ r.step = "application" /\ ~ApplicationFound(r)
  \/ r.step = "user" /\ r.op \in Resolutions /\ ~ApplicantIsActive(r)
  \/ r.step = "check" /\ ~Allowed(r)
  \/ r.step = "write" /\ UniqueViolation(r)

Refuse(k) ==
  /\ tx[k] # Idle
  /\ Blockers(k) = {}
  /\ Refused(tx[k])
  /\ Release(k)
  /\ UNCHANGED <<clock, tables>>

\* SetUserStatus.
SetUserStatus(k, op, status) ==
  /\ Writing(k, op)
  /\ account' = [account EXCEPT ![tx[k].user] = status]
  /\ UNCHANGED <<event, company, members, participant, application>>

Commit(k) ==
  \/ CreateEvent(k) \/ EditEvent(k) \/ DeleteEvent(k)
  \/ ApproveEvent(k) \/ RejectEvent(k) \/ BlockEvent(k)
  \/ JoinSolo(k) \/ CancelSolo(k) \/ CompleteDue(k)
  \/ CreateCompany(k) \/ JoinOpen(k) \/ Leave(k) \/ RemoveMember(k)
  \/ Update(k) \/ Open(k) \/ Close(k) \/ DeleteCompany(k) \/ BlockCompany(k)
  \/ Apply(k) \/ CancelApplication(k) \/ Approve(k) \/ Reject(k)
  \/ SetUserStatus(k, "ban", "banned") \/ SetUserStatus(k, "unban", "active")

\* A cancelled request, a lost connection, a failed statement or a crashed process: the
\* database rolls the transaction back at any point.
Fail(k) ==
  /\ tx[k] # Idle
  /\ Release(k)
  /\ UNCHANGED <<clock, tables>>

\* The connections that wait for each other in a circle.
Deadlocked(k) ==
  \E circle \in SUBSET Conns :
    /\ k \in circle
    /\ \A i \in circle : Blockers(i) \cap circle # {}
    /\ \A i \in circle : \E j \in circle : i \in Blockers(j)

\* PostgreSQL's deadlock detector aborts a transaction of the circle.
AbortVictim(k) ==
  /\ Deadlocked(k)
  /\ Release(k)
  /\ UNCHANGED <<clock, tables>>

Progress(k) ==
  \/ LockEvent(k) \/ LockCompany(k) \/ LockApplication(k) \/ LockUser(k)
  \/ LockDue(k) \/ Check(k) \/ LockRow(k) \/ Refuse(k) \/ Commit(k)

Next == Tick \/ \E k \in Conns : Begin(k) \/ Progress(k) \/ Fail(k) \/ AbortVictim(k)

Spec == Init /\ [][Next]_vars

\* PostgreSQL queues the waiters of a row, so none is passed over for ever, and its deadlock
\* detector runs.  The completion worker ticks for ever, the pool serves those who wait for a
\* connection in turn, and the statements of its passes do not fail for ever.  No client's
\* request is obliged to arrive, and none to fail.
Fairness ==
  /\ \A k \in Conns : SF_vars(Progress(k)) /\ WF_vars(AbortVictim(k))
  /\ SF_vars(\E k \in Conns : CompletionPass(k))
  /\ SF_vars(\E k \in Conns : LockDue(k) /\ held' # held)
  /\ SF_vars(\E k \in Conns : CompleteDue(k) /\ event' # event)

FairSpec == Spec /\ Fairness

-----------------------------------------------------------------------------
(* Properties. *)

\* Every table, transaction and lock set has the shape the code gives it.
TypeOK ==
  /\ clock \in 0..LastInstant
  /\ account \in [Users -> Accounts]
  /\ event \in [Events -> EventRow \cup {None}]
  /\ company \in [Companies -> CompanyRow \cup {None}]
  /\ members \in [Companies -> SUBSET Users]
  /\ participant \in [Events -> [Users -> Companies \cup {None, Solo}]]
  /\ application \in [Companies -> [Users -> ApplicationStatuses \cup {None}]]
  /\ tx \in [Conns -> Request \cup {Idle}]
  /\ held \in [Conns -> SUBSET Locks]

\* A user belongs to at most one company of an event that is not deleted, whatever mix of
\* Create, JoinOpen and ResolveApplication runs at once (companies/postgres/repository.go).
OneCompanyPerEvent ==
  \A u \in Users, e \in Events, c, d \in Companies :
    c \in CompaniesOf(u, e) /\ d \in CompaniesOf(u, e) => c = d

\* event_participants and company_members tell the same story: in a live event a user takes
\* part through a company exactly when it is a live company the user is a member of, and in a
\* deleted event nobody takes part.
ParticipationMirrorsMembership ==
  \A e \in Events, u \in Users :
    IF EventLive(e)
    THEN CompaniesOf(u, e) = {participant[e][u]} \cap Companies
    ELSE participant[e][u] = None

\* The owner of a company stays its member: neither Leave nor RemoveMember, nor any
\* interleaving with other handlers, leaves a company without its owner.
OwnerIsMember ==
  \A c \in Companies : company[c] # None => company[c].owner \in members[c]

\* A pending application is one the owner can still resolve or the user cancel: its company
\* is neither deleted nor blocked, its event neither deleted nor completed.
PendingIsOpen ==
  \A c \in Companies, u \in Users :
    application[c][u] = "pending" =>
      /\ CompanyLive(c) /\ company[c].status # "blocked"
      /\ EventLive(company[c].event) /\ event[company[c].event].status # "completed"

\* Whoever enters a company enters one that is live, not blocked and has room, in an event that
\* is live and active, at an age it admits, and without an approved application only while the
\* company admits openly and is not closed.  And nobody gets a place in another event, or in one
\* that had ended when the request came (the instant is older than the locks).  Block, Delete,
\* Update, CompleteDue and the moderation of the event run between its checks and its insert only
\* where the row locks let them.
AdmissionIsLegal ==
  [][/\ \A c \in Companies : \A u \in members'[c] \ members[c] :
          /\ company'[c] # None /\ ~company'[c].deleted /\ company'[c].status # "blocked"
          /\ Cardinality(members'[c]) <= company'[c].max
          /\ u # company'[c].owner => Age[u] >= company'[c].minAge
          /\ \/ u = company'[c].owner
             \/ application[c][u] = "pending" /\ application'[c][u] = "approved"
             \/ company[c].status = "active" /\ company[c].join = "open"
     /\ \A e \in Events, u \in Users :
          participant'[e][u] \notin {participant[e][u], None} =>
            /\ EventLive(e) /\ event[e].status = "active"
            /\ \E k \in Conns : /\ tx[k] # Idle /\ tx'[k] = Idle
                                /\ tx[k].user = u /\ tx[k].event = e
                                /\ tx[k].now < Deadline(e)]_vars

\* A resolved application stays as it was resolved; only a new pending row may follow it.
ResolutionIsFinal ==
  [][\A c \in Companies, u \in Users :
       application[c][u] # application'[c][u] =>
         (application[c][u] = "pending") # (application'[c][u] = "pending")]_vars

\* Approval is one step with admission, and never of a banned applicant: an application turns
\* "approved" exactly when its user becomes a member, whose account is active then.
ApprovalAdmits ==
  [][\A c \in Companies, u \in Users :
       application[c][u] = "pending" /\ application'[c][u] = "approved" =>
         u \in members'[c] \ members[c] /\ account[u] = "active"]_vars

\* A blocked company is never reopened, however Block interleaves with open and close.
BlockIsFinal ==
  [][\A c \in Companies :
       company[c] # None /\ company[c].status = "blocked" => company'[c].status = "blocked"]_vars

\* Completion, blocking and deletion of an event are final: no edit, moderation or worker pass
\* that read the row earlier brings the event back.
EventEndIsFinal ==
  [][\A e \in Events :
       event[e] # None =>
         /\ event[e].deleted => event'[e] = event[e]
         /\ event[e].status \in {"completed", "blocked"} =>
              event'[e].status = event[e].status \/ event'[e].deleted]_vars

\* Every transaction ends: waiting for row locks never lasts, because the detector breaks the
\* circles that lockCompany (company, then event) forms with the other handlers (event, then
\* company), as well as those of two bulk cancellations, and every way out of a handler releases
\* the locks.
EveryRequestEnds == \A k \in Conns : tx[k] # Idle ~> tx[k] = Idle

\* Requests wait for each other in a circle for one of two reasons.  A hand-over between the two
\* orders: lockCompany has stopped one with the company locked, waiting for the event, and one
\* that holds the event has come by another way.  Or a completion pass and the block or deletion
\* of a company cancel the same pending applications, without an event or a company lock in
\* common, and each has locked one that the other still has to cancel.
DeadlocksMixOrders ==
  \A circle \in SUBSET Conns :
    circle # {} /\ (\A i \in circle : Blockers(i) \cap circle # {}) =>
      \E i, j \in circle :
        \/ /\ tx[i].op \in CompanyThenEvent /\ tx[i].step = "event"
           /\ tx[j].op \notin CompanyThenEvent /\ EventLock(tx[i].event) \in held[j]
        \/ /\ tx[i].op = "completeDue" /\ tx[j].op \in {"blockCompany", "deleteCompany"}
           /\ i \in Blockers(j) /\ j \in Blockers(i)

\* An event that is over stays active for ever only if somebody else's request holds its row
\* whenever a pass looks: a pass skips what is locked but fills its batch with what is not, and
\* what a short batch leaves behind is found by a pass of a later tick (completion.go).
DueIsCompleted ==
  \A e \in Events :
    LET Over == EventLive(e) /\ event[e].status = "active" /\ Deadline(e) <= clock
        Looking == \E k \in Conns :
          /\ tx[k] # Idle /\ tx[k].op = "completeDue" /\ tx[k].step = "check"
          /\ e \in Due(tx[k].now)
        Taken == \E k \in Conns :
          tx[k] # Idle /\ tx[k].op # "completeDue" /\ EventLock(e) \in held[k]
    IN <>[]Over => []<>Looking /\ <>[](Looking => Taken)

\* development-plan.md: reducing maxMembers below the present members is forbidden.
CapacityCoversMembers ==
  \A c \in Companies : company[c] # None => Cardinality(members[c]) <= company[c].max

\* development-plan.md: before a user enters a company, the account is not banned.
BannedNeverJoin ==
  [][\A c \in Companies : \A u \in members'[c] \ members[c] :
       u # company'[c].owner => account[u] # "banned"]_vars
=============================================================================
