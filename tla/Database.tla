------------------------------ MODULE Database ------------------------------
(***************************************************************************)
(* The PostgreSQL database as the repositories of the backend use it.      *)
(*                                                                         *)
(* The tables hold committed rows only.  A transaction of                  *)
(* TxManager.WithinTransaction runs on a connection: it locks rows one     *)
(* SELECT ... FOR UPDATE at a time, then evaluates its checks, then writes *)
(* and commits; an UPDATE of many rows locks them one by one before that.  *)
(* The isolation level is READ COMMITTED (pgx.TxOptions{}),                *)
(* so each of these steps sees whatever has been committed by then, and    *)
(* only row locks keep what was checked true until it is written.  A step  *)
(* that needs a row another connection has locked waits.                   *)
(***************************************************************************)
EXTENDS Integers, FiniteSets

CONSTANTS
  Users,        \* registered accounts with a completed profile
  Events,       \* ids of events, existing or not yet created
  Companies,    \* ids of companies, existing or not yet created
  Conns,        \* connections of the pool, each running one request at a time
  Admin,        \* the administrator, or a background worker
  None,         \* SQL NULL, or a row that does not exist
  Solo,         \* participation_type = 'solo'
  Published,    \* events already approved when the behaviour starts
  EventForms,   \* inputs of an event's creation and edit
  Drafts,       \* inputs of a company's creation
  Patches,      \* inputs of a company's update; a None field is left as it is
  Age,          \* age of each user
  Ops,          \* operations clients call
  Strangers,    \* bound: users who call an owner's operations on companies of others
  Batch,        \* events one pass of the completion worker may complete
  LastInstant   \* bound of the clock

Accounts == {"active", "banned"}
EventStatuses == {"pending", "active", "rejected", "blocked", "completed"}
CompanyStatuses == {"active", "closed", "blocked"}
JoinTypes == {"open", "request"}
ApplicationStatuses == {"pending", "approved", "rejected", "cancelled"}

\* A member of Drafts sets every field; minAge = 0 stands for "no age limit".
Sizes == 2..100
Draft == [max: Sizes, join: JoinTypes, minAge: Nat]
Patch == [max: Sizes \cup {None}, join: JoinTypes \cup {None}, minAge: Nat \cup {None}]
\* publishable: the event has both coordinates and a cover.
EventForm == [starts: Nat, ends: Nat \cup {None}, publishable: BOOLEAN]

ASSUME DatabaseAssumption ==
  /\ IsFiniteSet(Users) /\ IsFiniteSet(Events) /\ IsFiniteSet(Companies)
  /\ Admin \notin Users
  /\ None \notin Users \cup Events \cup Companies \cup Nat
  /\ Solo \notin Companies \cup {None}
  /\ Published \subseteq Events
  /\ EventForms \subseteq EventForm
  /\ Drafts \subseteq Draft
  /\ Patches \subseteq Patch
  /\ Age \in [Users -> Nat]
  /\ Strangers \subseteq Users
  /\ Batch \in Nat \ {0}
  /\ LastInstant \in Nat

VARIABLES
  clock,        \* time.Now()
  account,      \* users.status
  event,        \* events
  company,      \* companies
  members,      \* company_members: the users in each company
  participant,  \* event_participants: None, Solo, or the company joined
  application,  \* applications: status of the latest row of a company and user
  tx,           \* the transaction each connection runs
  held          \* the row locks it holds

tables == <<account, event, company, members, participant, application>>
vars == <<clock, tables, tx, held>>

EventRow == [status: EventStatuses, deleted: BOOLEAN, form: EventForm, creator: Users]
CompanyRow ==
  [event: Events, owner: Users, status: CompanyStatuses, deleted: BOOLEAN,
   max: Sizes, join: JoinTypes, minAge: Nat]

ASSUME NullAssumption == None \notin EventRow \cup CompanyRow \cup ApplicationStatuses

EventOps == {"createEvent", "editEvent", "deleteEvent", "approveEvent", "rejectEvent",
             "blockEvent", "joinSolo", "cancelSolo", "createCompany"}
\* The event row is locked before the company row.
EventThenCompany == {"joinOpen", "leave", "removeMember", "apply", "approve", "reject"}
\* lockCompany: SELECT ... FOR UPDATE OF c, e takes the company row first.
CompanyThenEvent == {"update", "open", "close"}
CompanyOnly == {"blockCompany", "deleteCompany", "cancelApplication"}
CompanyOps == EventThenCompany \cup CompanyThenEvent \cup CompanyOnly
UserOps == {"ban", "unban"}
AllOps == EventOps \cup CompanyOps \cup UserOps \cup {"completeDue"}

Resolutions == {"approve", "reject"}
\* The operations that cancel all pending applications of a company or of an event.
Cancellations == {"deleteEvent", "completeDue", "blockCompany", "deleteCompany"}

\* The operations that put a user into a company.
Admissions == {"createCompany", "joinOpen", "approve"}

ASSUME OpsAssumption == Ops \subseteq AllOps

(***************************************************************************)
(* Rows that are locked.  FOR KEY SHARE locks of one user row do not       *)
(* exclude each other, so each connection has its own.                     *)
(***************************************************************************)
EventLock(e) == <<"event", e>>
CompanyLock(c) == <<"company", c>>
ApplicationLock(c, u) == <<"application", c, u>>
ParticipantLock(e, u) == <<"participant", e, u>>
UserLock(u) == <<"user", u>>
UserShare(u, k) == <<"share", u, k>>

Locks ==
  {EventLock(e) : e \in Events} \cup {CompanyLock(c) : c \in Companies}
    \cup {ApplicationLock(c, u) : c \in Companies, u \in Users}
    \cup {ParticipantLock(e, u) : e \in Events, u \in Users}
    \cup {UserLock(u) : u \in Users}
    \cup {UserShare(u, k) : u \in Users, k \in Conns}

Steps == {"event", "company", "application", "user", "check", "write"}
Idle == [step |-> "idle"]
Request ==
  [op: AllOps, step: Steps, actor: Users \cup {Admin}, user: Users \cup {None},
   event: Events \cup {None}, company: Companies \cup {None}, now: Nat, count: Nat,
   had: BOOLEAN, patch: Drafts \cup Patches \cup EventForms \cup {None}]

-----------------------------------------------------------------------------
(* Queries on the tables. *)

EventLive(e) == event[e] # None /\ ~event[e].deleted
CompanyLive(c) == company[c] # None /\ ~company[c].deleted

CompaniesOfEvent(e) == {c \in Companies : company[c] # None /\ company[c].event = e}

\* SELECT ... FROM company_members JOIN companies ... WHERE deleted_at IS NULL
CompaniesOf(u, e) == {c \in CompaniesOfEvent(e) : ~company[c].deleted /\ u \in members[c]}

PendingOf(cs) == {p \in cs \X Users : application[p[1]][p[2]] = "pending"}

\* The pending applications of companies cs are cancelled by the system.
Cancelled(cs) ==
  [c \in Companies |-> [u \in Users |->
     IF c \in cs /\ application[c][u] = "pending" THEN "cancelled" ELSE application[c][u]]]

\* The event ends at ends_at or, without one, at starts_at.
Deadline(e) == IF event[e].form.ends = None
               THEN event[e].form.starts ELSE event[e].form.ends

EventAvailable(e, now) == event[e].status = "active" /\ Deadline(e) > now

\* Variant: the limit is compared with the wrong sign.
AgeBelowLimit(u, c) == company[c].minAge = 0 \/ Age[u] <= company[c].minAge

AgeEligible(u, c) == company[c].minAge = 0 \/ Age[u] >= company[c].minAge

-----------------------------------------------------------------------------
(* The order in which each operation takes its row locks. *)

\* Variant: taking part in an event does not lock the event.
FirstStepWithoutEvent(op) ==
  CASE op \in EventThenCompany -> "company"
    [] op \in {"joinSolo", "createCompany"} -> "check"
    [] op \in EventOps \ {"createEvent"} -> "event"
    [] op \in CompanyThenEvent \cup CompanyOnly -> "company"
    [] op \in UserOps -> "user"
    [] OTHER -> "check"

\* Variant: a resolution locks its application and neither the event nor the company.
FirstStepOfApplication(op) ==
  CASE op \in Resolutions -> "application"
    [] op \in (EventThenCompany \ Resolutions) \cup (EventOps \ {"createEvent"}) -> "event"
    [] op \in CompanyThenEvent \cup CompanyOnly -> "company"
    [] op \in UserOps -> "user"
    [] OTHER -> "check"

FirstStep(op) ==
  CASE op \in EventThenCompany \cup (EventOps \ {"createEvent"}) -> "event"
    [] op \in CompanyThenEvent \cup CompanyOnly -> "company"
    [] op \in UserOps -> "user"
    [] OTHER -> "check"

\* Variant: the lock of the event is taken to cover its companies.
StepAfterWithoutCompany(op, step) ==
  CASE step = "event" /\ op \in Resolutions -> "application"
    [] step = "company" /\ op \in CompanyThenEvent -> "event"
    [] step = "company" /\ op = "cancelApplication" -> "application"
    [] step = "application" /\ op \in Resolutions -> "user"
    [] OTHER -> "check"

\* Variant: a resolution does not look at the applicant.
StepAfterWithoutUser(op, step) ==
  CASE step = "event" /\ op \in EventThenCompany -> "company"
    [] step = "company" /\ op \in CompanyThenEvent -> "event"
    [] step = "company" /\ op \in Resolutions \cup {"cancelApplication"} -> "application"
    [] OTHER -> "check"

\* Variant: Delete finds the company through lockCompany, which locks the event, too.
StepAfterLockCompany(op, step) ==
  CASE step = "event" /\ op \in EventThenCompany -> "company"
    [] step = "company" /\ op \in CompanyThenEvent \cup {"deleteCompany"} -> "event"
    [] step = "company" /\ op \in Resolutions \cup {"cancelApplication"} -> "application"
    [] step = "application" /\ op \in Resolutions -> "user"
    [] OTHER -> "check"

StepAfter(op, step) ==
  CASE step = "event" /\ op \in EventThenCompany -> "company"
    [] step = "company" /\ op \in CompanyThenEvent -> "event"
    [] step = "company" /\ op \in Resolutions \cup {"cancelApplication"} -> "application"
    [] step = "application" /\ op \in Resolutions -> "user"
    [] OTHER -> "check"

\* Rows the SELECT ... FOR UPDATE and FOR KEY SHARE of the checks name.
CheckLocks(r) ==
  CASE r.op = "createCompany" ->
         {ParticipantLock(r.event, r.user)}
           \cup {CompanyLock(c) : c \in CompaniesOf(r.user, r.event)}
    [] r.op = "joinOpen" /\ company[r.company].minAge > 0 ->
         {ParticipantLock(r.event, r.user), UserLock(r.user)}
    [] r.op = "apply" /\ company[r.company].minAge > 0 -> {UserLock(r.user)}
    [] r.op \in {"joinSolo", "joinOpen", "approve"} -> {ParticipantLock(r.event, r.user)}
    [] OTHER -> {}

CompanyRows == {CompanyLock(c) : c \in Companies}
PendingRows(cs) == {ApplicationLock(p[1], p[2]) : p \in PendingOf(cs)}

\* Rows the writes update, or whose key a foreign key of an inserted row shares, other than
\* those the checks have locked.
WriteLocks(r, k) ==
  CASE r.op \in {"createEvent", "joinSolo", "createCompany", "joinOpen", "apply"} ->
         {UserLock(r.user)}
    [] r.op = "deleteEvent" ->
         {CompanyLock(c) : c \in {d \in CompaniesOfEvent(r.event) : ~company[d].deleted}}
           \cup PendingRows(CompaniesOfEvent(r.event))
    [] r.op = "completeDue" ->
         PendingRows({c \in Companies :
                        company[c] # None /\ EventLock(company[c].event) \in held[k]})
    [] r.op \in {"blockCompany", "deleteCompany"} -> PendingRows({r.company})
    [] OTHER -> {}

\* The locks the step r is at has to obtain, or to wait for, before it ends.
NeededLocks(r, k) ==
  CASE r.step = "event" -> {EventLock(r.event)}
    [] r.step = "company" -> {CompanyLock(r.company)}
    [] r.step = "application" -> {ApplicationLock(r.company, r.user)}
    [] r.step = "user" ->
         {UserLock(r.user)} \cup {UserShare(r.user, j) : j \in Conns \ {k}}
    [] r.step = "check" -> CheckLocks(r)
    [] r.step = "write" -> WriteLocks(r, k)
    [] OTHER -> {}

\* The connections the step of connection k waits for.  A statement that locks many rows waits
\* for one of them at a time, but does not end before all of these have released theirs.
Blockers(k) ==
  IF tx[k] = Idle THEN {}
  ELSE {j \in Conns \ {k} : NeededLocks(tx[k], k) \cap held[j] # {}}

At(k, step) == tx[k].step = step /\ Blockers(k) = {}

\* One step of the transaction on connection k: take locks, go to the next step.
Advance(k, locks, step) ==
  /\ tx' = [tx EXCEPT ![k].step = step]
  /\ held' = [held EXCEPT ![k] = @ \cup locks]
  /\ UNCHANGED <<clock, tables>>

\* UPDATE companies and UPDATE applications lock row after row in the order of their scans and
\* keep what they have locked while they wait for the next one.  A row that somebody else takes
\* out of its pending state meanwhile is passed over.  Event deletion updates the companies
\* first.  The commit that follows takes the rows that are left, when all of them are free.
LockRow(k) ==
  /\ tx[k].step = "write"
  /\ tx[k].op \in Cancellations
  /\ \E l \in WriteLocks(tx[k], k) \ held[k] :
       /\ \A j \in Conns \ {k} : l \notin held[j]
       /\ l \in CompanyRows \/ WriteLocks(tx[k], k) \cap CompanyRows \subseteq held[k]
       /\ held' = [held EXCEPT ![k] = @ \cup {l}]
  /\ UNCHANGED <<clock, tables, tx>>

\* Variant: a transaction that ends keeps its row locks.
ReleaseWithoutRollback(k) ==
  /\ tx' = [tx EXCEPT ![k] = Idle]
  /\ UNCHANGED held

\* Commit and Rollback alike free the connection and every row it has locked.
Release(k) ==
  /\ tx' = [tx EXCEPT ![k] = Idle]
  /\ held' = [held EXCEPT ![k] = {}]

\* About to write and commit operation op.
Writing(k, op) ==
  /\ tx[k].step = "write"
  /\ tx[k].op = op
  /\ Blockers(k) = {}
  /\ Release(k)
  /\ UNCHANGED clock
=============================================================================
