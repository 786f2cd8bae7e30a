# Formal models of poidem-back

`poidem-back` is the backend of a service where people go to events together: an
event is published after moderation, a user comes alone ("solo") or in a
*company* of the event, and companies admit members openly or by application.
It is a Go program (Gin handlers → services → repositories) over one PostgreSQL
database, with an S3-compatible store for pictures and one background worker per
kind of clean-up. Several processes may run; they share nothing but the database.

The models take the code under `src/` as the reference. Line numbers are in
`PROJECT.json` (`map`).

## 1. Inventory

| Component (source) | State | Operations | What is hard | What makes it correct |
|---|---|---|---|---|
| Transactions (`internal/platform/postgres`) | one transaction per request, its row locks | begin, statement, commit, rollback | READ COMMITTED, waiting for locks, deadlocks, failure at any point | every request ends; locks die with the transaction |
| Events (`internal/events`) | `events`, `event_participants` | create, edit, delete, approve, reject, block, solo join and cancel, completion worker | moderation, edits, worker and participation at once | ended events stay ended; nobody takes part in an event that is not active; a deleted event has no participants |
| Companies (`internal/companies`) | `companies`, `company_members`, `event_participants` | create, join, leave, remove, update, open, close, delete, block | capacity and one-company checks before an insert; two tables telling one story; settings changing under a join | one company per event; last seat once; owner stays a member; a block is final |
| Applications (`internal/companies`) | `applications` | apply, cancel, approve, reject; bulk cancellation by block, deletion, completion | resolution races with cancellation, block, ban, completion | one resolution; approval is admission; no pending application in a dead company |
| Accounts (`internal/account`) | `users.status`, `users.role` | authenticate, ban, unban | the status is read before the handler's transaction | a banned user does not enter companies |
| Sessions (`internal/account`) | `sessions`: token hash, previous hash and its grace window | login, refresh, logout, revocation by a ban | a refresh beside a logout, a ban or its own repetition; lost answers | a revoked session never comes back; a repeated refresh is served; a logout ends the session |
| Registration and OAuth accounts (`internal/account`) | `users.username`, `auth_accounts` | registration, password login, first and later OAuth login | two first logins, or two spellings of a name, at once; a commit whose answer is a failure | one user per identity; a confirmed registration can log in |
| OAuth flow (`internal/account/oauth`, `httpv1/oauth_handler.go`) | one cookie per provider in the browser, nothing in the server | start, callback, error callback | answers out of order, several tabs, abandoned flows | a flow that comes back in time is served |
| Profile (`internal/account/profile.go`) | the row of `users`, `user_interests` | patch; its completeness and birth date are read by whoever takes part | the gate reads outside the transaction | who takes part has a complete profile and the age |
| Covers (`internal/events/cover.go`) | `event_uploads`, objects | upload, attach, clean up | object store and database have no common transaction | the cover of an event exists and is linked to it |
| Avatars (`internal/account/avatar.go`) | `users.avatar_object_key`, objects | upload, delete | concurrent requests of one user; an ambiguous commit | the avatar of a user exists; no object is left behind |
| Reports (`internal/reports`) | `reports` | create, resolve, list | check-then-insert; two administrators; a list that changes under its reader | a report is resolved once; a walk misses none |
| Pagination (`internal/api/pagination`) | – | parameters to offset, total to pages | overflow, division by zero | the offset of an accepted page is exact |
| Rate limiter (`internal/api/ratelimit`) | one fixed window per client, in memory | allow | time sampled before the mutex; eviction | no client gets more than its limit, nobody is refused for others |
| Catalog, HTTP surface, tokens, process wiring, running the migrations | – | single reads, I/O | – | – |

Interactions. A handler authenticates the caller (`account.Service`, one read),
then runs one repository method, which is one transaction. Companies,
applications, event moderation and the completion worker meet in the rows of one
event: everything that puts a user into an event first locks the event row.
Deleting an event, completing it, deleting or blocking a company reach into the
tables of the others in bulk statements. Only row locks and four unique keys
(`company_members`, `event_participants`, one pending application per pair, the
ids) protect what a handler has checked. Sessions meet the rest in the row of the
user, which a login and a ban lock. A profile meets companies when a user enters
one: the gate reads its completeness, `ensureAgeEligible` locks its birth date.
Covers meet events in `event_uploads`, which the handlers of an event link and
release and the cleanup worker empties.

`PROJECT.json` lists every component with its status, and every hazard of the
code at its line with the properties that would catch it.

## 2. Modules

```
Database            tables, row locks, transaction steps
 ├─ EventHandlers   what event handlers check and write; the completion worker
 └─ CompanyHandlers what company handlers check and write
     └─ ApplicationHandlers
Poidem              all of them, bans and failures, on concurrent connections; properties
 ├─ PoidemRefinement  the tables read as places; Poidem implements Membership
 │   └─ MCPoidem      instances for TLC, seven .cfg files
 └─ PoidemAdmissionProofs     types, the event lock, one company per event
     └─ PoidemCompanyProofs   companies, applications, events
         └─ PoidemPlaceProofs (with PoidemRefinement: Poidem implements Membership)
             └─ PoidemLockProofs  deadlocks
Membership          abstract: what taking part in events means
Sessions            refresh sessions, browsers, bans            MCSessions, two .cfg files
 └─ SessionProofs
CoverStorage        covers, their uploads, the cleanup workers  MCCoverStorage, two .cfg files
 └─ CoverProofs
Avatars             avatars and their objects        ┐
Registration        registrations and OAuth accounts │
OAuthFlow           the cookie of an OAuth flow      │
Profiles            profile edits beside entries     ├─ Services    MCService, one .cfg file
Pagination          pages in integers of fixed width │
 └─ Reports         reports and the walk in pages    │
RateLimiter         fixed windows behind a mutex     ┘
AccountProofs (Avatars, Registration, OAuthFlow, Profiles)
ServiceProofs (Pagination, Reports, RateLimiter, Services)
```

The modules from `Sessions` on stand alone: they share no table with `Poidem` but the
status of an account, the existence of an event and the age of a user, whose changes they
have as actions of their own. `Services` composes the components that share nothing at
all; a behaviour of it runs one of them, so that their states add up, and is a behaviour of
each of them.

**How a request is modelled.** `tx[k]` is the transaction of connection `k`.

1. `Call` – the handler has authenticated the caller (`Authenticated` reads
   `account` here and never again), the service has sampled `now`, the
   repository method has begun.
2. `LockEvent`, `LockCompany`, `LockApplication`, `LockUser` – one
   `SELECT ... FOR UPDATE` each, in the order of the method (`FirstStep`,
   `StepAfter`). `lockCompany` takes company then event with one statement, all
   others event then company. A step whose rows another connection holds is not
   enabled (`Blockers`).
3. `Check` – the queries and conditions that follow the locks (`Allowed`, one
   `...Allowed` operator per method), with the rows they lock themselves.
4. `LockRow` – the updates of many rows lock these one by one, in any order, and
   keep what they have: the pending applications that `Block`, `Delete` of a company,
   `Delete` of an event and the worker cancel, and before them the companies of a
   deleted event.
5. One writing action per method (`CreateCompany`, `JoinOpen`, ...) – what its
   statements write, and the commit. It is enabled when no row it writes is locked by
   another connection.

`Refuse` is every early return, `Fail` a rollback at any other point (client
gone, connection lost, process crashed), `AbortVictim` the deadlock detector.
The tables hold committed rows only, so a step sees what READ COMMITTED shows
it, and between the check and the write anything may commit that the held locks
do not exclude. Two values are stale in the code and in the model: `now`,
and the member count of `update`, which `lockCompany` reads in the snapshot of
the statement that then waits for the lock. An insert that meets a row its checks
did not see is refused by a unique key (`UniqueViolation`).

What is merged, and why. *Writes become visible with the commit*, since others do not
see uncommitted rows. *Their locks do not come all at once*, since an `UPDATE` of many
rows holds some while it waits for others, and two of them may wait for each other:
that is `LockRow`. A write that waits for one row only (the user a foreign key names)
waits and commits in one step. A row that is no longer pending when its lock is granted
is passed over (PostgreSQL evaluates the condition on the new version), and so it is in
`WriteLocks`, which is evaluated in every state; no row comes to the set, because an
application needs the locks of its event and its company. `event_participants` rows that
are deleted have no step of their own: the deletion of a company deletes them last, and
whoever else has locked one that names the company finds that it does and is refused
without waiting for more; the deletion of an event has the event and its companies by
then. So these waits close no circle. The checks
are one step: each of them reads rows of an event whose row the transaction has locked,
or rows it locks.

**Membership.** The promise behind the two participation tables: a user has one place in
an event, alone or in a company; `Found` and `Enter` take a solo place along and never a
place in another company; a founder does not `Depart`; `Disband` and `Dissolve` take the
places of all and of nobody else; what is gone takes nobody in. `PoidemRefinement` reads
*both* tables as one set of places per user and event (`Place`): were a write of
`company_members` without its `event_participants`, or the reverse, ever committed, the
user would have two places or a wrong one, and the commit would be no move of
`Membership`. Locks, requests and all statuses are stutters. The mapping is evaluated in
every state, as every commit writes both tables. `Membership!Promise` says what follows from
the moves for the places themselves, and `PromiseIsKept` that the tables keep it.

**Abstractions.** Users have completed profiles (`Profiles` has the gate); a birth date is an age and only the
lower age limit is kept; descriptions, places, tags and rules are left out; an event's
coordinates and cover are one Boolean, `publishable`; of the applications of one user to
one company the latest is kept; which cover an event has is in `CoverStorage`, the
sessions that a ban revokes are in `Sessions`. A company or event id that is `None` has
not been created yet.

**Sessions.** A request is sent by a browser with the cookie of that moment
(`SendRefresh`, `SendLogout`, `SendLogin`, `SendStatus`), reaches its handler, which
samples `now` (`Arrive`), takes its lock (`LockSession`, `LockCredentials`, `LockUser`),
writes and commits (`Rotate`, `Logout`, `CreateSession`, `Ban`, `Unban`) or is refused,
and its answer sets or clears the cookie (`Deliver`). The random tokens of a session are
numbered in the order they are issued, so "the token hash in the row" is a number.
`Logout` is one `UPDATE` and one step; it waits for the row and then looks at what has
become of it. The browser is not part of the repository and is modelled as the frontend
the docs describe: one refresh at a time, none while it logs out, a repetition when an
answer is lost (`Lose`) or its page is reloaded (`Abandon`). `missed` and `impatient`
are history: they say which answers a browser has not had, and only properties read
them.

**Covers and avatars.** The object store is a set of keys. Each call to the store or to
the database is a step, and each has a failing twin that leaves either outcome
(`PutFails`, `InsertFails`, `CommitUnclear`, `RemoveObjectFails`, the choice in
`Remove`). What an event's handler does to an upload is one step, since it has locked
the event's row and the upload's. The id of a deleted event stands for the next event
too, which keeps the instance small; the status of an event does not restrict its edits,
as it does not for an administrator. History variables (`late`, `unclear`, `leaked`)
record which promise a property leaves out.

**Registration.** One attempt is one transaction: `InsertUser` meets the unique index on
`lower(username)`, `LockIdentity` the advisory lock, `FindAccount` and `InsertAccount` are
the two statements of `FindOrCreateOAuthUser`, `CommitAttempt` inserts the session and
commits with an answer that may say the contrary. A password is known by its registration,
a username by its spelling and `Normal`.

**OAuthFlow.** A flow's state value is the flow itself. The answers that set the cookie
(`GoToProvider`) and clear it (`AnswerCallback`) are steps of their own, taken after the
handler's (`StartFlow`, `Callback`), so they reach the browser in any order. `spoilt` is
history: the flows another answer of their provider has cut off, or that took too long.

**Profiles.** `LockProfile` is the `FOR UPDATE` of an edit, `SaveProfile` its checks and
writes; an entry passes the gate (`PassGate`), locks the birth date with `FOR KEY SHARE`
(`CheckAge`) and commits (`EnterCompany`). A field of a patch is left alone, set to null or
given, as the decoder tells them apart; only the values that validation tells apart are kept.

**Reports and Pagination.** `LookForTarget` and `InsertReport` are the two statements of a
creation, `LockReport` and `ResolveReport` the transaction of a resolution. `ReadPage` and
`ReadTotal` are the two statements of a list, in the order `created_at DESC, id DESC`;
`created` is the instant the service sampled, so a row may appear behind the newest.
`Pagination` computes in integers that wrap around at `MaxInt`.

**RateLimiter.** `Arrive` samples the clock, `Allow` is the body under the mutex with its
three ways out, `Evict` the sweep of a full map. A request waits for the mutex at most
`MaxWait`, at most half a window (the windows of the code are minutes to hours long). With a
longer wait `ClientIsBounded` is false: a sweep forgets the window of a client, a request that
waited opens it anew from its old instant, and a fourth window begins within the length of
one. The proof of `ClientsAreBounded` brought that to light.

## 3. Runs

The first seven runs use module `MCPoidem`. `Ops` selects the operations clients call, so
that each run is about one question and stays small.

| Run | Checks | Shows |
|---|---|---|
| membership | `OneCompanyPerEvent`, `ParticipationMirrorsMembership`, `OwnerIsMember`, `AdmissionIsLegal`, `ImplementsMembership` | three users, two companies of one event, create/join/leave/remove/delete and solo |
| applications | `PendingIsOpen`, `AdmissionIsLegal`, `ResolutionIsFinal`, `ApprovalAdmits` | apply/cancel/approve/reject against block and ban |
| management | `DeadlocksMixOrders`, `AdmissionIsLegal`, `BlockIsFinal` | update/open/close/delete/block and the worker against joins and applications, an age limit that is raised; both orders of locks and both orders of cancellation |
| event_life | `TypeOK`, `ParticipationMirrorsMembership`, `PendingIsOpen`, `AdmissionIsLegal`, `EventEndIsFinal`, `ImplementsMembership` | creation, moderation, edits, deletion, completion, clock |
| locks | `EveryRequestEnds`, `DueIsCompleted` | both lock orders, deadlocks, passes of the worker over two events, one per pass |
| capacity | `CapacityCoversMembers` – **violated** | finding 1 |
| ban | `BannedNeverJoin` – **violated** | finding 2 |
| sessions | `TypeOK`, `BannedHasNoSession`, `RevocationIsFinal`, `LogoutEndsKnownSession`, `RetryIsServed` | refreshes, lost answers and repetitions, logout, password and OAuth login, ban and unban |
| logout | `LogoutEndsSession` – **violated** | finding 3 |
| covers | `TypeOK`, `CoverIsLinked`, `PromptCoverExists` | two uploads, two events, two workers, failing calls, clock |
| cover_cleanup | `CoverExists` – **violated** | finding 4 |
| service: avatars | `AvatarExists`, `NoOrphan` | three uploads and two deletions of one avatar, failing calls, crashes |
| service: registration | `IdentityIsOneUser`, `RegisteredCanLogIn` | three registrations, two of one name, and three OAuth logins, two of one identity |
| service: flow | `PromptFlowIsServed` | three flows at two providers, answers in any order, clock |
| service: profile | `ActorIsComplete`, `EntersOfAge` | four edits (valid, clearing, under age, unknown interest) beside two entries |
| service: reports | `ReportIsResolvedOnce`, `WalkMissesNone` | three reports, two administrators, a walk with pages of one |
| service: limiter | `ClientIsBounded`, `RefusalIsEarned` | five requests of two clients, a map of one entry, waiting for the mutex |

`ServiceTypeOK` is the conjunction of the type invariants of these six. `AdmissionIsLegal` is about
every new member and every new place in an event: live and active at the commit, with a deadline
(as edited by then) after the instant the request came. That instant is sampled before the
locks are waited for (`companies/service.go:120`), so an event that ends meanwhile still admits.

**Bounds.** Two connections: every hazard listed is a race of two transactions,
and one transaction of another connection may always run to its end between two
steps of the first, so longer chains of requests are covered too. Three users:
an owner and two who compete for the last seat of a company of two, or whose
applications two cancellations take in two orders. One event, but two in run locks:
no transaction but the worker's touches two. Two companies where the one-company
rule is asked, one elsewhere. `Companies` and `Events` are also the ids that
may ever be created (`SpareId` lets no creation begin that would find none).
`LastInstant` bounds the clock: event_life starts at 0, with events at 1, so that
publishing, ending and moving the start to 2 all happen. `Batch = 1` is the
worker's batch. `Strangers` bounds who tries an owner's operation on a company
that is not his: such requests are refused by one comparison, and run locks has them. Run
management edits with two patches: an age limit above every user's age, and a change
from open admission to applications.

Run locks has two events that end at instant 1 and a batch of one, so that a pass takes one
of them, leaves the other to a later pass, and passes over the one that a creation, a join
or a closing holds. Its state constraint (`OneCreator`) only fixes who has created the two
events; nothing in the run reads or changes that.

Sessions: one browser and one session on two connections, so that a refresh meets its
repetition, a logout, or a ban; `MaxTokens = 3` allows the two rotations after which a
token is forgotten, the clock passes the window (1) and the lifetime (2), `MaxLost = 1`
answer in a row is lost: `api/openapi.yaml:143` promises a retry after the *first* lost
response, and a token presented a third time is indeed refused, since each rotation forgets
the token before last. Covers: `MaxAge = 0` with instants 0 to 2 lets an upload expire
and be used before and after; two workers are two processes. Avatars: three uploads are
a writer, a concurrent writer and one that comes later. Registration: `ann` and `Ann` are
two spellings of one name. OAuth flows: with `Ttl = 1` and instants to 2 a flow comes back
before, at and after its end. Reports: pages of one report make a walk of three pages;
only one report is ever decided on (`Attended`), which is enough to shrink the list;
`MaxInt = 7` is the width. Limiter: `Window = 3` and `MaxWait = 1` let a request
that waited close a window that a fresh one has opened; a map of one entry is swept at the
second client.

**Symmetry.** Users, companies and connections are interchangeable where no liveness
is checked; all users of an instance are of one age. Locks, capacity and ban use none. Sessions, covers and avatars permute browsers,
sessions, connections, uploads, events and workers, which nothing tells apart (all belong
to one user); service also permutes the two flows of one provider.

**Deadlock** is checked, except in management, where the only company may be
deleted for good and nothing is left to call, and in service, where every request of
the instance comes to its end.

**Fairness** (run locks only). `SF_vars(Progress(k))`: PostgreSQL queues the
waiters of a row, so a statement whose lock is free again and again is granted;
without waiting it is just the thread of the handler going on. `WF_vars(AbortVictim(k))`:
the deadlock detector runs after `deadlock_timeout`. `SF_vars(\E k : CompletionPass(k))`:
the worker's ticker goes on, and the pool gives it a connection in its turn.
`SF_vars(\E k : LockDue(k) /\ held' # held)` and `SF_vars(\E k : CompleteDue(k) /\ event' # event)`:
a pass that could lock a due event again and again does, and its statements do not fail for
ever; without the first, `SKIP LOCKED` may always meet the row at a moment when somebody has
it, which is why `DueIsCompleted` allows an event to stay active if, from some point on,
another request holds its row whenever a pass looks. Nothing obliges a
client's request to arrive, to fail, or the clock to pass.

## 4. Findings

1. *Capacity below the members* (run capacity). `lockCompany` counts members in the very
   statement that waits for the lock (`companies/postgres/repository.go:1184`). A join
   that holds the lock commits; the waiting statement re-reads the locked rows but not
   the count of its snapshot; `Update` (`:317`) accepts a `maxMembers` below the
   members. `docs/development-plan.md:200`: "уменьшение ниже текущего состава
   запрещено". `LimitYieldsToStaleCount` proves that this is the only way to outgrow a limit.
2. *A banned user joins* (run ban). `Authenticate` reads the status before the
   transaction; `JoinOpen` never does. `ResolveApplication` does (`:984`), and
   `ApprovalAdmits` holds for it. `docs/development-plan.md:187`: "Перед вступлением:
   пользователь не banned". `BanIsMissedByJoinOpen` proves that no other way into
   the company of somebody else misses a ban, and `OneAtATimeKeepsRules` that findings 1 and 2 are races: on one connection neither happens.
3. *A logout leaves the session alive* (run logout). `RevokeSession`
   (`account/postgres/sessions.go:83`) knows the current and the previous token. A
   browser whose refresh was answered by nobody repeats it; while the repetition runs
   the user logs out, with the same cookie. The repetition rotates first: the cookie's
   token is now two rotations old, the `UPDATE` matches no row, and the answer is 204.
   `docs/backend-requirements-poydem.md:20`: "Logout отзывает текущую refresh-сессию и
   очищает cookie". `LogoutEndsKnownSession` shows that this takes a lost answer.
4. *A cover loses its object* (run cover_cleanup). The worker asks whether an upload is
   unlinked when it lists it and when it deletes the row, not when it removes the object
   (`events/cover.go:150`). An upload used in between stays linked to the event and has
   no object. `api/openapi.yaml:384`: "The returned URL may be used by the same user in
   POST or PATCH event. Unlinked uploads expire after 24 hours." `PromptCoverExists`
   shows that an upload used before it expires is safe.

## 5. Proofs

TLAPS proves these for every value of the constants, from the assumptions of the modules:
`DatabaseAssumption`, `NullAssumption`, `OpsAssumption`, `FounderAssumption` for `Poidem` and
its refinement, and `SessionsAssumption`, `NoneAssumption`, `CoverAssumption`,
`AvatarAssumption`, `RegistrationAssumption`, `FlowAssumption`, `ProfileAssumption`,
`PaginationAssumption`, `ReportAssumption`, `LimiterAssumption`. They ask for finite sets, null
values that are no value, and inputs of the stated shapes; only `LimiterAssumption` bounds a
behaviour (`2 * MaxWait <= Window`). TLC evaluates each of them in a run.

| Theorem | States | Inductive invariant and argument |
|---|---|---|
| `PoidemAdmissionProofs!TypeCorrect` | `[]TypeOK` | `TypeInv`. `TypeOK` alone is not inductive: a write updates fields of rows that must exist. Added: companies have their events, a request names what its operation needs at each step, locked events exist (for the worker's batch). |
| `PoidemAdmissionProofs!EventIsSerialised` | `[]LockInv` | No two connections hold the lock of one event, and one past its event step holds it. |
| `PoidemAdmissionProofs!OneCompany` | `[]OneCompanyPerEvent` | `AdmissionInv` adds `AdmissionChecked`: a transaction about to write an admission still finds the user in no company of the event. Another admission would need the event lock the first holds; departures only make it truer. An id not yet used has no members (`UnbornIsEmpty`). |
| `PoidemCompanyProofs!OwnersAreMembers` | `[]OwnerIsMember` | Who is about to leave is not the owner, and the owner of a row never changes: no lock is needed. |
| `PoidemCompanyProofs!BlockedStaysBlocked` | `BlockIsFinal` | `RowLockInv`: company and application rows are locked by one connection, and whoever is past the locking statement holds the row. So a company that was not blocked when open or close looked is not blocked when it writes; bulk writes (deletion of the event) wait for the lock. |
| `PoidemCompanyProofs!ResolutionsAreFinal` | `ResolutionIsFinal` | The same with the row of the application: it was found pending under its lock, and block, deletion and completion wait for that lock. |
| `PoidemCompanyProofs!EventsEndForGood` | `EventEndIsFinal` | `EndInv`: a locked event is live, its writer has found it in a status that may change, and a pass of the worker holds active events only. |
| `PoidemPlaceProofs!TablesAgree` | `[]ParticipationMirrorsMembership` | `MirrorInv`: the admission about to be written finds the user where both tables say, since `AdmissionChecked` and the event's lock keep other places away, and every departure and bulk deletion writes both tables. |
| `PoidemPlaceProofs!PendingCanBeResolved`, `ApprovalIsAdmission`, `AdmissionsAreLegal` | `[]PendingIsOpen`, `ApprovalAdmits`, `AdmissionIsLegal` | `CheckedInv`: what a request has found of its event, its company and its applicant is still so when it writes (`WriteChecked`, `ApplicantChecked`), for whoever changes one of them needs a row lock the request holds; a company whose row is locked lives. Not inductive without all the invariants above: each of them says of one row who can have changed it. A request past its checks keeps the instant it came with, and the event's row, so the deadline it was compared with is the one at the commit. |
| `PoidemPlaceProofs!HandlersImplementMembership` | `ImplementsMembership` | Step simulation: under `MirrorInv` every commit is one move of `Membership` (the worker's and the bulk deletions move all places at once), every other step a stutter. |
| `PoidemPlaceProofs!PromiseIsKept` | `[]KeepsPromise` | `MirrorInv` gives each user one place per event, `OwnerIsMember` the founder's, and what is deleted has no members: the invariants of the tables, read as places. |
| `PoidemPlaceProofs!LimitYieldsToStaleCount`, `BanIsMissedByJoinOpen` | `OutgrownByStaleCount`, `BannedOnlyJoinOpen` | `RulesInv` adds that an update past its check has a limit not below its own count (`UpdateChecked`); admissions have their room and approvals an active account by `CheckedInv`. |
| `PoidemPlaceProofs!OneAtATimeKeepsRules` | `[]CapacityCoversMembers`, `BannedNeverJoin`, if there is one connection | `Undisturbed`: the count and the status a request has read are still those of the tables while nobody else runs. |
| `PoidemLockProofs!DeadlocksAreOfTwoKinds` | `[]DeadlocksMixOrders` | `WaitInv`: by operation and step it is known which kinds of rows a request may hold (`HeldFits`) and may wait for, and of a bulk cancellation which companies its rows are of (`BulkCovered`; that no application turns pending under it is `PendingIsOpen`). In the order event, company, application, user a holder waits only for a later kind, with two exceptions: who has locked a company in `lockCompany` waits for its event, and who cancels many applications waits for another of them. In a circle nobody holds a user, a key share or a participation row, since their holders have nothing left to wait for there. So it is of the first exception, for an event whose holder came by another way, or two cancellations meet: these have neither an event nor a company in common, so they are a completion pass and the end of a company, which wait for each other. |
| `PoidemLockProofs!OneOrderNeverDeadlocks` | nobody is ever `Deadlocked`, if no operation of `CompanyThenEvent` is called, and not both the worker and `blockCompany` or `deleteCompany` | From the theorem above: nobody can be the request of either kind of circle. The hypothesis is about `Ops` alone. |
| `SessionProofs!SessionTypeCorrect` | `[]TypeOK` | `TokensLast`: a session has tokens left for every refresh under way. `OneHome`: all tokens of a session are one browser's, which sends one refresh at a time. Both are needed for the bound on tokens. |
| `SessionProofs!NoSessionWhileBanned` | `[]BannedHasNoSession` | `IInv`: a login past its lock holds the user's row and the user is not banned, a refresh past its lock holds a session that is live, and no row has two holders. |
| `SessionProofs!RevokedStaysRevoked` | `RevocationIsFinal` | The same invariant: only four steps write the table, and the one that renews has its session live. |
| `SessionProofs!LogoutEndsTheSession` | `LogoutEndsKnownSession` | `KnownInv`: a browser that has had every answer has the token of the row, or the one before while an answer with the new one is under way; so has its logout, and no refresh is left that could rotate away from it. |
| `SessionProofs!LostAnswerIsRepeated` | `RetryIsServed`, if `MaxLost <= 1` | `RecentInv`: the token of a refresh is the row's or the one before it. Two answers lost in a row refute it, and nothing promises otherwise (`api/openapi.yaml:143` speaks of the first lost response). |
| `CoverProofs!CoversAreLinked` | `[]TypeOK`, `[]CoverIsLinked` (with `CoverTypeCorrect`) | `CoverInv`: only an upload that succeeded is ever linked, to the event of its row. |
| `CoverProofs!PromptCoversExist` | `[]PromptCoverExists` | `RemovedIsDoomed`: whatever a worker has listed or erased was too old when listed and is so for ever, so a link to it is a late one. |
| `AccountProofs!AvatarTypeCorrect`, `AvatarsExist`, `NoOrphans` | `[]TypeOK`, `[]AvatarExists`, `[]NoOrphan` | A request that holds the row is alone and the key it has read is still there; a key in a row belongs to an upload of that user past its commit; a replaced key is in no row and cannot return; an upload that has not written yet has its object. |
| `AccountProofs!IdentitiesAreOneUser`, `RegisteredCanAlwaysLogIn` | `[]IdentityIsOneUser`, `[]RegisteredCanLogIn` | The advisory lock admits one transaction per identity, so what it found stays so; inserted and committed names differ after normalisation. |
| `AccountProofs!PromptFlowsAreServed` | `[]PromptFlowIsServed` | An undisturbed flow at the provider owns the cookie for as long as it lives, and one that has come back has brought it. |
| `AccountProofs!ActorsAreComplete`, `AllEnterOfAge` | `[]ActorIsComplete`, `EntersOfAge` | One edit at a time, whose row is the one it has read; while an entry holds its key share no edit is under way. |
| `AccountProofs!RegistrationTypeCorrect`, `FlowTypeCorrect`, `ProfileTypeCorrect`, `ServiceProofs!ReportTypeCorrect`, `LimiterTypeCorrect` | the type invariant of each component | The invariants below and above, and two bounds nothing else needs: ids and pages of reports (`ReportBounds`), ends of windows (`LimiterBounds`). |
| `ServiceProofs!ServiceTypeCorrect` | `[]ServiceTypeOK` | The six type invariants together. A step of one component leaves the variables of the others alone, which is a stutter of theirs, so that what is proved of each component holds of the composition that run service checks. |
| `ServiceProofs!ReportsAreResolvedOnce` | `[]ReportIsResolvedOnce` | A report under decision is pending and one administrator's. |
| `ServiceProofs!OffsetIsExact` | the offset of every accepted page is `(page - 1) * limit`, without overflow | Arithmetic, for integers of any width: the quotient that `Parse` compares with bounds the product. |
| `ServiceProofs!WalksMissNone` | `[]WalkMissesNone` | `WalkInv`: a report the reader has not seen yet ranks behind the pages read so far (`UnshownIsAhead`): a creation can only push it further back, and only a resolution pulls it forward. The last page, computed from a later total, covers the rank of each. |
| `ServiceProofs!ClientsAreBounded` | `[]ClientIsBounded` | `LimiterInv`: the last three windows of a client began at least `Window - MaxWait` apart, also if other clients had an entry removed meanwhile, and each admitted at most `Limit` before the next; a span of a window's length is shorter than two such gaps. The count in an entry alone says nothing once the entry can be removed. |
| `ServiceProofs!RefusalsAreEarned` | `RefusalIsEarned` | `Counted`, of the same invariant: an entry never counts more than the client's admissions since its window began. |

The specification of the component (`Spec`, `ReportSpec`, `LimiterSpec`, ...) stands before each
of them but `OffsetIsExact`. The lemmas follow the actions: one per action or group of actions
that can disturb an invariant, and beside them the arithmetic and cardinality facts they share
(`Division`, `PagesSuffice`, `RankGrows`, `OneAdmitted`). TLC agreed with `RecentInv`,
`UnshownIsAhead` and `LimiterInv` on the instances of the runs before they were proved.

*Only model-checked*: `EveryRequestEnds` and `DueIsCompleted`, which are liveness under fairness
and out of the prover's reach. Of `EveryRequestEnds` the part that is safety is proved: which
requests can block each other at all (`DeadlocksAreOfTwoKinds`). The four violated properties have
counterexamples; for two of them it is proved that the counterexample is the only kind there is
(`LimitYieldsToStaleCount`, `BanIsMissedByJoinOpen`), and `LogoutEndsTheSession` and
`PromptCoversExist` prove the others under the condition their findings name.

## 6. Not modelled

- *Catalog* – read-only lists of cities, categories and tags; nothing changes.
- *HTTP surface* – routing, CORS, request ids, error bodies: stateless I/O. What handlers
  decode, validate and answer is in the components where a property depends on it.
- *Tokens and OAuth providers* – signatures, access tokens, PKCE and the calls to the
  provider are cryptography and the outside; the flow's cookie is in `OAuthFlow`, and a
  provider that fails is `Callback`'s failure. An access token that outlives a ban is refused
  by `Authenticate`, which reads the status.
- *Process wiring* – configuration, logging, start and graceful stop. A stop cancels requests
  and passes, which is `Fail`.
- *Schema migrations* – the tables and unique indexes are in the models that rely on them;
  running the migrations is not.
- *Lists and counters* of events, companies, users and the administrator – reads without
  effect, each one statement; the walk through a list is modelled once, in `Reports`.
- Texts, places, tags, rules, genders, and the upper age limit, which is compared like the
  lower one.

## 7. Plan

Every safety property of the passing runs is a theorem. Left to do: the hazards without a
property (`PROJECT.json` says why each has none).
