-------------------------- MODULE PoidemLockProofs --------------------------
(***************************************************************************)
(* Deadlocks.  The handlers lock rows of five kinds; for each operation    *)
(* and each of its steps it is known which kinds it may hold and which it  *)
(* may wait for.  Except for the requests of lockCompany, whoever holds a  *)
(* row waits only for rows further on in one order of the kinds: event,    *)
(* company, application, user.  The bulk UPDATEs are different: they lock  *)
(* applications while they wait for others, and of those only a completion *)
(* pass and the block or deletion of a company have neither an event nor a *)
(* company lock in common.                                                 *)
(***************************************************************************)
EXTENDS PoidemPlaceProofs

-----------------------------------------------------------------------------
(* The invariant. *)

\* The request is past the statement that locks its event.
PastEvent(op, step) ==
  \/ op \in LocksEvent /\ step # "event"
  \/ op \in CompanyThenEvent /\ step \in {"check", "write"}
  \/ op = "completeDue" /\ step = "write"

\* The operations that come to each step.
StepFits(op, step) ==
  /\ op \in AllOps /\ step \in Steps
  /\ step = "event" => op \in LocksEvent \cup CompanyThenEvent
  /\ step = "company" => op \in CompanyOps
  /\ step = "application" => op \in ResolvesOrCancels
  /\ step = "user" => op \in Resolutions \cup UserOps

\* A request holds locks only of the statements it is past.
HeldFits(r, locks) ==
  /\ \A e \in Events : EventLock(e) \in locks => PastEvent(r.op, r.step)
  /\ \A c \in Companies : CompanyLock(c) \in locks =>
       PastCompany(r.op, r.step) \/ (r.op = "deleteEvent" /\ r.step = "write")
  /\ \A c \in Companies, u \in Users : ApplicationLock(c, u) \in locks =>
       PastApplication(r.op, r.step) \/ (r.op \in Cancellations /\ r.step = "write")
  /\ \A u \in Users : UserLock(u) \in locks => PastUser(r.op, r.step)
  /\ \A e \in Events, u \in Users : ParticipantLock(e, u) \in locks =>
       r.op \in Admissions /\ r.step = "write" /\ e = r.event
  /\ \A u \in Users, j \in Conns : UserShare(u, j) \in locks =>
       r.op \in {"joinOpen", "apply"} /\ r.step = "write"

HeldByStep ==
  \A k \in Conns : /\ tx[k] = Idle => held[k] = {}
                   /\ tx[k] # Idle => StepFits(tx[k].op, tx[k].step) /\ HeldFits(tx[k], held[k])

OfEvent(c, e) == company[c] # None /\ company[c].event = e

\* What else covers an application that a bulk UPDATE has locked.
Covered(k, c) ==
  /\ company[c] # None
  /\ tx[k].op = "deleteEvent" => company[c].event = tx[k].event /\ CompanyLock(c) \in held[k]
  /\ tx[k].op = "completeDue" => EventLock(company[c].event) \in held[k]
  /\ tx[k].op \in {"blockCompany", "deleteCompany"} => c = tx[k].company

BulkCovered ==
  \A k \in Conns, c \in Companies : tx[k] # Idle /\ tx[k].op \in Cancellations =>
    /\ tx[k].op = "deleteEvent" /\ CompanyLock(c) \in held[k] => OfEvent(c, tx[k].event)
    /\ (\E u \in Users : ApplicationLock(c, u) \in held[k]) => Covered(k, c)

WaitInv == TypeInv /\ LockInv /\ RowLockInv /\ PendingIsOpen /\ HeldByStep /\ BulkCovered

-----------------------------------------------------------------------------

\* A lock names its kind and its row.
LEMMA LocksApart ==
  /\ \A e, f : EventLock(e) = EventLock(f) => e = f
  /\ \A c, d : CompanyLock(c) = CompanyLock(d) => c = d
  /\ \A c, d, u, v : ApplicationLock(c, u) = ApplicationLock(d, v) => c = d /\ u = v
  /\ \A e, f, u, v : ParticipantLock(e, u) = ParticipantLock(f, v) => e = f /\ u = v
  /\ \A e, c : EventLock(e) # CompanyLock(c)
  /\ \A e, c, u : EventLock(e) # ApplicationLock(c, u)
  /\ \A e, f, u : EventLock(e) # ParticipantLock(f, u)
  /\ \A e, u : EventLock(e) # UserLock(u)
  /\ \A e, u, j : EventLock(e) # UserShare(u, j)
  /\ \A c, d, u : CompanyLock(c) # ApplicationLock(d, u)
  /\ \A c, f, u : CompanyLock(c) # ParticipantLock(f, u)
  /\ \A c, u : CompanyLock(c) # UserLock(u)
  /\ \A c, u, j : CompanyLock(c) # UserShare(u, j)
  /\ \A c, f, u, v : ApplicationLock(c, u) # ParticipantLock(f, v)
  /\ \A c, u, v : ApplicationLock(c, u) # UserLock(v)
  /\ \A c, u, v, j : ApplicationLock(c, u) # UserShare(v, j)
  /\ \A f, u, v : ParticipantLock(f, u) # UserLock(v)
  /\ \A f, u, v, j : ParticipantLock(f, u) # UserShare(v, j)
  /\ \A u, v, j : UserLock(u) # UserShare(v, j)
BY DEF EventLock, CompanyLock, ApplicationLock, ParticipantLock, UserLock, UserShare

\* The step an operation begins with, and the one that follows a lock, suit it, and it is past
\* whatever it was past before and past the lock it has just taken.
LEMMA FirstStepFits == \A op \in AllOps : StepFits(op, FirstStep(op))
BY DEF StepFits, FirstStep, Steps, LocksEvent, ResolvesOrCancels, Resolutions, AllOps, EventOps,
   CompanyOps, EventThenCompany, CompanyThenEvent, CompanyOnly, UserOps

Further(op, step, next) ==
  /\ PastEvent(op, step) => PastEvent(op, next)
  /\ PastCompany(op, step) => PastCompany(op, next)
  /\ PastApplication(op, step) => PastApplication(op, next)
  /\ PastUser(op, step) => PastUser(op, next)

LEMMA StepAfterFits ==
  ASSUME NEW op, NEW step \in {"event", "company", "application"}, StepFits(op, step),
         op \in CompanyOnly => step # "event"
  PROVE  LET next == StepAfter(op, step)
         IN /\ StepFits(op, next) /\ Further(op, step, next)
            /\ step = "event" => PastEvent(op, next)
            /\ step = "company" => PastCompany(op, next)
            /\ step = "application" => PastApplication(op, next)
<1> USE DEF StepFits, StepAfter, Steps, LocksEvent, ResolvesOrCancels, Resolutions, EventOps,
        CompanyOps, EventThenCompany, CompanyThenEvent, CompanyOnly, UserOps, Further,
        PastEvent, PastCompany, PastApplication, PastUser
<1>1. CASE step = "event"
  BY <1>1
<1>2. CASE step = "company"
  BY <1>2
<1>3. CASE step = "application"
  BY <1>3
<1> QED
  BY <1>1, <1>2, <1>3

LEMMA CheckFits ==
  \A op : /\ StepFits(op, "user") => /\ StepFits(op, "check") /\ Further(op, "user", "check")
                                     /\ PastUser(op, "check")
          /\ StepFits(op, "check") => StepFits(op, "write") /\ Further(op, "check", "write")
BY DEF StepFits, Steps, Further, PastEvent, PastCompany, PastApplication, PastUser, Resolutions,
   UserOps, LocksEvent, EventOps, EventThenCompany, CompanyThenEvent, CompanyOnly, ResolvesOrCancels

\* Locks that suit a request suit it further on.
LEMMA HeldFurther ==
  ASSUME NEW r, NEW s, NEW old, NEW new,
         HeldFits(r, old), HeldFits(s, new), r.step # "write", Further(r.op, r.step, s.step),
         s.op = r.op
  PROVE  HeldFits(s, old \cup new)
BY DEF HeldFits, Further

-----------------------------------------------------------------------------
(* Every step preserves it. *)

\* A transaction that goes on with more locks.
LEMMA GoingOn ==
  ASSUME WaitInv, NEW k \in Conns, tx[k] # Idle, tx[k].step # "write", NEW s, s = tx'[k],
         NEW locks, held'[k] = held[k] \cup locks, HeldFits(s, locks),
         s # Idle, s.op = tx[k].op, StepFits(s.op, s.step), Further(s.op, tx[k].step, s.step),
         \A j \in Conns \ {k} : tx'[j] = tx[j] /\ held'[j] = held[j]
  PROVE  HeldByStep'
<1>1. HeldFits(tx[k], held[k])
  BY DEF WaitInv, HeldByStep
<1>2. HeldFits(s, held[k] \cup locks)
  BY <1>1, HeldFurther
<1>3. ASSUME NEW j \in Conns
      PROVE  /\ tx'[j] = Idle => held'[j] = {}
             /\ tx'[j] # Idle => StepFits(tx'[j].op, tx'[j].step) /\ HeldFits(tx'[j], held'[j])
  <2>1. CASE j = k
    BY <1>2, <2>1
  <2>2. CASE j # k
    BY <2>2 DEF WaitInv, HeldByStep
  <2> QED
    BY <2>1, <2>2
<1> QED
  BY <1>3 DEF HeldByStep

\* A connection that has no locks: it is free, or its transaction has just begun.
LEMMA NoLocks ==
  ASSUME WaitInv, NEW k \in Conns, held'[k] = {},
         tx'[k] # Idle => StepFits(tx'[k].op, tx'[k].step),
         \A j \in Conns \ {k} : tx'[j] = tx[j] /\ held'[j] = held[j]
  PROVE  HeldByStep'
<1>1. ASSUME NEW j \in Conns
      PROVE  /\ tx'[j] = Idle => held'[j] = {}
             /\ tx'[j] # Idle => StepFits(tx'[j].op, tx'[j].step) /\ HeldFits(tx'[j], held'[j])
  <2>1. CASE j = k
    BY <2>1 DEF HeldFits
  <2>2. CASE j # k
    BY <2>2 DEF WaitInv, HeldByStep
  <2> QED
    BY <2>1, <2>2
<1> QED
  BY <1>1 DEF HeldByStep

LEMMA BeginKeepsHeld == ASSUME WaitInv, NEW k \in Conns, Begin(k) PROVE HeldByStep'
<1>1. PICK r : r.op \in AllOps /\ r.step = FirstStep(r.op) /\ tx' = [tx EXCEPT ![k] = r]
  BY BeginIsCall
<1>2. tx[k] = Idle /\ UNCHANGED held
  BY BeginIsCall
<1>3. held'[k] = {} /\ tx'[k] = r /\ \A j \in Conns \ {k} : tx'[j] = tx[j] /\ held'[j] = held[j]
  BY <1>1, <1>2 DEF WaitInv, HeldByStep, TypeInv, TypeOK
<1> QED
  BY <1>1, <1>3, FirstStepFits, NoLocks

LEMMA ReleaseKeepsHeld == ASSUME WaitInv, NEW k \in Conns, Release(k) PROVE HeldByStep'
<1>1. /\ held'[k] = {} /\ tx'[k] = Idle
      /\ \A j \in Conns \ {k} : tx'[j] = tx[j] /\ held'[j] = held[j]
  BY DEF Release, WaitInv, TypeInv, TypeOK
<1> QED
  BY <1>1, NoLocks

\* A single row is locked at its step, and the next step is further on.
LEMMA LockKeepsHeld ==
  ASSUME WaitInv, NEW k \in Conns,
         LockEvent(k) \/ LockCompany(k) \/ LockApplication(k) \/ LockUser(k)
  PROVE  HeldByStep'
<1> DEFINE r == tx[k]
           s == tx'[k]
<1>2. r # Idle /\ StepFits(r.op, r.step) /\ TypeInv
  BY AtIsRunning
     DEF LockEvent, LockCompany, LockApplication, LockUser, Steps, WaitInv, HeldByStep
<1>3. ASSUME NEW locks, NEW step, Advance(k, locks, step), r.step # "write",
             StepFits(r.op, step), Further(r.op, r.step, step),
             \A t : t.op = r.op /\ t.step = step => HeldFits(t, locks)
      PROVE  HeldByStep'
  <2>1. /\ s.step = step /\ held'[k] = held[k] \cup locks /\ s.op = r.op
        /\ \A j \in Conns \ {k} : tx'[j] = tx[j] /\ held'[j] = held[j]
    BY <1>2, <1>3, AdvanceMoves
  <2>2. s # Idle
    BY <1>3, <2>1 DEF StepFits, Steps, Idle
  <2> QED
    BY <1>2, <1>3, <2>1, <2>2, GoingOn
<1>4. CASE LockEvent(k)
  <2>1. r.step = "event" /\ Advance(k, {EventLock(r.event)}, StepAfter(r.op, "event"))
    BY <1>4 DEF LockEvent, At
  <2>2. r.op \in CompanyOnly => r.step # "event"
    BY <1>2 DEF WaitInv, RowLockInv, RowsAreLocked
  <2>3. /\ StepFits(r.op, StepAfter(r.op, "event"))
        /\ Further(r.op, r.step, StepAfter(r.op, "event"))
        /\ PastEvent(r.op, StepAfter(r.op, "event"))
    BY <1>2, <2>1, <2>2, StepAfterFits
  <2>4. \A t : t.op = r.op /\ t.step = StepAfter(r.op, "event")
                 => HeldFits(t, {EventLock(r.event)})
    BY <2>3, LocksApart DEF HeldFits
  <2> QED
    BY <1>3, <2>1, <2>3, <2>4
<1>5. CASE LockCompany(k)
  <2>1. r.step = "company" /\ Advance(k, {CompanyLock(r.company)}, StepAfter(r.op, "company"))
    BY <1>5 DEF LockCompany, At
  <2>2. /\ StepFits(r.op, StepAfter(r.op, "company"))
        /\ Further(r.op, r.step, StepAfter(r.op, "company"))
        /\ PastCompany(r.op, StepAfter(r.op, "company"))
    BY <1>2, <2>1, StepAfterFits
  <2>3. \A t : t.op = r.op /\ t.step = StepAfter(r.op, "company")
                 => HeldFits(t, {CompanyLock(r.company)})
    BY <2>2, LocksApart DEF HeldFits
  <2> QED
    BY <1>3, <2>1, <2>2, <2>3
<1>6. CASE LockApplication(k)
  <2>1. r.step = "application"
          /\ Advance(k, {ApplicationLock(r.company, r.user)}, StepAfter(r.op, "application"))
    BY <1>6 DEF LockApplication, At
  <2>2. /\ StepFits(r.op, StepAfter(r.op, "application"))
        /\ Further(r.op, r.step, StepAfter(r.op, "application"))
        /\ PastApplication(r.op, StepAfter(r.op, "application"))
    BY <1>2, <2>1, StepAfterFits
  <2>3. \A t : t.op = r.op /\ t.step = StepAfter(r.op, "application")
                 => HeldFits(t, {ApplicationLock(r.company, r.user)})
    BY <2>2, LocksApart DEF HeldFits
  <2> QED
    BY <1>3, <2>1, <2>2, <2>3
<1>7. CASE LockUser(k)
  <2>1. r.step = "user" /\ Advance(k, {UserLock(r.user)}, "check")
    BY <1>7 DEF LockUser, At
  <2>2. StepFits(r.op, "check") /\ Further(r.op, r.step, "check") /\ PastUser(r.op, "check")
    BY <1>2, <2>1, CheckFits
  <2>3. \A t : t.op = r.op /\ t.step = "check" => HeldFits(t, {UserLock(r.user)})
    BY <2>2, LocksApart DEF HeldFits
  <2> QED
    BY <1>3, <2>1, <2>2, <2>3
<1> QED
  BY <1>4, <1>5, <1>6, <1>7

\* The completion worker locks the events that are due in one statement.
LEMMA LockDueKeepsHeld == ASSUME WaitInv, NEW k \in Conns, LockDue(k) PROVE HeldByStep'
<1> DEFINE r == tx[k]
           s == tx'[k]
<1>1. r # Idle /\ StepFits(r.op, r.step) /\ TypeInv /\ r.step = "check" /\ r.op = "completeDue"
  BY AtIsRunning DEF LockDue, At, Steps, WaitInv, HeldByStep
<1>2. PICK batch : Advance(k, {EventLock(e) : e \in batch}, "write")
  BY DEF LockDue
<1>3. PICK locks : locks = {EventLock(e) : e \in batch}
  OBVIOUS
<1>4. /\ s.step = "write" /\ held'[k] = held[k] \cup locks /\ s.op = r.op
      /\ \A j \in Conns \ {k} : tx'[j] = tx[j] /\ held'[j] = held[j]
  BY <1>1, <1>2, <1>3, AdvanceMoves
<1>5. s # Idle /\ StepFits(s.op, s.step) /\ Further(s.op, r.step, s.step)
  BY <1>1, <1>4, CheckFits DEF StepFits, Steps, Idle
<1>6. HeldFits(s, locks)
  BY <1>1, <1>3, <1>4, LocksApart DEF HeldFits, PastEvent
<1> QED
  BY <1>1, <1>4, <1>5, <1>6, GoingOn

\* The checks lock a participation row of an admission, and share the key of a user.
LEMMA CheckKeepsHeld == ASSUME WaitInv, NEW k \in Conns, Check(k) PROVE HeldByStep'
<1> DEFINE r == tx[k]
           s == tx'[k]
           had == r.op \in Admissions /\ participant[r.event][r.user] # None
<1>1. /\ r # Idle /\ StepFits(r.op, r.step) /\ TypeInv /\ r.step = "check" /\ r \in Request
  BY AtIsRunning DEF Check, At, Steps, WaitInv, HeldByStep, TypeInv, TypeOK
<1>2. s = [r EXCEPT !.step = "write", !.had = had]
  BY <1>1 DEF Check, TypeInv, TypeOK
<1> HIDE DEF had
<1>3. s.op = r.op /\ s.step = "write" /\ s.event = r.event
  BY <1>1, <1>2 DEF Request
<1>4. PICK locks : locks = CheckedLocks(r, k)
  OBVIOUS
<1>5. /\ held'[k] = held[k] \cup locks
      /\ \A j \in Conns \ {k} : tx'[j] = tx[j] /\ held'[j] = held[j]
  BY <1>1, <1>4, CheckMoves DEF Check, TypeInv, TypeOK
<1>6. s # Idle /\ StepFits(s.op, s.step) /\ Further(s.op, r.step, s.step)
  BY <1>1, <1>3, CheckFits DEF StepFits, Steps, Idle
<1>7. \A l \in locks : \/ l = ParticipantLock(r.event, r.user) /\ r.op \in Admissions
                       \/ l = UserShare(r.user, k) /\ r.op \in {"joinOpen", "apply"}
  BY <1>4 DEF CheckedLocks
<1> HIDE DEF s
<1>8. HeldFits(s, locks)
  BY <1>3, <1>7, LocksApart DEF HeldFits
<1> QED
  BY <1>1, <1>3, <1>5, <1>6, <1>8, GoingOn DEF s

\* A bulk UPDATE locks companies and applications.
LEMMA LockRowKeepsHeld == ASSUME WaitInv, NEW k \in Conns, LockRow(k) PROVE HeldByStep'
<1> DEFINE r == tx[k]
<1>1. TypeInv
  BY DEF WaitInv
<1>2. PICK l \in WriteLocks(r, k) :
        /\ r # Idle /\ r.op \in Cancellations /\ r.step = "write"
        /\ held' = [held EXCEPT ![k] = @ \cup {l}] /\ tx' = tx
  BY <1>1, LockRowTakesOne
<1>3. \/ r.op = "deleteEvent" /\ \E c \in Companies : l = CompanyLock(c)
      \/ \E c \in Companies, u \in Users : l = ApplicationLock(c, u)
  BY <1>1, <1>2, BulkRows DEF CompaniesOfEvent
<1>4. HeldFits(r, held[k]) /\ StepFits(r.op, r.step)
  BY <1>2 DEF WaitInv, HeldByStep
<1>5. HeldFits(r, held[k] \cup {l})
  BY <1>2, <1>3, <1>4, LocksApart DEF HeldFits
<1>6. held'[k] = held[k] \cup {l} /\ \A j \in Conns \ {k} : held'[j] = held[j]
  BY <1>1, <1>2 DEF TypeInv, TypeOK
<1>7. ASSUME NEW j \in Conns
      PROVE  /\ tx'[j] = Idle => held'[j] = {}
             /\ tx'[j] # Idle => StepFits(tx'[j].op, tx'[j].step) /\ HeldFits(tx'[j], held'[j])
  <2>1. CASE j = k
    BY <1>2, <1>4, <1>5, <1>6, <2>1
  <2>2. CASE j # k
    BY <1>2, <1>6, <2>2 DEF WaitInv, HeldByStep
  <2> QED
    BY <2>1, <2>2
<1> QED
  BY <1>7 DEF HeldByStep

\* A row of companies stays, and keeps its event.
CompaniesKeepEvents ==
  \A c \in Companies : company[c] # None =>
    company'[c] # None /\ company'[c].event = company[c].event

LEMMA StepKeepsEvents == ASSUME TypeInv, [Next]_vars PROVE CompaniesKeepEvents
<1>1. CASE UNCHANGED tables
  BY <1>1 DEF tables, CompaniesKeepEvents
<1>2. ASSUME NEW k \in Conns, Commit(k) PROVE CompaniesKeepEvents
  <2>1. CASE CreateCompany(k) \/ DeleteCompany(k)
    BY <2>1, CompanyWritesKeepTypes DEF RowsRemain, CompaniesKeepEvents
  <2>2. CASE ~CreateCompany(k) /\ ~DeleteCompany(k)
    BY <1>2, <2>2, CompaniesStay DEF SameCompanies, CompaniesKeepEvents
  <2> QED
    BY <2>1, <2>2
<1> QED
  BY <1>1, <1>2, CommitWrites

\* Before its writes a cancellation holds none of the rows of its bulk UPDATEs.
LEMMA NothingCancelledYet ==
  ASSUME NEW r, r.op \in Cancellations, NEW locks, HeldFits(r, locks), r.step # "write",
         NEW c \in Companies
  PROVE  /\ r.op = "deleteEvent" => CompanyLock(c) \notin locks
         /\ \A u \in Users : ApplicationLock(c, u) \notin locks
BY DEF HeldFits, PastCompany, PastApplication, Cancellations, ResolvesOrCancels, Resolutions,
   CompanyThenEvent, EventThenCompany, CompanyOnly

LEMMA StepKeepsCovered ==
  ASSUME WaitInv, HeldByStep', [Next]_vars PROVE BulkCovered'
<1> SUFFICES ASSUME NEW k \in Conns, NEW c \in Companies, tx'[k] # Idle,
                    tx'[k].op \in Cancellations
             PROVE  /\ tx'[k].op = "deleteEvent" /\ CompanyLock(c) \in held'[k] =>
                         OfEvent(c, tx[k].event)'
                    /\ (\E u \in Users : ApplicationLock(c, u) \in held'[k]) => Covered(k, c)'
  BY DEF BulkCovered
<1> DEFINE r == tx[k]
<1>1. TypeInv /\ CompaniesKeepEvents
  BY StepKeepsEvents DEF WaitInv
<1>2. /\ r # Idle /\ r.op \in Cancellations =>
           /\ r.op = "deleteEvent" /\ CompanyLock(c) \in held[k] => OfEvent(c, r.event)
           /\ (\E u \in Users : ApplicationLock(c, u) \in held[k]) => Covered(k, c)
      /\ r # Idle => HeldFits(r, held[k])
  BY DEF WaitInv, BulkCovered, HeldByStep
<1>3. CASE held'[k] = held[k] /\ tx'[k] = r
  BY <1>1, <1>2, <1>3 DEF CompaniesKeepEvents, OfEvent, Covered
<1>4. CASE tx'[k].step # "write"
  BY <1>4, NothingCancelledYet DEF HeldByStep
<1>5. CASE /\ r.step = "check" /\ SameRequest(k) /\ tx'[k].step = "write"
           /\ \A l \in RowLocks : l \in held'[k] => l \in held[k]
  <2>1. r # Idle /\ r.op \in Cancellations /\ r.op = tx'[k].op
    BY <1>5 DEF SameRequest
  <2>2. /\ r.op = "deleteEvent" => CompanyLock(c) \notin held[k]
        /\ \A u \in Users : ApplicationLock(c, u) \notin held[k]
    BY <1>2, <1>5, <2>1, NothingCancelledYet
  <2> QED
    BY <1>5, <2>1, <2>2 DEF RowLocks
<1>6. ASSUME NEW l \in WriteLocks(r, k), r # Idle, r.op \in Cancellations, tx'[k] = r,
             held'[k] = held[k] \cup {l}, UNCHANGED tables,
             l \in CompanyRows \/ WriteLocks(r, k) \cap CompanyRows \subseteq held[k]
      PROVE  /\ tx'[k].op = "deleteEvent" /\ CompanyLock(c) \in held'[k] =>
                  OfEvent(c, tx[k].event)'
             /\ (\E u \in Users : ApplicationLock(c, u) \in held'[k]) => Covered(k, c)'
  <2>1. UNCHANGED company
    BY <1>6 DEF tables
  <2>2. ASSUME r.op = "deleteEvent", CompanyLock(c) \in held'[k] PROVE OfEvent(c, tx[k].event)'
    <3>1. OfEvent(c, r.event)
      BY <1>1, <1>2, <1>6, <2>2, BulkRows, LocksApart DEF OfEvent, CompaniesOfEvent
    <3> QED
      BY <1>6, <2>1, <3>1 DEF OfEvent
  <2>3. ASSUME NEW u \in Users, ApplicationLock(c, u) \in held[k] PROVE Covered(k, c)'
    BY <1>2, <1>6, <2>1, <2>3 DEF Covered
  <2>4. ASSUME NEW u \in Users, l = ApplicationLock(c, u) PROVE Covered(k, c)'
    <3>1. /\ company[c] # None
          /\ r.op = "deleteEvent" => c \in CompaniesOfEvent(r.event) /\ CompanyLive(c)
          /\ r.op = "completeDue" => EventLock(company[c].event) \in held[k]
          /\ r.op \in {"blockCompany", "deleteCompany"} => c = r.company
      <4>1. PICK d \in Companies, v \in Users :
              /\ l = ApplicationLock(d, v) /\ company[d] # None /\ application[d][v] = "pending"
              /\ r.op = "deleteEvent" => d \in CompaniesOfEvent(r.event)
              /\ r.op = "completeDue" => EventLock(company[d].event) \in held[k]
              /\ r.op \in {"blockCompany", "deleteCompany"} => d = r.company
        BY <1>1, <1>6, <2>4, BulkRows, LocksApart
      <4>2. c = d
        BY <2>4, <4>1, LocksApart
      <4> QED
        BY <4>1, <4>2 DEF WaitInv, PendingIsOpen
    <3>2. r.op = "deleteEvent" => CompanyLock(c) \in held[k]
      <4>1. l \notin CompanyRows
        BY <2>4, LocksApart DEF CompanyRows
      <4>2. r.op = "deleteEvent" => CompanyLock(c) \in WriteLocks(r, k) \cap CompanyRows
        BY <3>1 DEF WriteLocks, CompanyRows, CompanyLive
      <4> QED
        BY <1>6, <4>1, <4>2
    <3> QED
      BY <1>6, <2>1, <3>1, <3>2 DEF Covered, CompaniesOfEvent
  <2> QED
    BY <1>6, <2>2, <2>3, <2>4
<1>7. Moves(k) \/ UNCHANGED <<tx, held>>
  BY <1>1, OneMoves DEF Moves
<1> QED
  BY <1>3, <1>4, <1>5, <1>6, <1>7, NoLockIsTheLast DEF Moves, Takes

LEMMA StepKeepsWaiting == CheckedInv /\ WaitInv /\ [Next]_vars => WaitInv'
<1> SUFFICES ASSUME CheckedInv, WaitInv, [Next]_vars PROVE WaitInv'
  OBVIOUS
<1>1. TypeInv /\ TypeInv' /\ LockInv' /\ RowLockInv' /\ PendingIsOpen'
  BY StepKeepsTypes, StepKeepsLocks, StepKeepsRowLocks, StepKeepsPending DEF WaitInv
<1>2. CASE UNCHANGED vars \/ Tick
  BY <1>1, <1>2, StepKeepsCovered DEF Tick, vars, WaitInv, HeldByStep
<1>3. ASSUME NEW k \in Conns, Progress(k) PROVE HeldByStep'
  <2>1. CASE Commit(k) \/ Refuse(k)
    BY <2>1, CommitReleases, ReleaseKeepsHeld DEF Refuse
  <2> QED
    BY <1>3, <2>1, LockKeepsHeld, LockDueKeepsHeld, LockRowKeepsHeld, CheckKeepsHeld DEF Progress
<1>4. ASSUME NEW k \in Conns, Begin(k) \/ Fail(k) \/ AbortVictim(k) PROVE HeldByStep'
  BY <1>4, BeginKeepsHeld, ReleaseKeepsHeld DEF Fail, AbortVictim
<1> QED
  BY <1>1, <1>2, <1>3, <1>4, StepKeepsCovered DEF Next, WaitInv

LEMMA InitWaiting == Init => CheckedInv /\ WaitInv
BY InitTypes, InitRowLocks, InitChecked
   DEF Init, WaitInv, HeldByStep, BulkCovered, LockInv, EventLocksExclude, EventIsLocked

-----------------------------------------------------------------------------
(* Circles. *)

\* Each of them waits for another of them.
Stuck(circle) == \A i \in circle : Blockers(i) \cap circle # {}

\* Whom a stuck request waits for: it is running, and holds a lock that the request needs.
LEMMA StuckWaits ==
  ASSUME NEW circle \in SUBSET Conns, Stuck(circle), NEW i \in circle
  PROVE  /\ tx[i] # Idle
         /\ \E j \in circle, l \in NeededLocks(tx[i], i) : l \in held[j] /\ j # i
BY DEF Stuck, Blockers

\* What the steps of the operations need.
LEMMA NeedsOf ==
  ASSUME NEW r, NEW k, NEW l \in NeededLocks(r, k), StepFits(r.op, r.step)
  PROVE  \/ r.step = "event" /\ l = EventLock(r.event)
         \/ r.step = "company" /\ l = CompanyLock(r.company)
         \/ r.step = "application" /\ l = ApplicationLock(r.company, r.user)
         \/ /\ r.step = "user"
            /\ l = UserLock(r.user) \/ \E j \in Conns : l = UserShare(r.user, j)
         \/ /\ r.step = "check" /\ r.op \in Admissions \cup {"joinSolo"}
            /\ l = ParticipantLock(r.event, r.user)
         \/ r.step = "check" /\ r.op = "createCompany" /\ \E c \in Companies : l = CompanyLock(c)
         \/ r.step = "check" /\ r.op \in {"joinOpen", "apply"} /\ l = UserLock(r.user)
         \/ /\ r.step = "write" /\ l = UserLock(r.user)
            /\ r.op \in {"createEvent", "joinSolo", "createCompany", "joinOpen", "apply"}
         \/ r.step = "write" /\ r.op \in Cancellations /\ l \in WriteLocks(r, k)
<1>1. CASE r.step \in {"event", "company", "application", "user"}
  BY <1>1 DEF NeededLocks
<1>2. CASE r.step = "check"
  <2>1. l \in CheckLocks(r)
    BY <1>2 DEF NeededLocks
  <2>2. CompaniesOf(r.user, r.event) \subseteq Companies
    BY DEF CompaniesOf, CompaniesOfEvent
  <2> QED
    BY <1>2, <2>1, <2>2 DEF CheckLocks, Admissions
<1>3. CASE r.step = "write"
  <2>1. l \in WriteLocks(r, k)
    BY <1>3 DEF NeededLocks
  <2>2. CASE r.op \notin Cancellations
    BY <1>3, <2>1, <2>2 DEF WriteLocks, Cancellations
  <2> QED
    BY <1>3, <2>1, <2>2
<1> QED
  BY <1>1, <1>2, <1>3 DEF StepFits, Steps

\* What is known of a stuck request: its step, its locks, and that it is not past its needs.
LEMMA StuckFits ==
  ASSUME WaitInv, NEW circle \in SUBSET Conns, Stuck(circle), NEW i \in circle
  PROVE  /\ i \in Conns /\ tx[i] # Idle /\ StepFits(tx[i].op, tx[i].step) /\ RequestOK(tx[i])
         /\ HeldFits(tx[i], held[i]) /\ held[i] \subseteq Locks
         /\ tx[i].op \in CompanyOnly => tx[i].step # "event"
BY StuckWaits DEF WaitInv, HeldByStep, TypeInv, TypeOK, RequestsOK, RowLockInv, RowsAreLocked

\* An approval that has come to its check never waits for a participation row: whoever has locked
\* that has locked the event, which the approval holds.
LEMMA ParticipantsFollowEvents ==
  ASSUME WaitInv, NEW i \in Conns, NEW j \in Conns, i # j, tx[i] # Idle, tx[i].step = "check",
         tx[i].op \in LocksEvent, tx[i].event \in Events, NEW u \in Users
  PROVE  ParticipantLock(tx[i].event, u) \notin held[j]
<1> SUFFICES ASSUME ParticipantLock(tx[i].event, u) \in held[j] PROVE FALSE
  OBVIOUS
<1>1. tx[j] # Idle /\ tx[j].op \in Admissions /\ tx[j].step = "write" /\ tx[i].event = tx[j].event
  BY DEF WaitInv, HeldByStep, HeldFits
<1>2. EventLock(tx[i].event) \in held[i] /\ EventLock(tx[i].event) \in held[j]
  BY <1>1, AdmissionsLockEvent DEF WaitInv, LockInv, EventIsLocked
<1> QED
  BY <1>2 DEF WaitInv, LockInv, EventLocksExclude

\* Nobody in a circle holds the row of a user: the resolutions and the bans that do have only
\* free rows before them.
LEMMA NoUserLock ==
  ASSUME WaitInv, NEW circle \in SUBSET Conns, Stuck(circle), NEW j \in circle, NEW u
  PROVE  UserLock(u) \notin held[j]
<1> SUFFICES ASSUME UserLock(u) \in held[j] PROVE FALSE
  OBVIOUS
<1>1. \E v \in Users : UserLock(v) \in held[j]
  <2>1. UserLock(u) \in Locks
    BY StuckFits
  <2> QED
    BY <2>1, LocksApart DEF Locks
<1>2. StepFits(tx[j].op, tx[j].step) /\ PastUser(tx[j].op, tx[j].step) /\ RequestOK(tx[j])
        /\ tx[j] # Idle
  BY <1>1, StuckFits DEF HeldFits
<1>3. PICK i \in circle, l \in NeededLocks(tx[j], j) : l \in held[i] /\ i # j
  BY StuckWaits
<1>4. /\ tx[j].op = "approve" /\ tx[j].step = "check"
      /\ l = ParticipantLock(tx[j].event, tx[j].user)
  BY <1>2, <1>3, NeedsOf DEF PastUser, Resolutions, UserOps, Admissions, Cancellations
<1>5. tx[j].op \in LocksEvent /\ tx[j].event \in Events /\ tx[j].user \in Users
  BY <1>2, <1>4
     DEF LocksEvent, EventThenCompany, RequestOK, NamesEvent, NamesUser, CompanyOps, Admissions
<1> QED
  BY <1>2, <1>3, <1>4, <1>5, ParticipantsFollowEvents

\* Nor a share of a user's key, nor a participation row: those come before writes that wait for
\* nothing but the row of a user.
LEMMA NoShare ==
  ASSUME WaitInv, NEW circle \in SUBSET Conns, Stuck(circle), NEW j \in circle, NEW u
  PROVE  /\ \A k : UserShare(u, k) \notin held[j]
         /\ \A e : ParticipantLock(e, u) \notin held[j]
<1> SUFFICES ASSUME \/ \E k : UserShare(u, k) \in held[j]
                    \/ \E e : ParticipantLock(e, u) \in held[j]
             PROVE  FALSE
  OBVIOUS
<1>1. \/ \E v \in Users, k \in Conns : UserShare(v, k) \in held[j]
      \/ \E v \in Users, e \in Events : ParticipantLock(e, v) \in held[j]
  <2>1. held[j] \subseteq Locks
    BY StuckFits
  <2> QED
    BY <2>1, LocksApart DEF Locks
<1>2. /\ tx[j].step = "write" /\ tx[j].op \in Admissions \cup {"apply"}
      /\ StepFits(tx[j].op, tx[j].step)
  BY <1>1, StuckFits DEF HeldFits, Admissions
<1>3. PICK i \in circle, l \in NeededLocks(tx[j], j) : l \in held[i]
  BY StuckWaits
<1>4. l = UserLock(tx[j].user)
  BY <1>2, <1>3, NeedsOf DEF Admissions, Cancellations
<1> QED
  BY <1>3, <1>4, NoUserLock

\* So a stuck request waits for an event, a company or an application.
LEMMA StuckNeeds ==
  ASSUME WaitInv, NEW circle \in SUBSET Conns, Stuck(circle), NEW i \in circle
  PROVE  \E j \in circle \cap Blockers(i) : \E l \in held[j] :
           \/ tx[i].step = "event" /\ l = EventLock(tx[i].event)
           \/ tx[i].step = "company" /\ l = CompanyLock(tx[i].company)
           \/ tx[i].step = "application" /\ l = ApplicationLock(tx[i].company, tx[i].user)
           \/ /\ tx[i].step = "check" /\ tx[i].op = "createCompany"
              /\ \E c \in Companies : l = CompanyLock(c)
           \/ /\ tx[i].step = "write" /\ tx[i].op \in Cancellations
              /\ l \in WriteLocks(tx[i], i)
<1>1. PICK j \in circle, l \in NeededLocks(tx[i], i) : l \in held[j] /\ j # i
  BY StuckWaits
<1>2. StepFits(tx[i].op, tx[i].step) /\ tx[i] # Idle /\ j \in Conns
  BY StuckFits
<1>3. j \in Blockers(i)
  BY <1>1, <1>2 DEF Blockers
<1>4. \A u : /\ l # UserLock(u)
            /\ \A k : l # UserShare(u, k)
            /\ \A e : l # ParticipantLock(e, u)
  BY <1>1, NoUserLock, NoShare
<1> QED
  BY <1>1, <1>2, <1>3, <1>4, NeedsOf

\* Who holds an application in a circle is about to cancel more of them: after the row lock of a
\* resolution or of the applicant's cancellation come the applicant and the writes.
LEMMA HolderCancels ==
  ASSUME WaitInv, NEW circle \in SUBSET Conns, Stuck(circle), NEW j \in circle, NEW c, NEW u,
         ApplicationLock(c, u) \in held[j]
  PROVE  /\ tx[j].op \in Cancellations /\ tx[j].step = "write"
         /\ c \in Companies /\ Covered(j, c)
<1>1. c \in Companies /\ u \in Users
  <2>1. ApplicationLock(c, u) \in Locks
    BY StuckFits
  <2>2. PICK d \in Companies, v \in Users : ApplicationLock(c, u) = ApplicationLock(d, v)
    BY <2>1, LocksApart DEF Locks
  <2> QED
    BY <2>2, LocksApart
<1>2. \/ PastApplication(tx[j].op, tx[j].step)
      \/ tx[j].op \in Cancellations /\ tx[j].step = "write"
  BY <1>1, StuckFits DEF HeldFits
<1>3. ~PastApplication(tx[j].op, tx[j].step)
  BY StuckNeeds DEF PastApplication, ResolvesOrCancels, Resolutions, Cancellations
<1>4. j \in Conns /\ tx[j] # Idle
  BY StuckFits
<1> QED
  BY <1>1, <1>2, <1>3, <1>4 DEF WaitInv, BulkCovered

EndsCompany == {"blockCompany", "deleteCompany"}

\* The block or deletion of a company waits for a completion pass over its event ...
LEMMA EndOfCompanyWaits ==
  ASSUME WaitInv, NEW circle \in SUBSET Conns, Stuck(circle), NEW i \in circle,
         tx[i].op \in EndsCompany, tx[i].step = "write"
  PROVE  \E j \in circle \cap Blockers(i) :
           /\ tx[j].op = "completeDue" /\ tx[j].step = "write"
           /\ EventLock(company[tx[i].company].event) \in held[j]
<1>1. i \in Conns /\ tx[i] # Idle /\ TypeInv /\ tx[i].op \in Cancellations
  BY StuckFits DEF WaitInv, EndsCompany, Cancellations
<1>2. PICK j \in circle \cap Blockers(i), l \in WriteLocks(tx[i], i) : l \in held[j]
  BY StuckNeeds
<1>3. PICK u \in Users : l = ApplicationLock(tx[i].company, u)
  BY <1>1, <1>2, BulkRows DEF EndsCompany
<1>4. tx[j].op \in Cancellations /\ tx[j].step = "write" /\ Covered(j, tx[i].company)
        /\ tx[i].company \in Companies
  BY <1>2, <1>3, HolderCancels
<1>5. CompanyLock(tx[i].company) \in held[i] /\ CompanyLock(tx[i].company) \in RowLocks
  BY <1>1, <1>4 DEF WaitInv, RowLockInv, RowsAreLocked, PastCompany, EndsCompany, CompanyOnly, RowLocks
<1>6. j \in Conns /\ j # i
  BY <1>1, <1>2 DEF Blockers
<1>7. CompanyLock(tx[i].company) \notin held[j]
  BY <1>1, <1>5, <1>6 DEF WaitInv, RowLockInv, RowLocksExclude
<1>8. tx[j].op \in EndsCompany => CompanyLock(tx[j].company) \in held[j]
  BY <1>4, <1>6, StuckFits
     DEF WaitInv, RowLockInv, RowsAreLocked, PastCompany, EndsCompany, CompanyOnly
<1>9. tx[j].op = "completeDue"
  BY <1>4, <1>7, <1>8 DEF Covered, Cancellations, EndsCompany
<1> QED
  BY <1>2, <1>4, <1>9 DEF Covered

\* ... and a completion pass for the block or deletion of a company of an event it has locked.
LEMMA CompletionWaits ==
  ASSUME WaitInv, NEW circle \in SUBSET Conns, Stuck(circle), NEW j \in circle,
         tx[j].op = "completeDue", tx[j].step = "write"
  PROVE  \E i \in circle \cap Blockers(j) :
           /\ tx[i].op \in EndsCompany /\ tx[i].step = "write"
           /\ EventLock(company[tx[i].company].event) \in held[j]
           /\ company[tx[i].company].event \in Events
<1>1. j \in Conns /\ tx[j] # Idle /\ TypeInv /\ tx[j].op \in Cancellations
  BY StuckFits DEF WaitInv, Cancellations
<1>2. PICK i \in circle \cap Blockers(j), l \in WriteLocks(tx[j], j) : l \in held[i]
  BY StuckNeeds
<1>3. PICK c \in Companies, u \in Users :
        /\ l = ApplicationLock(c, u) /\ company[c] # None
        /\ EventLock(company[c].event) \in held[j]
  BY <1>1, <1>2, BulkRows
<1>4. tx[i].op \in Cancellations /\ tx[i].step = "write" /\ Covered(i, c)
  BY <1>2, <1>3, HolderCancels
<1>5. i \in Conns /\ i # j /\ tx[i] # Idle
  BY <1>1, <1>2, StuckFits DEF Blockers
<1>6. company[c].event \in Events
  BY <1>1, <1>3 DEF TypeInv, TypeOK, CompanyRow
<1>7. EventLock(company[c].event) \notin held[i]
  BY <1>1, <1>3, <1>5, <1>6 DEF WaitInv, LockInv, EventLocksExclude
<1>8. tx[i].op = "deleteEvent" => EventLock(tx[i].event) \in held[i]
  BY <1>4, <1>5 DEF WaitInv, LockInv, EventIsLocked, LocksEvent, EventOps
<1>9. tx[i].op \in EndsCompany /\ c = tx[i].company
  BY <1>4, <1>7, <1>8 DEF Covered, Cancellations, EndsCompany
<1> QED
  BY <1>2, <1>3, <1>4, <1>6, <1>9

-----------------------------------------------------------------------------
(* The two ways in which requests come to wait for each other in a circle. *)

\* One of them that holds a company has come from lockCompany and waits for its event, whose
\* holder has come by another way.
HandOver(circle) ==
  \E i, j \in circle :
    /\ tx[i].op \in CompanyThenEvent /\ tx[i].step = "event"
    /\ tx[j].op \notin CompanyThenEvent /\ EventLock(tx[i].event) \in held[j]

\* A completion pass and the end of a company wait for each other.
Mutual(circle) ==
  \E i, j \in circle :
    /\ tx[i].op = "completeDue" /\ tx[j].op \in EndsCompany
    /\ i \in Blockers(j) /\ j \in Blockers(i)

LEMMA CompletionInCircle ==
  ASSUME WaitInv, NEW circle \in SUBSET Conns, Stuck(circle), NEW j \in circle,
         tx[j].op = "completeDue", tx[j].step = "write"
  PROVE  Mutual(circle)
<1>1. PICK i \in circle \cap Blockers(j) :
        /\ tx[i].op \in EndsCompany /\ tx[i].step = "write"
        /\ EventLock(company[tx[i].company].event) \in held[j]
        /\ company[tx[i].company].event \in Events
  BY CompletionWaits
<1>2. PICK k \in circle \cap Blockers(i) : EventLock(company[tx[i].company].event) \in held[k]
  BY <1>1, EndOfCompanyWaits
<1>3. k = j
  BY <1>1, <1>2 DEF WaitInv, LockInv, EventLocksExclude
<1> QED
  BY <1>1, <1>2, <1>3 DEF Mutual

LEMMA CancellerInCircle ==
  ASSUME WaitInv, NEW circle \in SUBSET Conns, Stuck(circle), NEW i \in circle,
         tx[i].op \in Cancellations \ {"deleteEvent"}, tx[i].step = "write"
  PROVE  Mutual(circle)
<1>1. CASE tx[i].op = "completeDue"
  BY <1>1, CompletionInCircle
<1>2. CASE tx[i].op \in EndsCompany
  BY <1>2, EndOfCompanyWaits, CompletionInCircle
<1> QED
  BY <1>1, <1>2 DEF Cancellations, EndsCompany

\* Who holds a company in a circle waits for its event, for one of its applications, or to cancel
\* them.
LEMMA CompanyHolderInCircle ==
  ASSUME WaitInv, NEW circle \in SUBSET Conns, Stuck(circle), NEW i \in circle,
         PastCompany(tx[i].op, tx[i].step)
  PROVE  HandOver(circle) \/ Mutual(circle)
<1>1. PICK j \in circle \cap Blockers(i) : \E l \in held[j] :
        \/ tx[i].step = "event" /\ l = EventLock(tx[i].event)
        \/ tx[i].step = "application" /\ l = ApplicationLock(tx[i].company, tx[i].user)
        \/ tx[i].step = "write" /\ tx[i].op \in Cancellations \ {"deleteEvent"}
  BY StuckNeeds DEF PastCompany, CompanyThenEvent, EventThenCompany, CompanyOnly
<1>2. j \in Conns /\ j # i /\ i \in Conns /\ tx[i] # Idle
  BY <1>1, StuckFits DEF Blockers
<1>3. CASE tx[i].step = "event" /\ EventLock(tx[i].event) \in held[j]
  <2>1. tx[i].op \in CompanyThenEvent
    BY <1>3 DEF PastCompany
  <2>2. tx[i].event \in Events
    BY <2>1, StuckFits DEF RequestOK, CompanyOps, NamesEvent
  <2>3. PastEvent(tx[j].op, tx[j].step)
    BY <1>3, <2>2, StuckFits DEF HeldFits
  <2>4. tx[j].op \notin CompanyThenEvent
    BY <2>3, StuckNeeds DEF PastEvent, CompanyThenEvent, LocksEvent, EventThenCompany, EventOps,
       Cancellations
  <2> QED
    BY <1>3, <2>1, <2>4 DEF HandOver
<1>4. CASE ApplicationLock(tx[i].company, tx[i].user) \in held[j]
  <2>1. /\ tx[j].op \in Cancellations /\ tx[j].step = "write"
        /\ tx[i].company \in Companies /\ Covered(j, tx[i].company)
    BY <1>4, HolderCancels
  <2>2. CompanyLock(tx[i].company) \in held[i] /\ CompanyLock(tx[i].company) \in RowLocks
    BY <1>2, <2>1 DEF WaitInv, RowLockInv, RowsAreLocked, RowLocks
  <2>3. tx[j].op # "deleteEvent"
    BY <1>2, <2>1, <2>2 DEF Covered, WaitInv, RowLockInv, RowLocksExclude
  <2> QED
    BY <2>1, <2>3, CancellerInCircle
<1>5. CASE tx[i].step = "write" /\ tx[i].op \in Cancellations \ {"deleteEvent"}
  BY <1>5, CancellerInCircle
<1> QED
  BY <1>1, <1>3, <1>4, <1>5

\* The deletion of an event waits for a company or an application of its event; another deletion
\* has no such rows.
LEMMA DeletionInCircle ==
  ASSUME WaitInv, NEW circle \in SUBSET Conns, Stuck(circle), NEW i \in circle,
         tx[i].op = "deleteEvent", tx[i].step = "write"
  PROVE  HandOver(circle) \/ Mutual(circle)
<1>1. i \in Conns /\ tx[i] # Idle /\ TypeInv /\ tx[i].op \in Cancellations
  BY StuckFits DEF WaitInv, Cancellations
<1>2. PICK j \in circle \cap Blockers(i), l \in WriteLocks(tx[i], i) : l \in held[j]
  BY StuckNeeds DEF Cancellations
<1>3. j \in Conns /\ j # i /\ tx[j] # Idle
  BY <1>1, <1>2, StuckFits DEF Blockers
<1>4. ~(tx[j].op = "deleteEvent" /\ tx[j].step = "write" /\ tx[j].event = tx[i].event)
  <2>1. tx[i].event \in Events
    BY <1>1 DEF TypeInv, RequestsOK, RequestOK, NamesEvent, EventOps
  <2>2. EventLock(tx[i].event) \in held[i]
    BY <1>1 DEF WaitInv, LockInv, EventIsLocked, LocksEvent, EventOps
  <2>3. tx[j].op = "deleteEvent" /\ tx[j].step = "write" => EventLock(tx[j].event) \in held[j]
    BY <1>3 DEF WaitInv, LockInv, EventIsLocked, LocksEvent, EventOps
  <2> QED
    BY <1>1, <1>3, <2>1, <2>2, <2>3 DEF WaitInv, LockInv, EventLocksExclude
<1>5. CASE \E c \in CompaniesOfEvent(tx[i].event) : l = CompanyLock(c)
  <2>1. PICK c \in CompaniesOfEvent(tx[i].event) : CompanyLock(c) \in held[j]
    BY <1>2, <1>5
  <2>2. c \in Companies /\ company[c].event = tx[i].event
    BY <2>1 DEF CompaniesOfEvent
  <2>3. \/ PastCompany(tx[j].op, tx[j].step)
        \/ tx[j].op = "deleteEvent" /\ tx[j].step = "write"
    BY <2>1, <2>2, StuckFits DEF HeldFits
  <2>4. tx[j].op = "deleteEvent" => company[c].event = tx[j].event
    BY <1>3, <2>1, <2>2 DEF WaitInv, BulkCovered, OfEvent, Cancellations
  <2> QED
    BY <1>4, <2>2, <2>3, <2>4, CompanyHolderInCircle
<1>6. CASE \E c \in CompaniesOfEvent(tx[i].event), u \in Users : l = ApplicationLock(c, u)
  <2>1. PICK c \in CompaniesOfEvent(tx[i].event), u \in Users : ApplicationLock(c, u) \in held[j]
    BY <1>2, <1>6
  <2>2. company[c].event = tx[i].event
    BY <2>1 DEF CompaniesOfEvent
  <2>3. tx[j].op \in Cancellations /\ tx[j].step = "write" /\ Covered(j, c)
    BY <2>1, HolderCancels
  <2>4. tx[j].op # "deleteEvent"
    BY <1>4, <2>2, <2>3 DEF Covered
  <2> QED
    BY <2>3, <2>4, CancellerInCircle
<1> QED
  BY <1>1, <1>2, <1>5, <1>6, BulkRows

\* Who is past its event.
LEMMA PastEventInCircle ==
  ASSUME WaitInv, NEW circle \in SUBSET Conns, Stuck(circle), NEW i \in circle,
         tx[i].step # "event"
  PROVE  HandOver(circle) \/ Mutual(circle)
<1>1. PICK j \in circle \cap Blockers(i) : \E l \in held[j] :
        \/ tx[i].step = "company" /\ l = CompanyLock(tx[i].company)
        \/ tx[i].step = "check" /\ \E c \in Companies : l = CompanyLock(c)
        \/ tx[i].step = "application"
        \/ tx[i].step = "write" /\ tx[i].op \in Cancellations
  BY StuckNeeds
<1>2. CASE \E c \in Companies : CompanyLock(c) \in held[j]
  <2>1. \/ PastCompany(tx[j].op, tx[j].step)
        \/ tx[j].op = "deleteEvent" /\ tx[j].step = "write"
    BY <1>2, StuckFits DEF HeldFits
  <2> QED
    BY <2>1, CompanyHolderInCircle, DeletionInCircle
<1>3. CASE tx[i].step = "company" /\ CompanyLock(tx[i].company) \in held[j]
  <2>1. tx[i].company \in Companies
    BY <1>3, StuckFits DEF StepFits, RequestOK
  <2> QED
    BY <1>2, <1>3, <2>1
<1>4. CASE tx[i].step = "application"
  <2>1. PastCompany(tx[i].op, tx[i].step)
    BY <1>4, StuckFits DEF StepFits, PastCompany, ResolvesOrCancels, Resolutions, EventThenCompany,
       CompanyOnly
  <2> QED
    BY <2>1, CompanyHolderInCircle
<1>5. CASE tx[i].step = "write" /\ tx[i].op \in Cancellations
  BY <1>5, CancellerInCircle, DeletionInCircle
<1> QED
  BY <1>1, <1>2, <1>3, <1>4, <1>5

LEMMA CirclesAreOfTwoKinds ==
  ASSUME WaitInv, NEW circle \in SUBSET Conns, Stuck(circle), circle # {}
  PROVE  HandOver(circle) \/ Mutual(circle)
<1>1. PICK i \in circle : TRUE
  OBVIOUS
<1>2. CASE tx[i].step = "event"
  <2>1. PICK j \in circle : EventLock(tx[i].event) \in held[j]
    BY <1>2, StuckNeeds
  <2>2. tx[i].event \in Events
    BY <1>2, StuckFits DEF RequestOK, CompanyOps, NamesEvent, StepFits, LocksEvent
  <2>3. PastEvent(tx[j].op, tx[j].step)
    BY <2>1, <2>2, StuckFits DEF HeldFits
  <2> QED
    BY <2>3, PastEventInCircle DEF PastEvent
<1> QED
  BY <1>2, PastEventInCircle

-----------------------------------------------------------------------------

\* Requests block each other in a circle in two ways only: lockCompany (companies repository.go)
\* takes the company before the event, and somebody who holds the event has come by another way;
\* or a completion pass (events repository.go) and the block or deletion of a company cancel the
\* same applications row by row in two orders.
THEOREM DeadlocksAreOfTwoKinds == Spec => []DeadlocksMixOrders
<1>1. WaitInv => DeadlocksMixOrders
  BY CirclesAreOfTwoKinds DEF DeadlocksMixOrders, Stuck, HandOver, Mutual, EndsCompany
<1>2. CheckedInv /\ WaitInv /\ [Next]_vars => (CheckedInv /\ WaitInv)'
  BY StepKeepsWaiting, StepKeepsChecked DEF WaitInv
<1> QED
  BY <1>1, <1>2, InitWaiting, PTL DEF Spec

\* Nothing runs but what is called.
Called == \A k \in Conns : tx[k] # Idle => tx[k].op \in Ops

\* Without update, open and close (lockCompany, companies repository.go), and without the worker or
\* without the block and deletion of companies, no handlers ever block each other in a circle,
\* however many rows they cancel: the deadlock detector of PostgreSQL never has a victim.
THEOREM OneOrderNeverDeadlocks ==
  ASSUME Ops \cap CompanyThenEvent = {},
         "completeDue" \notin Ops \/ Ops \cap EndsCompany = {}
  PROVE  Spec => []\A k \in Conns : ~Deadlocked(k)
<1>1. Init => Called
  BY DEF Init, Called
<1>2. WaitInv /\ Called /\ [Next]_vars => Called'
  <2> SUFFICES ASSUME WaitInv, Called, [Next]_vars PROVE Called'
    OBVIOUS
  <2>1. CASE UNCHANGED vars \/ Tick
    BY <2>1 DEF Tick, vars, Called
  <2>2. ASSUME NEW k \in Conns, \A j \in Conns \ {k} : tx'[j] = tx[j],
               tx'[k] # Idle => tx'[k].op \in Ops
        PROVE  Called'
    BY <2>2 DEF Called
  <2>3. ASSUME NEW k \in Conns, Begin(k) PROVE Called'
    <3>1. \E r : r.op \in Ops /\ tx' = [tx EXCEPT ![k] = r]
      BY <2>3, BeginIsCall
    <3> QED
      BY <2>2, <3>1 DEF WaitInv, TypeInv, TypeOK
  <2>4. ASSUME NEW k \in Conns, Release(k) PROVE Called'
    BY <2>2, <2>4 DEF Release, WaitInv, TypeInv, TypeOK
  <2>5. ASSUME NEW k \in Conns, Progress(k) PROVE Called'
    <3>1. CASE Commit(k) \/ Refuse(k)
      BY <2>4, <3>1, CommitReleases DEF Refuse
    <3>2. CASE \E locks, step : Advance(k, locks, step) /\ tx[k] # Idle
      <4>1. tx'[k].op = tx[k].op /\ \A j \in Conns \ {k} : tx'[j] = tx[j]
        BY <3>2, AdvanceMoves DEF WaitInv
      <4> QED
        BY <2>2, <3>2, <4>1 DEF Called
    <3>3. CASE LockEvent(k) \/ LockCompany(k) \/ LockApplication(k) \/ LockUser(k) \/ LockDue(k)
      BY <3>2, <3>3, AtIsRunning
         DEF LockEvent, LockCompany, LockApplication, LockUser, LockDue, Steps
    <3>4. CASE Check(k)
      <4>1. tx[k] # Idle /\ tx[k] \in Request
        BY <3>4, AtIsRunning DEF Check, Steps, WaitInv, TypeInv, TypeOK
      <4>2. tx'[k].op = tx[k].op /\ \A j \in Conns \ {k} : tx'[j] = tx[j]
        BY <3>4, <4>1 DEF Check, WaitInv, TypeInv, TypeOK, Request
      <4> QED
        BY <2>2, <4>1, <4>2 DEF Called
    <3>5. CASE LockRow(k)
      BY <2>2, <3>5 DEF LockRow, Called
    <3> QED
      BY <2>5, <3>1, <3>3, <3>4, <3>5 DEF Progress
  <2> QED
    BY <2>1, <2>3, <2>4, <2>5 DEF Next, Fail, AbortVictim
<1>3. WaitInv /\ Called => \A k \in Conns : ~Deadlocked(k)
  <2> SUFFICES ASSUME WaitInv, Called, NEW circle \in SUBSET Conns, circle # {}, Stuck(circle)
               PROVE  FALSE
    BY DEF Deadlocked, Stuck
  <2>1. \A i \in circle : tx[i].op \in Ops
    BY StuckWaits DEF Called
  <2> QED
    BY <2>1, CirclesAreOfTwoKinds DEF HandOver, Mutual
<1>4. CheckedInv /\ WaitInv /\ Called /\ [Next]_vars => (CheckedInv /\ WaitInv /\ Called)'
  BY <1>2, StepKeepsWaiting, StepKeepsChecked DEF WaitInv
<1> QED
  BY <1>1, <1>3, <1>4, InitWaiting, PTL DEF Spec
=============================================================================
