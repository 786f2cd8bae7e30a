--------------------------- MODULE EventHandlers ---------------------------
(***************************************************************************)
(* internal/events: the life of an event and solo participation.           *)
(*                                                                         *)
(* The cover of an event (image_url and the table event_uploads) belongs   *)
(* to the cover storage and is left out of the rows and the edits here.    *)
(***************************************************************************)
EXTENDS Database

\* Variant: an owner may edit an event whatever its status.
EditableUnlessDeleted == EventStatuses

\* Statuses an owner may edit an event in.
Editable == {"pending", "rejected", "active"}

OwnsEvent(r) == r.actor = Admin \/ event[r.event].creator = r.actor

\* An edit that leaves the form alone is checked with the one in the row.
NewForm(r) == IF r.patch = None THEN event[r.event].form ELSE r.patch

InOrder(form) == form.ends # None => form.ends > form.starts

CreateEventAllowed(r) == InOrder(r.patch) /\ r.patch.starts > r.now

\* Only an owner has to edit an editable status and to leave the start in the future.
EditEventAllowed(r) ==
  /\ OwnsEvent(r)
  /\ InOrder(NewForm(r))
  /\ r.actor # Admin => event[r.event].status \in Editable /\ NewForm(r).starts > r.now

DeleteEventAllowed(r) == OwnsEvent(r)

ApproveEventAllowed(r) ==
  /\ event[r.event].status = "pending"
  /\ event[r.event].form.publishable
  /\ event[r.event].form.starts > r.now

RejectEventAllowed(r) == event[r.event].status = "pending"

BlockEventAllowed(r) == event[r.event].status = "active"

JoinSoloAllowed(r) ==
  EventAvailable(r.event, r.now) /\ participant[r.event][r.user] = None

CancelSoloAllowed(r) == participant[r.event][r.user] = Solo

-----------------------------------------------------------------------------

\* Repository.Create: a new event waits for moderation.
CreateEvent(k) ==
  \E e \in Events :
    /\ Writing(k, "createEvent")
    /\ event[e] = None
    /\ event' = [event EXCEPT ![e] =
         [status |-> "pending", deleted |-> FALSE, form |-> tx[k].patch,
          creator |-> tx[k].actor]]
    /\ UNCHANGED <<account, company, members, participant, application>>

\* Repository.update: an owner's edit returns the event to moderation, an administrator's
\* edit keeps its status.
EditEvent(k) ==
  LET r == tx[k]
      row == event[r.event]
  IN /\ Writing(k, "editEvent")
     /\ event' = [event EXCEPT ![r.event] =
          [row EXCEPT !.form = NewForm(r),
                      !.status = IF r.actor = Admin THEN row.status ELSE "pending"]]
     /\ UNCHANGED <<account, company, members, participant, application>>

\* Variant: deletion has a status of its own, which the table does not admit.
TombstoneDeleted(row) == [row EXCEPT !.deleted = TRUE, !.status = "deleted"]

Tombstone(row) == [row EXCEPT !.deleted = TRUE, !.status = "blocked"]

\* Variant: only those who came alone lose their participation.
SoloRemoved(e) ==
  [participant EXCEPT ![e] = [u \in Users |-> IF @[u] = Solo THEN None ELSE @[u]]]

ParticipationRemoved(e) == [participant EXCEPT ![e] = [u \in Users |-> None]]

\* Repository.Delete: companies are blocked, applications cancelled, participation removed.
DeleteEvent(k) ==
  LET e == tx[k].event
  IN /\ Writing(k, "deleteEvent")
     /\ event' = [event EXCEPT ![e] = Tombstone(@)]
     /\ company' = [c \in Companies |->
          IF c \in CompaniesOfEvent(e) /\ ~company[c].deleted
          THEN [company[c] EXCEPT !.status = "blocked"] ELSE company[c]]
     /\ application' = Cancelled(CompaniesOfEvent(e))
     /\ participant' = ParticipationRemoved(e)
     /\ UNCHANGED <<account, members>>

\* Repository.Transition.
Moderate(k, op, status) ==
  /\ Writing(k, op)
  /\ event' = [event EXCEPT ![tx[k].event].status = status]
  /\ UNCHANGED <<account, company, members, participant, application>>

ApproveEvent(k) == Moderate(k, "approveEvent", "active")
RejectEvent(k) == Moderate(k, "rejectEvent", "rejected")
BlockEvent(k) == Moderate(k, "blockEvent", "blocked")

\* Repository.JoinSolo: the primary key (event_id, user_id) admits one row.
JoinSolo(k) ==
  LET r == tx[k]
  IN /\ Writing(k, "joinSolo")
     /\ participant[r.event][r.user] = None
     /\ participant' = [participant EXCEPT ![r.event][r.user] = Solo]
     /\ UNCHANGED <<account, event, company, members, application>>

\* Repository.CancelSolo.
CancelSolo(k) ==
  LET r == tx[k]
  IN /\ Writing(k, "cancelSolo")
     /\ participant' = [participant EXCEPT ![r.event][r.user] = None]
     /\ UNCHANGED <<account, event, company, members, application>>

-----------------------------------------------------------------------------

Due(now) ==
  {e \in Events : EventLive(e) /\ event[e].status = "active" /\ Deadline(e) <= now}

\* Variant: the batch is cut in a subquery, before the events others hold are passed over.
LockDueOfFirst(k) ==
  LET due == Due(tx[k].now)
      first == CHOOSE batch \in SUBSET due :
        Cardinality(batch) = (IF Cardinality(due) < Batch THEN Cardinality(due) ELSE Batch)
  IN /\ At(k, "check")
     /\ tx[k].op = "completeDue"
     /\ Advance(k, {EventLock(e) : e \in {f \in first : \A j \in Conns \ {k} :
                                             EventLock(f) \notin held[j]}}, "write")

\* FOR UPDATE SKIP LOCKED LIMIT batch: events another transaction holds are passed over.
LockDue(k) ==
  LET free == {e \in Due(tx[k].now) : \A j \in Conns \ {k} : EventLock(e) \notin held[j]}
  IN /\ At(k, "check")
     /\ tx[k].op = "completeDue"
     /\ \E batch \in SUBSET free :
          /\ Cardinality(batch) =
               (IF Cardinality(free) < Batch THEN Cardinality(free) ELSE Batch)
          /\ Advance(k, {EventLock(e) : e \in batch}, "write")

\* Repository.CompleteDue: the locked events are completed and their applications cancelled.
CompleteDue(k) ==
  LET done == {e \in Events : EventLock(e) \in held[k]}
  IN /\ Writing(k, "completeDue")
     /\ event' = [e \in Events |->
          IF e \in done THEN [event[e] EXCEPT !.status = "completed"] ELSE event[e]]
     /\ application' = Cancelled(UNION {CompaniesOfEvent(e) : e \in done})
     /\ UNCHANGED <<account, company, members, participant>>
=============================================================================
