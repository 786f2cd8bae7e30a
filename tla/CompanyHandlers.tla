-------------------------- MODULE CompanyHandlers --------------------------
(***************************************************************************)
(* internal/companies: companies of an event and their members.            *)
(***************************************************************************)
EXTENDS Database

\* Variant: only the company to be entered is looked at.
NotInThisCompany(r) == r.company # None => r.user \notin members[r.company]

\* The one-company rule, asked of company_members and again of event_participants.
NotInACompany(r) ==
  /\ CompaniesOf(r.user, r.event) = {}
  /\ participant[r.event][r.user] \notin Companies

\* Variant: the last seat is given twice.
HasRoomOrIsFull(c) == Cardinality(members[c]) <= company[c].max

HasRoom(c) == Cardinality(members[c]) < company[c].max

\* Variant: the block is forgotten.
Owns(r) == company[r.company].owner = r.actor

\* A row that lockCompany returned: the caller owns it and it is not blocked.
OwnsUnblocked(r) ==
  company[r.company].owner = r.actor /\ company[r.company].status # "blocked"

CreateCompanyAllowed(r) == EventAvailable(r.event, r.now) /\ NotInACompany(r)

JoinOpenAllowed(r) ==
  LET c == r.company
  IN /\ company[c].status = "active" /\ company[c].join = "open"
     /\ EventAvailable(r.event, r.now)
     /\ AgeEligible(r.user, c)
     /\ NotInACompany(r)
     /\ HasRoom(c)

\* Variant: whoever is a member may go.
IsMember(r) == r.user \in members[r.company]

LeaveAllowed(r) == company[r.company].owner # r.user /\ r.user \in members[r.company]

RemoveMemberAllowed(r) == company[r.company].owner = r.actor /\ LeaveAllowed(r)

\* The count compared with the new limit is the one lockCompany's statement read when it began.
UpdateAllowed(r) ==
  /\ OwnsUnblocked(r)
  /\ EventAvailable(r.event, r.now)
  /\ r.patch.max # None => r.patch.max >= r.count

OpenAllowed(r) == OwnsUnblocked(r) /\ EventAvailable(r.event, r.now)

CloseAllowed(r) == OwnsUnblocked(r)

DeleteCompanyAllowed(r) == company[r.company].owner = r.actor

\* getByID finds a company of a live event only; otherwise the block is rolled back.
BlockCompanyAllowed(r) == company[r.company].status # "blocked" /\ EventLive(r.event)

-----------------------------------------------------------------------------

\* A participation row seen by the checks is locked and updated; one that was not seen is
\* inserted, which the primary key (event_id, user_id) refuses when it has appeared since.
Admit(r, c) ==
  /\ r.had \/ participant[r.event][r.user] = None
  /\ members' = [members EXCEPT ![c] = @ \cup {r.user}]
  /\ participant' = [participant EXCEPT ![r.event][r.user] = c]

NewCompany(r) ==
  [event |-> r.event, owner |-> r.user, status |-> "active", deleted |-> FALSE,
   max |-> r.patch.max, join |-> r.patch.join, minAge |-> r.patch.minAge]

\* Repository.Create: the creator becomes owner and first member.
CreateCompany(k) ==
  LET r == tx[k]
  IN \E c \in Companies :
       /\ Writing(k, "createCompany")
       /\ company[c] = None
       /\ company' = [company EXCEPT ![c] = NewCompany(r)]
       /\ Admit(r, c)
       /\ UNCHANGED <<account, event, application>>

\* Repository.JoinOpen.
JoinOpen(k) ==
  /\ Writing(k, "joinOpen")
  /\ Admit(tx[k], tx[k].company)
  /\ UNCHANGED <<account, event, company, application>>

\* Variant: whoever leaves a company takes part alone.
ExpelToSolo(r) ==
  /\ members' = [members EXCEPT ![r.company] = @ \ {r.user}]
  /\ participant' = [participant EXCEPT ![r.event][r.user] =
                        IF @ = r.company THEN Solo ELSE @]

\* DELETE FROM event_participants WHERE event_id AND user_id AND company_id.
Expel(r) ==
  /\ members' = [members EXCEPT ![r.company] = @ \ {r.user}]
  /\ participant' = [participant EXCEPT ![r.event][r.user] =
                        IF @ = r.company THEN None ELSE @]

\* Repository.Leave and Repository.RemoveMember: participation ends, solo is not restored.
Leave(k) ==
  /\ Writing(k, "leave")
  /\ Expel(tx[k])
  /\ UNCHANGED <<account, event, company, application>>

RemoveMember(k) ==
  /\ Writing(k, "removeMember")
  /\ Expel(tx[k])
  /\ UNCHANGED <<account, event, company, application>>

Patched(field, old) == IF field = None THEN old ELSE field

\* Repository.Update.
Update(k) ==
  LET r == tx[k]
      row == company[r.company]
  IN /\ Writing(k, "update")
     /\ company' = [company EXCEPT ![r.company] =
          [row EXCEPT !.max = Patched(r.patch.max, row.max),
                      !.join = Patched(r.patch.join, row.join),
                      !.minAge = Patched(r.patch.minAge, row.minAge)]]
     /\ UNCHANGED <<account, event, members, participant, application>>

\* Repository.SetRecruitment.
SetRecruitment(k, op, status) ==
  /\ Writing(k, op)
  /\ company' = [company EXCEPT ![tx[k].company].status = status]
  /\ UNCHANGED <<account, event, members, participant, application>>

Open(k) == SetRecruitment(k, "open", "active")
Close(k) == SetRecruitment(k, "close", "closed")

\* Variant: only the owner's participation ends.
OwnerParticipationRemoved(c) ==
  [e \in Events |-> [u \in Users |->
     IF participant[e][u] = c /\ u = company[c].owner THEN None ELSE participant[e][u]]]

CompanyParticipationRemoved(c) ==
  [e \in Events |-> [u \in Users |->
     IF participant[e][u] = c THEN None ELSE participant[e][u]]]

\* Repository.Delete: company_members is kept as history.
DeleteCompany(k) ==
  LET c == tx[k].company
  IN /\ Writing(k, "deleteCompany")
     /\ company' = [company EXCEPT ![c].deleted = TRUE]
     /\ application' = Cancelled({c})
     /\ participant' = CompanyParticipationRemoved(c)
     /\ UNCHANGED <<account, event, members>>

\* Repository.Block.
BlockCompany(k) ==
  LET c == tx[k].company
  IN /\ Writing(k, "blockCompany")
     /\ company' = [company EXCEPT ![c].status = "blocked"]
     /\ application' = Cancelled({c})
     /\ UNCHANGED <<account, event, members, participant>>
=============================================================================
