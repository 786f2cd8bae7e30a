------------------------ MODULE ApplicationHandlers ------------------------
(***************************************************************************)
(* internal/companies: applications to companies with join_type 'request'. *)
(* Approving one admits the applicant as JoinOpen does.                    *)
(***************************************************************************)
EXTENDS CompanyHandlers

ApplyAllowed(r) ==
  LET c == r.company
  IN /\ company[c].status = "active" /\ company[c].join = "request"
     /\ EventAvailable(r.event, r.now)
     /\ AgeEligible(r.user, c)
     /\ CompaniesOf(r.user, r.event) = {}
     /\ application[c][r.user] # "pending"

\* Variant: the application need only exist.
ApplicationExists(r) == application[r.company][r.user] # None

\* Asked once the application row is locked, before any write.
ApplicationIsPending(r) == application[r.company][r.user] = "pending"

\* Asked of both resolutions once the applicant's row is locked.
ApplicantIsActive(r) == account[r.user] = "active"

\* A closed company may still resolve; join_type is not asked again.
ApproveAllowed(r) ==
  /\ AgeEligible(r.user, r.company)
  /\ company[r.company].status # "blocked"
  /\ EventAvailable(r.event, r.now)
  /\ NotInACompany(r)
  /\ HasRoom(r.company)

-----------------------------------------------------------------------------

Resolve(r, status) ==
  application' = [application EXCEPT ![r.company][r.user] = status]

\* Repository.CreateApplication: a unique index admits one pending row.
Apply(k) ==
  LET r == tx[k]
  IN /\ Writing(k, "apply")
     /\ application[r.company][r.user] # "pending"
     /\ Resolve(r, "pending")
     /\ UNCHANGED <<account, event, company, members, participant>>

\* Repository.CancelApplication.
CancelApplication(k) ==
  /\ Writing(k, "cancelApplication")
  /\ Resolve(tx[k], "cancelled")
  /\ UNCHANGED <<account, event, company, members, participant>>

\* Repository.ResolveApplication.
Approve(k) ==
  /\ Writing(k, "approve")
  /\ Admit(tx[k], tx[k].company)
  /\ Resolve(tx[k], "approved")
  /\ UNCHANGED <<account, event, company>>

Reject(k) ==
  /\ Writing(k, "reject")
  /\ Resolve(tx[k], "rejected")
  /\ UNCHANGED <<account, event, company, members, participant>>
=============================================================================
