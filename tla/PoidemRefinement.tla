-------------------------- MODULE PoidemRefinement --------------------------
(***************************************************************************)
(* The handlers implement Membership: the tables, read together, are one   *)
(* table of places, and each commit changes it as one move or not at all.  *)
(***************************************************************************)
EXTENDS Poidem

ASSUME FounderAssumption == None \notin [event: Events, founder: Users]

Founded ==
  [c \in Companies |->
     IF company[c] = None THEN None
     ELSE [event |-> company[c].event, founder |-> company[c].owner]]

\* Everything company_members and event_participants say of a user: more than one place if
\* they disagree, and none in company_members once the event is deleted, which only blocks
\* its companies.
Place ==
  [e \in Events |-> [u \in Users |->
     (IF EventLive(e) THEN CompaniesOf(u, e) ELSE {}) \cup ({participant[e][u]} \ {None})]]

Over == {e \in Events : event[e] # None /\ event[e].deleted}

Gone ==
  {c \in Companies : company[c] # None /\ (company[c].deleted \/ ~EventLive(company[c].event))}

Abstract ==
  INSTANCE Membership WITH founded <- Founded, place <- Place, over <- Over, gone <- Gone

\* Create, JoinOpen, Leave, RemoveMember, ResolveApplication, Delete of a company or of an event,
\* JoinSolo and CancelSolo, interleaved in any order and failing anywhere, never show a place
\* lost, doubled or exchanged: each commit is one move of Membership
\* (docs/backend-requirements-poydem.md, sections 10 to 12).
ImplementsMembership == Abstract!Spec

\* What a user may rely on, said of the tables: no commit, and nothing that a request leaves when
\* it fails, shows a user in two places, in a company that is deleted or of another event, or a
\* company that stands without its founder.
KeepsPromise == Abstract!Promise
=============================================================================
