\* Handlers that lock event and company in opposite orders, and completion passes beside them:
\* every request ends, and so does every event.  One of the users has created both events.
SPECIFICATION FairSpec
CONSTANTS
  Users = {u1, u2}
  Events = {e1, e2}
  Companies = {c1}
  Conns = {k1, k2}
  Admin = Admin
  None = None
  Solo = Solo
  Published = {e1, e2}
  EventForms <- OneForm
  Drafts <- OpenOfTwo
  Patches <- NoPatches
  Age <- Adults
  Ops = {"createCompany", "joinOpen", "close", "completeDue"}
  Strangers = {u2}
  Batch = 1
  LastInstant = 1
CONSTRAINT OneCreator
PROPERTIES
  EveryRequestEnds
  DueIsCompleted
