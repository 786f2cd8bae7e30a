\* An account is banned between its authentication and its transaction.
SPECIFICATION Spec
CONSTANTS
  Users = {u1, u2}
  Events = {e1}
  Companies = {c1}
  Conns = {k1, k2}
  Admin = Admin
  None = None
  Solo = Solo
  Published = {e1}
  EventForms <- OneForm
  Drafts <- OpenOfTwo
  Patches <- NoPatches
  Age <- Adults
  Ops = {"createCompany", "joinOpen", "ban"}
  Strangers = {}
  Batch = 1
  LastInstant = 0
PROPERTY
  BannedNeverJoin
