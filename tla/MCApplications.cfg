\* Applications to one company racing each other, their cancellation, the block and the bans.
SPECIFICATION Spec
CONSTANTS
  Users = {u1, u2, u3}
  Events = {e1}
  Companies = {c1}
  Conns = {k1, k2}
  Admin = Admin
  None = None
  Solo = Solo
  Published = {e1}
  EventForms <- OneForm
  Drafts <- RequestOfTwo
  Patches <- NoPatches
  Age <- Adults
  Ops = {"createCompany", "apply", "cancelApplication", "approve", "reject", "blockCompany", "ban", "unban"}
  Strangers = {}
  Batch = 1
  LastInstant = 0
SYMMETRY Interchangeable
INVARIANTS
  PendingIsOpen
PROPERTIES
  AdmissionIsLegal
  ResolutionIsFinal
  ApprovalAdmits
