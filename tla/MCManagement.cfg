\* The owner and the administrator manage a company that users join or apply to, beside the
\* completion worker.
SPECIFICATION Spec
CONSTANTS
  Users = {u1, u2, u3}
  Events = {e1}
  Companies = {c1}
  Conns = {k1, k2}
  Admin = Admin
  None = None
  Solo = Solo
  Published = {e1}
  EventForms <- OneForm
  Drafts <- OpenToAdults
  Patches <- Settings
  Age <- Adults
  Ops = {"createCompany", "apply", "joinOpen", "update", "open", "close", "blockCompany", "deleteCompany", "completeDue"}
  Strangers = {}
  Batch = 1
  LastInstant = 1
SYMMETRY Interchangeable
INVARIANT
  DeadlocksMixOrders
PROPERTIES
  AdmissionIsLegal
  BlockIsFinal
\* Once its only company is deleted, the instance has nothing left to call.
CHECK_DEADLOCK FALSE
