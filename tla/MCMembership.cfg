\* Joining, leaving and deleting companies of one event, solo participation beside them.
SPECIFICATION Spec
CONSTANTS
  Users = {u1, u2, u3}
  Events = {e1}
  Companies = {c1, c2}
  Conns = {k1, k2}
  Admin = Admin
  None = None
  Solo = Solo
  Published = {e1}
  EventForms <- OneForm
  Drafts <- OpenOfTwo
  Patches <- NoPatches
  Age <- Adults
  Ops = {"joinSolo", "cancelSolo", "createCompany", "joinOpen", "leave", "removeMember", "deleteCompany"}
  Strangers = {}
  Batch = 1
  LastInstant = 0
SYMMETRY Interchangeable
INVARIANTS
  OneCompanyPerEvent
  ParticipationMirrorsMembership
  OwnerIsMember
PROPERTIES
  AdmissionIsLegal
  ImplementsMembership
