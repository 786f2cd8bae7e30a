\* The life of an event: moderation, edits, deletion and the completion worker, against
\* people taking part in it.
SPECIFICATION Spec
CONSTANTS
  Users = {u1, u2}
  Events = {e1}
  Companies = {c1}
  Conns = {k1, k2}
  Admin = Admin
  None = None
  Solo = Solo
  Published = {}
  EventForms <- TwoForms
  Drafts <- RequestOfTwo
  Patches <- NoPatches
  Age <- Adults
  Ops = {"createEvent", "createCompany", "apply", "joinSolo", "editEvent", "approveEvent", "rejectEvent", "blockEvent", "deleteEvent", "completeDue"}
  Strangers = {}
  Batch = 1
  LastInstant = 1
SYMMETRY Interchangeable
INVARIANTS
  TypeOK
  ParticipationMirrorsMembership
  PendingIsOpen
PROPERTIES
  AdmissionIsLegal
  EventEndIsFinal
  ImplementsMembership
