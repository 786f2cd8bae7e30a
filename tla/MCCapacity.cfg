\* The owner lowers max_members while a user joins.
SPECIFICATION Spec
CONSTANTS
  Users = {u1, u2, u3}
  Events = {e1}
  Companies = {c1}
  Conns = {k1, k2}
  Admin = Admin
  None = None
  Solo = Solo
  Published = {e1}
  EventForms <- OneForm
  Drafts <- OpenOfThree
  Patches <- Smaller
  Age <- Adults
  Ops = {"createCompany", "joinOpen", "update"}
  Strangers = {}
  Batch = 1
  LastInstant = 0
INVARIANT
  CapacityCoversMembers
