\* Two covers are uploaded, used by two events and cleaned up by two workers; steps fail.
SPECIFICATION Spec
CONSTANTS
  Uploads = {x1, x2}
  Events = {e1, e2}
  Users = {u1}
  Workers = {w1, w2}
  None = None
  Owner <- SameOwner
  MaxAge = 0
  Batch = 1
  LastInstant = 2
SYMMETRY Interchangeable
INVARIANTS
  TypeOK
  CoverIsLinked
  PromptCoverExists
