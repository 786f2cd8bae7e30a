\* A cover is linked after a worker has listed its upload as expired.
SPECIFICATION Spec
CONSTANTS
  Uploads = {x1, x2}
  Events = {e1, e2}
  Users = {u1}
  Workers = {w1, w2}
  None = None
  Owner <- SameOwner
  MaxAge = 0
  Batch = 1
  LastInstant = 2
INVARIANT
  CoverExists
