\* Browsers refresh, log in and out while the user is banned; an answer may be lost.
SPECIFICATION Spec
CONSTANTS
  Users = {u1}
  Browsers = {b1}
  Conns = {k1, k2}
  Sessions = {s1}
  None = None
  UserOf <- SameUser
  Window = 1
  Lifetime = 2
  MaxLost = 1
  MaxTokens = 3
  LastInstant = 2
SYMMETRY Interchangeable
INVARIANTS
  TypeOK
  BannedHasNoSession
PROPERTIES
  RevocationIsFinal
  LogoutEndsKnownSession
  RetryIsServed
