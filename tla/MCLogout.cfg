\* A logout races with the repetition of a refresh whose answer was lost.
SPECIFICATION Spec
CONSTANTS
  Users = {u1}
  Browsers = {b1}
  Conns = {k1, k2}
  Sessions = {s1}
  None = None
  UserOf <- SameUser
  Window = 1
  Lifetime = 3
  MaxLost = 1
  MaxTokens = 3
  LastInstant = 2
PROPERTY
  LogoutEndsSession
