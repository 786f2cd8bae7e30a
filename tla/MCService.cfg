\* Components that share no state with the rest, one of them at a time.
SPECIFICATION ServiceSpec
CONSTANTS
  u1 = u1
  Uploads = {x1, x2, x3}
  Deletions = {d1, d2}
  Users = {u1}
  None = None
  Owner <- SameUser
  r1 = r1  r2 = r2  r3 = r3  l1 = l1  l2 = l2  l3 = l3
  ann = ann  Ann = Ann  bob = bob  g1 = g1  g2 = g2
  Registrations = {r1, r2, r3}
  Logins = {l1, l2, l3}
  Spellings = {ann, Ann, bob}
  Normal <- LowerCase
  Spelled <- Typed
  Identities = {g1, g2}
  Identity <- Presented
  Nobody = Nobody
  f1 = f1  f2 = f2  f3 = f3  google = google  yandex = yandex
  Flows = {f1, f2, f3}
  Providers = {google, yandex}
  Provider <- TwoOfOne
  NoCookie = NoCookie
  Ttl = 1
  LastMoment = 2
  e1 = e1  e2 = e2  e3 = e3  e4 = e4
  moscow = moscow  child = child  adult = adult  chess = chess
  Edits = {e1, e2, e3, e4}
  Entries = {n1, n2}
  Patch <- Patches
  Cities = {moscow}
  Interests = {chess}
  Births = {child, adult}
  OfAge = {adult}
  Absent = Absent
  Cleared = Cleared
  p1 = p1  p2 = p2  p3 = p3
  Reports = {p1, p2, p3}
  Target <- Targets
  Attended = {p1}
  Admins = {a1, a2}
  NoAdmin = NoAdmin
  PageSize = 1
  LastDate = 1
  MaxInt = 7
  MaxLimit = 2
  Clients = {c1, c2}
  MaxCalls = 5
  Limit = 1
  Window = 3
  MapSize = 1
  MaxWait = 1
  LastTime = 5
SYMMETRY Interchangeable
INVARIANTS
  AvatarExists
  NoOrphan
  ServiceTypeOK
  IdentityIsOneUser
  RegisteredCanLogIn
  PromptFlowIsServed
  ActorIsComplete
  ReportIsResolvedOnce
  WalkMissesNone
  ClientIsBounded
PROPERTIES
  EntersOfAge
  RefusalIsEarned
CHECK_DEADLOCK FALSE
