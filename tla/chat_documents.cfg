\* Two requests on two chats of one tenant with two users, up to two files each, one of them blank.
CONSTANTS
  r1 = r1
  r2 = r2
  u1 = u1
  u2 = u2
  c1 = c1
  c2 = c2
  Requests = {r1, r2}
  Chats = {c1, c2}
  Tenants = {t1}
  Users = {u1, u2}
  Files = {f1, f2}
  BlankFiles = {f2}
  UploadNamespace = uploads
  AgentNamespaces = {learned}
  None = None
SYMMETRY DocumentSymmetry
SPECIFICATION Spec
INVARIANTS
  DataStaysWithItsOwner
  ReportsAreTrue
  EveryFileIsAccountedFor
  AttachedIsPrompted
  SharePromotes
