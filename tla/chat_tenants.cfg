\* Two tenants with two users each, no checkpointer, a graph that may never answer.
CONSTANTS
  r1 = r1
  r2 = r2
  r3 = r3
  Requests = {r1, r2}
  Chats = {c1, c2}
  Tenants = {t1, t2}
  Users = {u1, u2}
  Kinds = {"send", "stream", "delete"}
  Checkpointing = FALSE
  HistoryLimit = 2
  None = None
SPECIFICATION FairSpec
INVARIANTS
  ContextKeepsAnsweredTurns
  OnlyTheOwnerWrites
PROPERTIES
  StreamEnds
