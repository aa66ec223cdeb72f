\* Webhooks, operators and the processor on two signals and two runs.
CONSTANTS
  s1 = s1
  s2 = s2
  b1 = b1
  b2 = b2
  q1 = q1
  q2 = q2
  t1 = t1
  t2 = t2
  u1 = u1
  u2 = u2
  k1 = k1
  k2 = k2
  Signals = {s1, s2}
  Runs = {b1, b2}
  Requests = {q1, q2}
  Feeds = {v1}
  Tenants = {t1, t2}
  Users = {u1, u2}
  Keys = {k1, k2}
  Webhooks <- SampleWebhooks
  Callers <- SampleCallers
  ChatOwner <- Owner
  ListLimit = 1
  None = None
SYMMETRY IdSymmetry
SPECIFICATION Spec
INVARIANTS
  SameKeySameSignal
  QueuedAsAcknowledged
  OperatorsStayAtHome
  LiveFeedKnowsItsRuns
PROPERTIES
  OnlyStaleCancelsUndoAResult
  
