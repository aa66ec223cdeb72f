\* Three overlapping requests on one chat of one principal, with a checkpointer.
CONSTANTS
  r1 = r1
  r2 = r2
  r3 = r3
  Requests = {r1, r2, r3}
  Chats = {c1}
  Tenants = {t1}
  Users = {u1}
  Kinds = {"send", "stream", "resume", "delete"}
  Checkpointing = TRUE
  HistoryLimit = 2
  None = None
SYMMETRY RequestSymmetry
SPECIFICATION Spec
INVARIANTS
  AnswerFollowsItsQuestion
  AnswersAreHonest
  PausedTurnLeavesNoRow
  AckedSendIsStored
  TitleIsFromAnOpeningTurn
  NoTurnSentTwice
PROPERTIES
  KeepsItsPromise
