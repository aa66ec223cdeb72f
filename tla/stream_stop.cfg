\* The client stops a stream whose synthesis has begun.
CONSTANTS
  A1 = A1
  A2 = A2
  Agents = {A1}
  Characters = {"a", "b", "h", "q", "_"}
  Texts <- FewTexts
  Blank = "_"
  Quote = "q"
  Preamble <- PreambleText
  KeyLength = 2
  MaxEvents = 3
  NoText = NoText
SPECIFICATION Spec
INVARIANTS
  StoppedStreamKeepsItsContent
