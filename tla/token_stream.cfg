\* Every order of up to four graph messages, with padded, quoted and prefaced texts.
CONSTANTS
  A1 = A1
  A2 = A2
  Agents = {A1, A2}
  Characters = {"a", "b", "h", "q", "_"}
  Texts <- AllTexts
  Blank = "_"
  Quote = "q"
  Preamble <- PreambleText
  KeyLength = 2
  MaxEvents = 4
  NoText = NoText
SYMMETRY AgentSymmetry
SPECIFICATION Spec
INVARIANTS
  TypeOK
  FramesFollowTheRun
  TokensAreNotHandoffs
  StoredIsWhatWasShown
  AnswerIsShownOnce
