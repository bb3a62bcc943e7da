SPECIFICATION WalksSpec
CONSTANTS
  Chains <- SomeChains
  Chars = {"a", "b"}
  These <- TheseChains
  Those <- ThoseChains
  Modes = {"stream", "at"}
  IovMax = 2
  MaxInterrupts = 1
  MayBreak = TRUE
VIEW View
INVARIANTS FileRight AnswerRight ComparesText SlicesAgree Recovered
PROPERTIES WriteReturns ReturnsForOneBuffer ReadsInOrder Arithmetic
CHECK_DEADLOCK FALSE
