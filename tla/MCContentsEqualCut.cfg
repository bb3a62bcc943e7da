SPECIFICATION EqualSpec
CONSTANTS
  Chars = {"a", "b"}
  These <- ABB
  Those <- ABthenB
PROPERTY Answers
CHECK_DEADLOCK FALSE
