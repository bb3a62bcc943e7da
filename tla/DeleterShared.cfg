SPECIFICATION Spec
CONSTANTS
  Threads = {t, u}
  Handles = {h1, h2, h3}
  Actions = {a, b, c}
  Nobody = Nobody
  NoAction = NoAction
  MaxImpls = 4
  Disciplined = FALSE
INVARIANT Kept
CHECK_DEADLOCK FALSE
