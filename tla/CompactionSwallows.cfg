CONSTANTS
  Caller = {me}
  None = None
  TailTurns = 1
  KeepTurns = 0
  MaxAside = 1
  MaxMessages = 5
  MaxTurns = 3
SPECIFICATION CtxSpec
INVARIANTS NothingSwallowed
CHECK_DEADLOCK FALSE
