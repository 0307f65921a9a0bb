CONSTANTS
  Input = {a, b}
  Wake = {}
  Client = {p, q}
  None = None
  Retried = {}
  Steered = {b}
  StorageMayFail = FALSE
  MaxCrashes = 1
SPECIFICATION FairSpec
PROPERTIES RunningTurnEnds QueueMovesOn DeliveryImplemented
