CONSTANTS
  Input = {a, b}
  Wake = {}
  Client = {p, q}
  None = None
  Retried = {}
  Steered = {}
  StorageMayFail = FALSE
  MaxCrashes = 0
SPECIFICATION FairSpec
PROPERTIES QueuedInputAdvances
