CONSTANTS
  Input = {a, b}
  Wake = {}
  Client = {p, q}
  None = None
  Retried = {a}
  Steered = {}
  StorageMayFail = FALSE
  MaxCrashes = 0
SPECIFICATION Spec
INVARIANTS WaitingInputNotStarted
