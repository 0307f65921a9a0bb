CONSTANTS
  Input = {a, b}
  Wake = {}
  Client = {p, q}
  None = None
  Retried = {a}
  Steered = {a}
  StorageMayFail = FALSE
  MaxCrashes = 0
SPECIFICATION Spec
INVARIANTS DeliveredOnce
