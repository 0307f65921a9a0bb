CONSTANTS
  Input = {a, b}
  Wake = {w}
  Client = {p, q}
  None = None
  Retried = {a}
  Steered = {b}
  StorageMayFail = TRUE
  MaxCrashes = 0
SPECIFICATION Spec
SYMMETRY ThreadSymmetry
INVARIANTS TypeOK OneRunningTurn RunningIsRegistered DeliveredOnce QueueMatchesHistory SteersSettled
