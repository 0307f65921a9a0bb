CONSTANTS
  Task = {t1}
  Request = {q1}
  Rule = {0, 2}
  Period = 1
  Jitter = 1
  MaxClock = 2
  MaxRuns = 3
  MaxEvents = 2
  Caller = {me}
  None = None
  TailTurns = 1
  KeepTurns = 0
  MaxAside = 1
  MaxMessages = 5
  MaxTurns = 3
SPECIFICATION BackgroundSpec
INVARIANTS HandoffTruthful NoPileUp EveryOccurrenceRecorded
           NothingForgotten CurrentTurnKept ExchangesWhole CoolingSparesTurn
PROPERTIES PendingHandedOff DueIsServed
CHECK_DEADLOCK FALSE
