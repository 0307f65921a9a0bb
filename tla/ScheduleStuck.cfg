CONSTANTS
  Task = {t1}
  Request = {}
  Rule = {0}
  Period = 1
  Jitter = 1
  MaxClock = 2
  MaxRuns = 2
  MaxEvents = 2
SPECIFICATION SchedFairSpec
PROPERTIES DueIsAccepted
CHECK_DEADLOCK FALSE
