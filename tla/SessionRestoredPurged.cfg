CONSTANTS
  Conversation = {m, k}
  Sub = {}
  Owner = m
  Client = {u1, u2}
  Janitor = Janitor
  NoThread = NoThread
  Faults = {}
SPECIFICATION LifeSpec
PROPERTIES OnlyExpiredPurged
CHECK_DEADLOCK FALSE
