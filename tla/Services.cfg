CONSTANTS
  Main = Main
  Child = {c1, c2}
  Slots = 1
  MaxMainTurns = 1
  MaxChildTurns = 2
  MaxActs = 1
  LastLane = 2
  LastDir = 2
  Reader = {r1}
  Call = {k}
  None = None
  Buffer = 2
  Retain = 3
  MaxStreams = 1
  MaxArguments = 1
  MaxSeq = 5
  MaxDeltas = 1
  Conversation = {main, copy}
  Sub = {}
  Owner = main
  Client = {q1, q2}
  Janitor = Janitor
  NoThread = NoThread
  Faults = {f}
SPECIFICATION ServicesSpec
INVARIANTS WorkApart StreamInOrder StreamComplete
PROPERTIES WaitEnds CallServed StreamDelivers OrphansReclaimed
CHECK_DEADLOCK FALSE
