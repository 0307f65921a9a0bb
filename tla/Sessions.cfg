CONSTANTS
  Main = Main
  Child = {c1, c2}
  Slots = 1
  MaxMainTurns = 2
  MaxChildTurns = 2
  MaxActs = 2
  Caller = {u1, u2}
  MaxMishaps = 2
  Prompt = {p1, p2}
  Project = {a, b}
  MaxTurns = 2
  MaxChanges = 2
  Conversation = {main, copy}
  Sub = {sub}
  Owner = main
  Client = {q1, q2}
  Janitor = Janitor
  NoThread = NoThread
  Faults = {f}
  Reader = {r1}
  Call = {k, l}
  None = None
  Buffer = 1
  Retain = 3
  MaxStreams = 1
  MaxArguments = 2
  MaxSeq = 0
  MaxDeltas = 4
SPECIFICATION SessionsSpec
SYMMETRY ChildSymmetry
INVARIANTS SlotsBounded StoppedWorkCancelled ArchivedAtRest NoResultForgotten DelegatedWorkFirst
           AnswerDeliveredOnce AcceptedAnswerKept AnsweredMeansRecorded
           LeaseEndsWithTurn PromptsSettled
           ReleasedAtRest AttachmentsKept
           SnapshotsJoinDeltas
PROPERTIES RevokedPromptGrantsNothing RevokedCommandStays
CHECK_DEADLOCK FALSE
