SPECIFICATION FairSpec
CONSTANTS
  e1 = e1
  e2 = e2
  w1 = w1
  w2 = w2
  c1 = c1
  c2 = c2
  r1 = r1
  NoRecord = NoRecord
  NoStatus = NoStatus
  NoBody = NoBody
  NoSlot = NoSlot
  CallRecords = {r1}
  MaxStalled = 1
  Enquiries = {e1}
  Workers = {w1, w2}
  Concurrency = 1
  Attempts = 3
  Calls = {}
  Bodies = {}
  MaxStops = 2
  DatabaseMayFail = TRUE
  RedisMayFail = FALSE
INVARIANTS DeadLettersAreFinal PushesAreBounded CompletedIsSynced
PROPERTIES ShutdownAbandonsNoJob EveryJobEnds FailedIsDeadLettered
CHECK_DEADLOCK FALSE
