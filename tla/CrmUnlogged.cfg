SPECIFICATION Spec
CONSTANTS
  e1 = e1
  e2 = e2
  w1 = w1
  w2 = w2
  c1 = c1
  c2 = c2
  r1 = r1
  NoRecord = NoRecord
  NoStatus = NoStatus
  NoBody = NoBody
  NoSlot = NoSlot
  CallRecords = {r1}
  MaxStalled = 1
  Enquiries = {e1}
  Workers = {w1}
  Concurrency = 1
  Attempts = 3
  Calls = {c1}
  Bodies <- EveryKindOfBody
  MaxStops = 0
  DatabaseMayFail = FALSE
  RedisMayFail = FALSE
INVARIANT EveryCallIsAudited
CHECK_DEADLOCK FALSE
