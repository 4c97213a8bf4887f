SPECIFICATION InTurnsSpec
CONSTANTS
  Requests = {r1, r2}
  Instances = {i1, i2}
  Keys = {}
  Payloads <- OneEnquiry
  PoolSize = 1
  MaxId = 2
  MaxAdds = 1
  RedisMayFail = TRUE
  NoKey = NoKey
  NoRow = NoRow
  NoSubmission = NoSubmission
  NoAnswer = NoAnswer
  Workers = {w1}
  Concurrency = 1
  Attempts = 1
  MaxStalled = 0
  Calls = {c1}
  Bodies <- Reports
  CallRecords = {x1}
  MaxStops = 0
  DatabaseMayFail = FALSE
  NoRecord = NoRecord
  NoStatus = NoStatus
  NoBody = NoBody
  NoSlot = NoSlot
INVARIANTS ContentIsSyncedOnce AcknowledgedIsTracked
PROPERTIES ImplementsCrmSync ImplementsTable ImplementsRegister Settles
