SPECIFICATION InTurnsSpec
CONSTANTS
  Instances = {i1, i2}
  Requests = {q1, q2}
  Routes = {"enquiry", "property"}
  Window = 2
  Max <- Limits
  ForceAfter = 1
  MaxCrashes = 1
  RedisMayFail = TRUE
INVARIANTS TypeOK LimitHolds TwiceTheLimitAtMost
PROPERTIES ShutdownCutsNobody ShutdownEnds
