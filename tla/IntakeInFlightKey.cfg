SPECIFICATION FairSpec
CONSTANTS
  Requests = {r1, r2}
  Instances = {i1}
  Keys = {k1}
  Payloads <- TwoEnquiries
  PoolSize = 1
  MaxId = 2
  MaxAdds = 2
  RedisMayFail = FALSE
  NoKey = NoKey
  NoRow = NoRow
  NoSubmission = NoSubmission
  NoAnswer = NoAnswer
PROPERTY InFlightKeyRefused
