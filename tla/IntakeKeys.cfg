SPECIFICATION Spec
CONSTANTS
  Requests = {r1, r2}
  Instances = {i1, i2}
  Keys = {k1, k2}
  Payloads <- AllKinds
  PoolSize = 1
  MaxId = 2
  MaxAdds = 2
  RedisMayFail = TRUE
  NoKey = NoKey
  NoRow = NoRow
  NoSubmission = NoSubmission
  NoAnswer = NoAnswer
SYMMETRY RequestSymmetry
INVARIANTS
  TypeOK UniqueEnquiries OneClaimantPerKey AnswerMatchesSubmission TruthfulAnswers
  CreatedHasJobs JobsFollowCommits OneSyncJobPerEnquiry IInv
PROPERTIES ReplayRepeatsAnswer
