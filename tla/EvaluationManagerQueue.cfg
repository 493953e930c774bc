SPECIFICATION FairSpec
CONSTANTS
  s1 = s1
  s2 = s2
  w1 = w1
  Submissions = {s1, s2}
  Ready = {s1, s2}
  Workers = {w1}
  NoWorker = NoWorker
  MaxAttempts = 2
  LeaseSeconds = 1
  OfflineSeconds = 1
  FailureTypes = {"INFRASTRUCTURE_FAILURE", "TIMEOUT"}
INVARIANTS
  OneActiveJob
  OnlineIsIdle
PROPERTIES
  AbandonedJobEnds
  ImplementsLifecycle
