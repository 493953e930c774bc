SPECIFICATION FleetSpec
CONSTANTS
  s1 = s1
  w1 = w1
  w2 = w2
  Submissions = {s1}
  Ready = {s1}
  Workers = {w1, w2}
  NoWorker = NoWorker
  NoJob = NoJob
  Hold = 1
  MaxAttempts = 2
  LeaseSeconds = 2
  OfflineSeconds = 1
  FailureTypes = {"INFRASTRUCTURE_FAILURE", "TIMEOUT"}
SYMMETRY Symmetry
INVARIANTS
  SingleExecution
  ExecutionLeased
  TypeOK
  RetriedIffUndecided
  EvaluationAgrees
  ResultHoldsLiveJob
PROPERTIES
  EndedIsFinal
  LeaseDecides
  DrainingHolds
