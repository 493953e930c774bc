SPECIFICATION FairSpec
CONSTANTS
  Lease = 8
  Safe = 6
  Interval = 2
  Stop = 1
  Call = 1
  MaxLate = 1
  Faults = {"network", "signal"}
INVARIANTS
  TypeOK
  ExecutionFenced
  LeaseHeld
  HealthyLeaseSurvives
PROPERTIES
  CutOffStops
  HonoursContract
