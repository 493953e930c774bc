SPECIFICATION FairSpec
CONSTANTS
  j1 = j1
  j2 = j2
  Jobs = {j1, j2}
  NoJob = NoJob
  Faults = {"crash", "signal", "network", "lease", "docker", "system"}
  MaxFaults = 3
INVARIANTS
  TypeOK
  NoLeftovers
  EvidenceAgrees
  OneResultAtATime
PROPERTIES
  KeptUntilAnswered
  ResultsDecided
