SPECIFICATION FairSpec
CONSTANTS
  j1 = j1
  j2 = j2
  Jobs = {j1, j2}
  NoJob = NoJob
  Faults = {"crash"}
  MaxFaults = 1
PROPERTY UnacknowledgedReplayed
