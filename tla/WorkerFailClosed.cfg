SPECIFICATION Spec
CONSTANTS
  j1 = j1
  j2 = j2
  Jobs = {j1, j2}
  NoJob = NoJob
  Faults = {"docker", "system"}
  MaxFaults = 2
INVARIANT FailClosed
