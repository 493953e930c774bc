SPECIFICATION Spec
CONSTANTS
  j1 = j1
  j2 = j2
  Jobs = {j1, j2}
  NoJob = NoJob
  Faults = {"signal"}
  MaxFaults = 1
INVARIANT SignalCancels
