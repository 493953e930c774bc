SPECIFICATION Spec
CONSTANTS
  j1 = j1
  j2 = j2
  Jobs = {j1, j2}
  NoJob = NoJob
  Faults = {"lease"}
  MaxFaults = 1
INVARIANT LostLeaseRetried
