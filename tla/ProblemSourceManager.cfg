SPECIFICATION FairSpec
CONSTANTS
  s1 = s1
  s2 = s2
  c = c
  e = e
  Syncs = {s1, s2}
  Commits = {c, e}
  Empty = {e}
  NoCommit = NoCommit
  MaxFaults = 2
INVARIANTS
  TypeOK
  HistoryReachable
  StatusDescribesCommit
  LockedReadHolds
PROPERTIES
  FaultlessSyncSucceeds
