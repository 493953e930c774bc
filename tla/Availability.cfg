SPECIFICATION FairSpec
CONSTANTS
  Minimum = 2
  Maximum = 4
  Heartbeat = 3
  Pause = 1
  Call = 1
  Renewal = 1
  Offline = 9
  Tolerated = 1
  MaxFailed = 2
  MaxOutages = 1
INVARIANTS
  TypeOK
  StaysOnline
  PollsPaced
PROPERTIES
  WorksAgain
  GoneIsOffline
