SPECIFICATION Spec
CONSTANTS
  u1 = u1
  u2 = u2
  u3 = u3
  Uploads = {u1, u2, u3}
  p1 = p1
  p2 = p2
  Processes = {p1, p2}
  Backends = {"local", "s3"}
  MaxFaults = 3
INVARIANTS
  TypeOK
  VersionsHaveContent
  VersionsConsecutive
  NumberStillNext
PROPERTIES
  ImplementsLog
CHECK_DEADLOCK FALSE
