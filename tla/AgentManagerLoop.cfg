SPECIFICATION FairSpec
CONSTANTS
  u1 = u1
  u2 = u2
  p1 = p1
  Uploads = {u1, u2}
  Processes = {p1}
  Backends = {"local"}
  MaxFaults = 0
PROPERTY
  UploadsAnswered
CHECK_DEADLOCK FALSE
