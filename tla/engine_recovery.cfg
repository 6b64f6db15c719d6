CONSTANTS
  Sets = {d1}
  Jobs = {j1}
  Requests = {r1}
  Workers = {w1, w2}
  None = None
  Endpoints = {"create", "upload", "ready", "process", "clear"}
  Faults = {"crash", "done_crash", "late_crash", "killed", "early", "exception"}
  MaxFaults = 2
SPECIFICATION FairSpec
CHECK_DEADLOCK FALSE
PROPERTIES
  LockIsReleased
  InProgressEnds
