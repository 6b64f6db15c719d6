CONSTANTS
  Sets = {d1}
  Jobs = {j1}
  Requests = {r1}
  Workers = {w1, w2}
  None = None
  Endpoints = {"create", "upload", "ready", "process"}
  Faults = {"crash"}
  MaxFaults = 1
SPECIFICATION FairSpec
CHECK_DEADLOCK FALSE
PROPERTY FullRunIsTerminal
