CONSTANTS
  Sets = {d1}
  Jobs = {j1, j2}
  Requests = {r1}
  Workers = {w1, w2}
  None = None
  Endpoints = {"create", "upload", "ready", "process"}
  Faults = {}
  MaxFaults = 0
SPECIFICATION Spec
CHECK_DEADLOCK FALSE
PROPERTY ProcessFromProcessable
