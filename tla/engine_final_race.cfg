CONSTANTS
  Sets = {d1}
  Jobs = {j1}
  Requests = {r1, r2}
  Workers = {w1, w2}
  None = None
  Endpoints = {"create", "upload", "ready", "process", "approve", "reject", "config"}
  Faults = {}
  MaxFaults = 0
SPECIFICATION Spec
CHECK_DEADLOCK FALSE
PROPERTY FinalIsFinal
