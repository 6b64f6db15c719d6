CONSTANTS
  Sets = {d1, d2}
  Jobs = {j1, j2}
  Requests = {r1}
  Workers = {w1, w2}
  None = None
  Endpoints = {"create", "upload", "ready", "process", "approve", "reject", "config", "delete", "cancel"}
  Faults = {"crash", "killed", "exception"}
  MaxFaults = 2
SPECIFICATION Spec
ACTION_CONSTRAINT Patience
SYMMETRY Symmetry
CHECK_DEADLOCK FALSE
INVARIANTS
  TypeOK
  MemoryIsFresh
PROPERTIES
  FinalIsFinal
  ImplementsLifecycle
