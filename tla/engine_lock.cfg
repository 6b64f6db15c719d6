CONSTANTS
  Sets = {d1, d2}
  Jobs = {j1, j2}
  Requests = {r1, r2}
  Workers = {w1, w2}
  None = None
  Endpoints = {"create", "upload", "ready", "process", "approve", "reject", "config", "delete"}
  Faults = {"crash", "done_crash", "killed", "exception", "request"}
  MaxFaults = 1
SPECIFICATION Spec
SYMMETRY Symmetry
CHECK_DEADLOCK FALSE
INVARIANTS
  OneRunPerGroup
  LockMatchesWork
  InProgressIsOwned
  DeletedIsQuiet
PROPERTIES
  LogAppendOnly
