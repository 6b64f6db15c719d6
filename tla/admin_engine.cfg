CONSTANTS
  Sets = {d1, d2}
  Jobs = {j1, j2}
  Requests = {r1}
  Workers = {w1, w2}
  Admins = {a1}
  None = None
  Endpoints = {"create", "upload", "ready", "process", "reject", "delete"}
  Faults = {"request", "killed"}
  MaxFaults = 1
  Operations = {"job", "force", "unlock", "form", "settings", "requeue", "cleanup"}
  MaxAdmin = 2
SPECIFICATION AdminSpec
ACTION_CONSTRAINT FormsOfInterest
SYMMETRY Symmetry
CHECK_DEADLOCK FALSE
INVARIANTS
  AdminTypeOK
  OneRunUnlessOverridden
  LockIsAccounted
  InProgressIsAccounted
  DeletedStaysQuiet
PROPERTIES
  LogKeptUnlessOverridden
