SPECIFICATION Spec
CONSTANTS
    Files = {f1, f2, f3}
    Bad = {f3}
    Requests = {r1, r2}
    MaxPending = 1
    Batch = 1
    MaxFaults = 1
    MaxRemoved = 1
SYMMETRY Same
CHECK_DEADLOCK FALSE
INVARIANTS
  TypeOK
  StagingTraceable
  PendingBounded
PROPERTIES
  FinishedStands
