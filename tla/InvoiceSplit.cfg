CONSTANTS
    Numbers = {n1}
    Days = {d1}
    None = None
    MaxGroup = 2
    FirstPages = 2
    MaxPages = 3
    MaxCode = 3
SPECIFICATION Spec
CHECK_DEADLOCK FALSE
INVARIANTS
  TypeOK
  PreviewIsStored
PROPERTIES
  BooksStand
