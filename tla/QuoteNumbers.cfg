SPECIFICATION Spec
CONSTANTS
  r1 = r1
  r2 = r2
  None = None
  Reqs = {r1, r2}
  Prefixes = {"GN"}
  Owners = {"FP"}
  Years <- TurnOfYear
  Legacy <- TwoAndCode
  Manual <- Three
  Kinds = {"create", "copy", "version", "renumber"}
  MaxValue = 3
SYMMETRY Pair
CHECK_DEADLOCK FALSE
INVARIANTS
  TypeOK
  NumberNotBurnt
  SomebodyGoesOn
PROPERTIES
  TriesLead
