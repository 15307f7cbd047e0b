SPECIFICATION Spec
CONSTANTS
  Req = {p1, p2}
  User = {ann, bao, chi}
  Fillers = {ann, bao}
  Editors = {bao, chi}
  Managers = {bao}
  Payers = {chi}
  Rid = {r1, r2}
  Amount = {1, 2}
  Revs = {TRUE, FALSE}
  MaxProofs = 2
  Kinds = {"fill", "save", "submit", "review", "assign", "delete", "pay"}
  InitStates = {"legacy", "cho-duyet", "da-duyet"}
  NoOne = NoOne
  NoAmount = NoAmount
  Keep = Keep
SYMMETRY RequestSymmetry
INVARIANTS
  TypeOK
  SummaryMatches
PROPERTIES
  ReviewStands
  PaidStands
  EntryIsRecord
