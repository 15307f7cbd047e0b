SPECIFICATION Spec
CONSTANTS
  Req = {r1, r2}
  Kinds = {"save", "head", "decide", "invoice", "sign", "convert", "lost", "delete"}
  Bases = {TRUE, FALSE}
  Senders = {TRUE, FALSE}
  Edits = {"reprice", "append", "replace", "copy", "noIds"}
  Prices = {1, 2}
  Vats = {8, 10}
  VatEdits = {10, Keep}
  Renumbers = {FALSE}
  InitPages = 2
  InitStatus = {"draft", "sent", "converted"}
  Keep = Keep
  NoReq = NoReq
  NoTotal = NoTotal
SYMMETRY RequestSymmetry
INVARIANTS
  TypeOK
  TotalMatchesPages
  SomebodyGoesOn
PROPERTIES
  LocksWork
  RevenueIsRight
  HistoryIsRecord
  PositionalSaveKeepsState
