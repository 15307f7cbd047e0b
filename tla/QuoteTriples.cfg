SPECIFICATION Spec
CONSTANTS
  Req = {r1, r2, r3}
  Kinds = {"save", "head", "decide", "invoice", "sign", "convert", "lost", "delete"}
  Bases = {TRUE}
  Senders = {TRUE}
  Edits = {"append", "copy", "replace", "reverse"}
  Prices = {1}
  Vats = {8}
  VatEdits = {Keep}
  Renumbers = {TRUE, FALSE}
  InitPages = 2
  InitStatus = {"sent", "converted"}
  Keep = Keep
  NoReq = NoReq
  NoTotal = NoTotal
SYMMETRY RequestSymmetry
INVARIANT
  CyclesNeedErase
PROPERTIES
  NothingOverwritten
  PageStateStays
  CodesStand
  ClosedIsFinal
