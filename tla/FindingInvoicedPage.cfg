SPECIFICATION Spec
CONSTANTS
  Req = {r1, r2}
  Kinds = {"save", "invoice"}
  Bases = {TRUE}
  Senders = {TRUE}
  Edits = {"reprice"}
  Prices = {1, 2}
  Vats = {8, 10}
  VatEdits = {Keep}
  Renumbers = {FALSE}
  InitPages = 1
  InitStatus = {"converted"}
  Keep = Keep
  NoReq = NoReq
  NoTotal = NoTotal
SYMMETRY RequestSymmetry
PROPERTIES
  InvoicedPageFrozen
