SPECIFICATION Spec
CONSTANTS
  nen = nen
  lon = lon
  vua = vua
  nho = nho
  be = be
  Jobs <- MCJobs
  Background <- OneInBackground
  Rows <- MCRows
  MaxActive = 3
  MaxPending = 2
  Budget = 3
  MaxInline = 1
SYMMETRY Alike
PROPERTIES
  LinesAreFair
