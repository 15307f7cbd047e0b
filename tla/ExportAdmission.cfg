SPECIFICATION Spec
CONSTANTS
  nen = nen
  lon = lon
  vua = vua
  nho = nho
  be = be
  Jobs <- MCJobs
  Background <- MostInBackground
  Rows <- MCRows
  MaxActive = 3
  MaxPending = 1
  Budget = 3
  MaxInline = 1
INVARIANTS
  TypeOK
PROPERTIES
  NothingIsLost
  EveryJobEnds
