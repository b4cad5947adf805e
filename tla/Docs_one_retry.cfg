CONSTANTS
  d1 = d1
  d2 = d2
  text = text
  scan = scan
  r1 = r1
  r2 = r2
  Docs <- TwoDocs
  Digests <- TextAndScan
  Blank <- ScanIsBlank
  ForeignKeys = TRUE
  Slots <- TwoSlots
  Retriers <- OneRetrier
  MaxCrashes = 1
SPECIFICATION Spec
INVARIANTS
  TypeOK
  NoDuplicateDocument
  NoOrphanRow
  OneJobPerDocument
  ReadyIsSearchable
PROPERTIES
  KeepsPromise
\* A course whose documents are all deleted and a client that stops.
CHECK_DEADLOCK FALSE
