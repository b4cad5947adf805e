CONSTANTS
  d1 = d1
  d2 = d2
  text = text
  scan = scan
  r1 = r1
  r2 = r2
  Docs <- OneDoc
  Digests <- TextAndScan
  Blank <- ScanIsBlank
  ForeignKeys = FALSE
  Slots <- TwoSlots
  Retriers <- OneRetrier
  MaxCrashes = 0
SPECIFICATION Spec
INVARIANTS
  NoOrphanRow
CHECK_DEADLOCK FALSE
