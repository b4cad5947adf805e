CONSTANTS
  d1 = d1
  d2 = d2
  text = text
  scan = scan
  r1 = r1
  r2 = r2
  Docs <- OneDoc
  Digests <- TextAndScan
  Blank <- ScanIsBlank
  ForeignKeys = FALSE
  Slots <- TwoSlots
  Retriers <- TwoRetriers
  MaxCrashes = 1
SPECIFICATION FairSpec
INVARIANTS
  LiveHasFile
  ProcessingIsWorkedOn
PROPERTIES
  GoneStaysGone
  ProcessingSettles
\* A course whose documents are all deleted and a client that stops.
CHECK_DEADLOCK FALSE
