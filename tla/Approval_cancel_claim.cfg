CONSTANTS
  i1 = i1
  i2 = i2
  Items <- OneItem
  Turns <- ThreeTurns
  InFlight = 1
  Marks <- NoMarks
  Faults <- Cancels
  MaxFaults = 1
SPECIFICATION Spec
INVARIANTS
  WrittenOnlyByYes
\* The conversation may be over.
CHECK_DEADLOCK FALSE
