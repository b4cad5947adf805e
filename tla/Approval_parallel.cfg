CONSTANTS
  i1 = i1
  i2 = i2
  Items <- OneItem
  Turns <- ThreeTurns
  InFlight = 2
  Marks <- NoMarks
  Faults <- AllFaults
  MaxFaults = 1
SPECIFICATION FairSpec
INVARIANTS
  WrittenAfterSomeYes
PROPERTIES
  TurnsEnd
\* The conversation may be over.
CHECK_DEADLOCK FALSE
