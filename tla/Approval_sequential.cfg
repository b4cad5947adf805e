CONSTANTS
  i1 = i1
  i2 = i2
  Items <- TwoItems
  Turns <- FourTurns
  InFlight = 1
  Marks <- DoneMark
  Faults <- Benign
  MaxFaults = 1
SPECIFICATION Spec
INVARIANTS
  TypeOK
  WrittenOnlyByYes
  OnlyShownPlansWritten
  OneTaskPerItem
  PausedMatchesGraph
PROPERTIES
  KeepsPromise
SYMMETRY ItemSymmetry
\* The conversation may be over.
CHECK_DEADLOCK FALSE
