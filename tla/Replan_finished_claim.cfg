SPECIFICATION Spec
CONSTANTS
  Own <- None
  Materials <- Slides
  Sessions <- TwoEach
  Topics <- None
  Assessed <- None
  Depths <- None
  Copies <- NoTasks
  LeftOut = 0
  Edits <- DoneOnly
  MaxPlans = 2
  MaxEdits = 2
PROPERTIES
  FinishedExcluded
CHECK_DEADLOCK FALSE
