SPECIFICATION Spec
CONSTANTS
  Own <- EssayAndExam
  Materials <- Slides
  Sessions <- TwoEach
  Topics <- Graphs
  Assessed <- Midterm
  Depths <- None
  Copies <- UpToTwo
  LeftOut = 1
  Edits <- AllEdits
  MaxPlans = 3
  MaxEdits = 2
INVARIANTS
  TypeOK
  
  
PROPERTIES
  
  OwnTasksRespected
\* The bounds stop the student.
CHECK_DEADLOCK FALSE
