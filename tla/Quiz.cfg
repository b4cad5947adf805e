SPECIFICATION Spec
CONSTANTS
  Questions <- TwoQuestions
  Options <- ThreeOptions
  Right = "A"
  Threads <- ThreeThreads
  ForeignKeys = FALSE
  q1 = q1
  q2 = q2
  t1 = t1
  t2 = t2
  t3 = t3
SYMMETRY ThreadSymmetry
INVARIANTS
  TypeOK
  CompletedIsAnswered
  ScoreMatchesAnswers
CHECK_DEADLOCK FALSE
