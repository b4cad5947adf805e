CONSTANTS
  Candidates <- Two
  Start = 1
  Year = 12
  MaxPerDay = 3
  MaxDepth = 3
  BaseLoads <- One
  Efforts <- OneThree
  Deadlines <- PastAndLate
  SemesterEnds <- ZeroThree
  Designs <- AllDesigns
SPECIFICATION FairSpec
INVARIANTS
  TypeOK
  DailyLimit
  NothingBeforeStart
  DepthHonoured
PROPERTIES
  PlanCompletes
