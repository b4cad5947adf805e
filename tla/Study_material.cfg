CONSTANTS
  c1 = c1
  c2 = c2
  d1 = d1
  d2 = d2
  d3 = d3
  Courses <- TwoCourses
  Docs <- ThreeDocs
  CourseOf <- InCourses
  Texts <- SomeTexts
  Chapter <- ChapterOne
  Scores <- Bits
  TopK = 3
  RankConstant = 60
  Asked <- FirstOnly
  MaxEdits = 3
  Size = 4
  Overlap = 1
  MinWords = 2
  NoCourse = NoCourse
  Pools <- SmallPools
  Counts <- SomeCounts
  DefaultCount = 1
  MaxCount = 2
  Numerals <- Digits
  Letters <- OneLetter
SPECIFICATION Spec
INVARIANTS
  FullyIndexed
  RankingRespected
  RemovedNotCited
  MadeOfMaterial
  BestSelected
  KeyAsMarked
\* Bounded ingestions and requests.
CHECK_DEADLOCK FALSE
