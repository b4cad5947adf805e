CONSTANTS
  k1 = k1
  k2 = k2
  th1 = th1
  th2 = th2
  Tasks <- TwoTasks
  Threads <- TwoThreads
  MaxDay = 2
  MaxEdits = 1
  MaxMarks = 3
  MaxFaults = 2
SPECIFICATION FairSpec
INVARIANTS
  TypeOK
  OneUnreadPerDay
PROPERTIES
  OverdueIsAnnounced
\* The worker may have ended, and the days are over.
CHECK_DEADLOCK FALSE
