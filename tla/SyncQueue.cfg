SPECIFICATION FairSpec
CONSTANTS
    Keys = {k1, k2}
    Adders = {a1, a2}
    Workers = {w1, w2}
    MaxJobs = 3
    NoKey = NoKey
INVARIANTS
  QueueIsConsistent
PROPERTIES
  ImplementsLatestJobQueue
  QueueMakesProgress
CHECK_DEADLOCK FALSE
