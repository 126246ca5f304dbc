\* Both managers, three calls of fuse.main that may fail.
SPECIFICATION FairSpec
CONSTANTS
  t1 = t1
  t2 = t2
  t3 = t3
  Threads <- ThreeThreads
  Main = t1
  NoThread = NoThread
  Slots <- MCSlots
  NumCalls = 3
  NumRequests = 4
INVARIANTS
  UseLive
  Ownership
PROPERTY
  MountDeleted
