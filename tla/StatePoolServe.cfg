\* Two threads, a slot for each and one for the setup that may throw: no
\* thread waits and every mount ends.
SPECIFICATION FairSpec
CONSTANTS
  t1 = t1
  t2 = t2
  t3 = t3
  s1 = s1
  s2 = s2
  s3 = s3
  s4 = s4
  s5 = s5
  Threads <- TwoThreads
  Main = t1
  States <- FourStates
  NoState = NoState
  NoThread = NoThread
  StartStates = 0
  MaxStates = 3
  MaxIdleStates = 1
  NumMounts = 2
  NumRequests = 4
INVARIANT
  NobodyWaits
PROPERTY
  MountEnds
