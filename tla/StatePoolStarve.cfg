\* Two threads and one slot: close() does not signal, so a thread that waits
\* for the slot is never woken.
SPECIFICATION FairSpec
CONSTANTS
  t1 = t1
  t2 = t2
  t3 = t3
  s1 = s1
  s2 = s2
  s3 = s3
  s4 = s4
  s5 = s5
  Threads <- TwoThreads
  Main = t1
  States <- FourStates
  NoState = NoState
  NoThread = NoThread
  StartStates = 1
  MaxStates = 1
  MaxIdleStates = 1
  NumMounts = 1
  NumRequests = 2
PROPERTY
  RequestsProcessed
