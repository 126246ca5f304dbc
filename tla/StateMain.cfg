\* The main manager: every interleaving of six operations on three threads,
\* with spurious wakeups.  Fairness of the running threads, and none for
\* spurious wakeups, lets every open() return.
SPECIFICATION FairSpec
CONSTANTS
  t1 = t1
  t2 = t2
  t3 = t3
  Threads <- MCThreads
  MainState = MainState
  NoState = NoState
  NoThread = NoThread
  NumRequests = 6
INVARIANTS
  Inv
  NoLostWakeup
PROPERTIES
  ImplementsLease
  OpenReturns
