\* Safety of the pool when threads outnumber max_states: three threads, two
\* slots, one idle place, two mounts.  It starts with more states than
\* max_states, lends all three at first, and shrinks to its limits.
SPECIFICATION Spec
CONSTANTS
  t1 = t1
  t2 = t2
  t3 = t3
  s1 = s1
  s2 = s2
  s3 = s3
  s4 = s4
  s5 = s5
  Threads <- ThreeThreads
  Main = t1
  States <- FiveStates
  NoState = NoState
  NoThread = NoThread
  StartStates = 3
  MaxStates = 2
  MaxIdleStates = 1
  NumMounts = 2
  NumRequests = 8
SYMMETRY PoolSymmetry
INVARIANTS
  Control
  Exclusive
  NoLeak
  ActiveCount
  PoolBound
PROPERTY
  ImplementsLease
