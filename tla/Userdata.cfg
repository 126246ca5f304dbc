\* Two callbacks, keys, a coroutine and a readdir request; six entries.
SPECIFICATION FairSpec
CHECK_DEADLOCK FALSE
CONSTANTS
  h1 = h1
  c1 = c1
  c2 = c2
  co1 = co1
  f1 = f1
  Handles <- MCHandles
  Callbacks <- MCCallbacks
  Coroutines <- MCCoroutines
  Fills <- MCFills
  NumSlots = 6
  MaxMade = 4
  MaxDepth = 2
INVARIANTS
  Held
  RunSafe
  SlotsOwned
  ResetLive
PROPERTY
  Released
