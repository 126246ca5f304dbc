\* Four bits for lua_Integer and size_t; every function of the library.
SPECIFICATION BindSpec
CONSTANTS
  Huge = 7
  None = None
  Absent = Absent
  Types <- MCTypes
  Default = 1
  Inputs <- MCInputs
  Threads = 3
  Rounds = 2
  Lengths = {0, 20, 60, 100}
  Errors = {0, 34}
INVARIANTS
  TakesSubstring
  CallerSees
  LetThrough
  NothingLost
  FrameOutlivesThreads
  Described
PROPERTIES
  MessageFound
