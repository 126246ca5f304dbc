CONSTANTS
  Long = 16
  Short = 4
  Ticks = 16
  Doubles <- MCDoubles
  Exact = 8
  Beyond <- MCBeyond
  Second = 5
  Kernel <- MCKernel
  MaxEdits = 2
  ScriptTicks <- MCScriptTicks
SPECIFICATION Spec
INVARIANTS Untouched NothingWraps NothingStale TimeReturned TimeSplit
PROPERTY HandleKept
