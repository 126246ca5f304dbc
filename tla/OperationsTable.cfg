\* Every operation, every kind of result, buffers that fit and do not.
SPECIFICATION Spec
CONSTANTS
  r1 = r1
  r2 = r2
  s1 = s1
  s2 = s2
  Requests <- OneRequest
  States <- OneState
  Managers <- MainOnly
  NoState = NoState
  Capacity = 1
  Definitions <- FullScripts
  Sizes <- AllSizes
  Results <- AllResults
  MaxFill = 1
INVARIANTS
  FrameRight
  WrittenBack
  CopyFits
PROPERTY
  ImplementsApi
