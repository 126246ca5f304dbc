\* The script's read returns a string longer than the kernel asked for.
SPECIFICATION Spec
CONSTANTS
  r1 = r1
  r2 = r2
  s1 = s1
  s2 = s2
  Requests <- OneRequest
  States <- OneState
  Managers <- MainOnly
  NoState = NoState
  Capacity = 1
  Definitions <- ReadScript
  Sizes <- OneSize
  Results <- LongString
  MaxFill = 1
INVARIANT
  ReadWithinRequest
