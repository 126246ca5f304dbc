\* The script defines lock and flock; the kernel asks for flock.
SPECIFICATION Spec
CONSTANTS
  r1 = r1
  r2 = r2
  s1 = s1
  s2 = s2
  Requests <- OneRequest
  States <- OneState
  Managers <- MainOnly
  NoState = NoState
  Capacity = 1
  Definitions <- FlockScript
  Sizes <- OneSize
  Results <- FewResults
  MaxFill = 1
INVARIANT
  CalleeIsOperation
