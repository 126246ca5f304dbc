\* Two requests that share one universe, or run in two that may define
\* different functions: a kept fill handle and the stack of one
\* request meet the other.
SPECIFICATION FairSpec
CONSTANTS
  r1 = r1
  r2 = r2
  s1 = s1
  s2 = s2
  Requests <- TwoRequests
  States <- TwoStates
  Managers <- MainAndPool
  NoState = NoState
  Capacity = 2
  Definitions <- SharedScripts
  Sizes <- OneSize
  Results <- OneResult
  MaxFill = 1
INVARIANT
  StackRestored
PROPERTIES
  FillInScope
  EveryRequestAnswered
