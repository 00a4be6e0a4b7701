SPECIFICATION Spec
CONSTANTS
  Procs <- MCProcs
  Steps = {8, 24}
  ArgCounts = {3, 5, 6}
  Stores <- MCStores
  Gaps = {0, 2}
  MaxLines = 3
INVARIANT EveryRawFrameIsJudged
CHECK_DEADLOCK FALSE
