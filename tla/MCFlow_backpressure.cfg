CONSTANTS
  Low = 1
  High = 1
  Hard = 3
  Window = 1
  Slack <- LateAtShell
  MaxReplaced = 1
SPECIFICATION FairSpec
CHECK_DEADLOCK FALSE
INVARIANTS BacklogBounded
PROPERTIES NoStall LeavingReleases
