\* Two different lines, up to four calls of log().
CONSTANTS
  l1 = l1
  l2 = l2
  Line = {l1, l2}
  MaxLines = 4

SPECIFICATION LogFairSpec
CHECK_DEADLOCK FALSE
INVARIANTS
  NothingLost
  NoSleepOnWork
PROPERTY QueueDrained
