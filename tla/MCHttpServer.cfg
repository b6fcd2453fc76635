\* Two workers; three connection objects, five accepts: up to three connections
\* of the first worker one after another, and two at a time.
CONSTANTS
  a = a
  b = b
  d = d
  Conn = {a, b, d}
  WorkerCount = 2
  MaxAccepts = 5
  MaxId = 2
  DeadlineTicks = 1

SPECIFICATION HttpSpec
INVARIANTS
  HttpTypeOK
  Balanced
  DeadlinesOwned
PROPERTIES
  RobbedByDeadlineless
  OneIdleIsClosed
\* The server may stop.
CHECK_DEADLOCK FALSE
