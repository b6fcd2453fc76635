\* One name and two connection objects, so that a session can be followed by
\* the next one while its thread is being started.
CONSTANTS
  u1 = u1
  c1 = c1
  c2 = c2
  User = {u1}
  Conn = {c1, c2}
  BadName = BadName
  Desconocido = Desconocido
  NoConn = NoConn
  Absent = Absent
  InactiveAfter = 1
  EraseAfter = 1
  Request <- AnyRequest

SPECIFICATION FairSpec
PROPERTIES
  ImplementsRegistry
  IdleIsMarked
  OfflineForgotten
