\* A name like any other and the one the server gives to those without an
\* entry, which a user may bear too; two connection objects.
CONSTANTS
  u1 = u1
  c1 = c1
  c2 = c2
  User = {u1, Desconocido}
  Conn = {c1, c2}
  BadName = BadName
  Desconocido = Desconocido
  NoConn = NoConn
  Absent = Absent
  InactiveAfter = 1
  EraseAfter = 1
  Request <- Few

SPECIFICATION Spec
SYMMETRY Symmetry
VIEW Settled
INVARIANTS
  PresenceTypeOK
  PendingUpdateIsOwn
  ReactivationStillNeeded
  ViewsSettle
