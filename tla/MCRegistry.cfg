\* Two names and the one the server gives to those without an entry, and two
\* connection objects, so that a name can be contended, refused, taken over while
\* the object of its last session still exists, and be acted for by a stranger.
\* A byte has three values, so that three entries are too many to count.
CONSTANTS
  u1 = u1
  u2 = u2
  c1 = c1
  c2 = c2
  User = {u1, u2, Desconocido}
  Conn = {c1, c2}
  BadName = BadName
  LongName = LongName
  Desconocido = Desconocido
  NoConn = NoConn
  Absent = Absent
  InactiveAfter = 1
  EraseAfter = 1
  Byte = 3
  Char = {u1, u2, Desconocido}
  Text <- MCText

SPECIFICATION RegSpec
SYMMETRY Symmetry
INVARIANTS
  TypeOK
  OwnershipAgrees
  OfflineIsDisconnected
  NoFalseRefusal
  FramesReadBack
PROPERTY ReturnsAsLeft
