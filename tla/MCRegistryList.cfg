\* The same registry; the list of opcode 1 against the documentation.
CONSTANTS
  u1 = u1
  u2 = u2
  c1 = c1
  c2 = c2
  User = {u1, u2, Desconocido}
  Conn = {c1, c2}
  BadName = BadName
  LongName = LongName
  Desconocido = Desconocido
  NoConn = NoConn
  Absent = Absent
  InactiveAfter = 1
  EraseAfter = 1
  Byte = 3
  Char = {u1, u2, Desconocido}
  Text <- MCText

SPECIFICATION RegSpec
SYMMETRY Symmetry
INVARIANT OnlyConnectedListed
