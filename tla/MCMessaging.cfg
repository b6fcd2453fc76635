\* Two users, two messages: every pair of sender, recipient and order.
CONSTANTS
  u1 = u1
  u2 = u2
  c1 = c1
  c2 = c2
  User = {u1, u2}
  Conn = {c1, c2}
  BadName = BadName
  Desconocido = Desconocido
  NoConn = NoConn
  Absent = Absent
  Everyone = Everyone
  Error4 = Error4
  Torn = Torn
  InactiveAfter = 1
  EraseAfter = 1
  HistoryCap = 2
  MaxMessages = 2
  Request <- Chatting

SPECIFICATION MsgSpec
SYMMETRY Symmetry
INVARIANTS
  MessagingTypeOK
  SameOrderForAll
  SenderOrderKept
  PrivateToParties
  DeliveredIsStored
