\* A fragmented message with frames of up to two units in between, and two
\* frames of other threads, are enough to meet every order of the callbacks.
CONSTANTS
  MaxPayload = 2
  MaxMessage = 2
  MaxPosted = 2
  theConn = theConn

SPECIFICATION WsSpec
INVARIANTS
  WsTypeOK
  NothingLeftBehind
  WritesInOrder
  MessageIntact
PROPERTIES
  ImplementsLife
  GoneIsDeleted
