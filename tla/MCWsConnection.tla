---------------------------- MODULE MCWsConnection ----------------------------
(* Model checking WsConnection: its properties, and the refinement that     *)
(* maps one connection object to ConnectionLife.                            *)
EXTENDS WsConnection

CONSTANT theConn   \* the address of the object

LifeOf(s) ==
  IF ~s.alive THEN "free"
  ELSE IF s.closed THEN "closed"
  ELSE IF s.refused THEN "rejected" ELSE "open"

Contract == INSTANCE ConnectionLife
  WITH Conn <- {theConn}, life <- [c \in {theConn} |-> LifeOf(conn)]

-----------------------------------------------------------------------------
(* The members of the object hold what their C++ types allow.               *)
WsTypeOK ==
  /\ conn.state \in Waiting /\ conn.opcode \in Opcode
  /\ conn.remaining \in 0 .. MaxPayload
  /\ conn.fragment \in Seq({"data", "control"})
  /\ conn.message \in Seq({"data", "control"})
  /\ conn.sending \in Seq(Frame) /\ conn.write_buffers \in Seq(Frame)
  /\ conn.is_binary \in {"text", "binary", "uninitialized"}
  /\ posted \in Seq(Frame \cup {"expired"})
  /\ link \in {"up", "down"} /\ expected \in 0 .. MaxMessage

(* check_destroy deletes the object only when no callback can come to use   *)
(* it again, and the close handler has then freed the name: whatever the    *)
(* order in which read, write, posted tasks and the two close frames end,   *)
(* a deleted object has no operation outstanding and leaks nothing.         *)
NothingLeftBehind ==
  ~conn.alive \/ conn.deleting =>
    ~conn.reading /\ ~conn.writing /\ conn.userdata = "null"

(* asio allows one async_write at a time.  do_write keeps to that although  *)
(* frames are queued from handlers, posted tasks and the write callback;    *)
(* the 101 answer goes first, even when the open handler closes at once;    *)
(* and no queued frame waits without a write in flight to take it along.    *)
WritesInOrder ==
  /\ ~conn.overlap
  /\ conn.first \in {"none", "hello"}
  /\ conn.writing = (conn.sending # <<>>)
  /\ conn.write_buffers # <<>> /\ ~conn.close_connection
       => conn.sending # <<>>

(* What the message handler will be given is the data the peer sent since   *)
(* the last finished message: pings between the fragments of a message, and *)
(* payloads that arrive in pieces, add nothing to it and take nothing away. *)
MessageIntact ==
  /\ \A i \in DOMAIN conn.message : conn.message[i] = "data"
  /\ conn.alive /\ ~conn.deleting =>
       expected = Len(conn.message)
                    + (IF conn.opcode \in DataOp THEN Len(conn.fragment) ELSE 0)

(* The code of Crow keeps the contract the registry relies on: a refused or *)
(* opened object is closed before it is deleted, and the open handler,      *)
(* which calls close() while it holds connections_mutex, never runs the     *)
(* close handler inside (which would lock that mutex again).                *)
ImplementsLife == Contract!LifeSpec

(* A connection whose link broke, or which has sent and received a close    *)
(* frame, is deleted in the end, and its user is offline by then.           *)
GoneIsDeleted ==
  conn.alive /\ (link = "down" \/ (conn.has_sent_close /\ conn.has_recv_close))
    ~> ~conn.alive
=============================================================================
