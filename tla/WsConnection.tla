----------------------------- MODULE WsConnection -----------------------------
(***************************************************************************)
(* One Crow websocket connection (crow/websocket.h) with the handlers that *)
(* src/server.cpp installs: the handshake, the frame reader, the queue of  *)
(* outgoing frames, the closing handshake and the deletion of the object.  *)
(*                                                                         *)
(* A connection lives on the io thread of its io_context, so each          *)
(* completion handler, and each posted task, is one atomic step.  What     *)
(* interleaves is the order of those steps: a read may complete before or  *)
(* after a write, other threads post frames at any time, the peer sends    *)
(* any frame it likes, and the link may break at any time.                 *)
(*                                                                         *)
(* The object is one record, and the member functions are operators from   *)
(* records to records, so that a handler is the composition of the calls   *)
(* it makes, in its order.  Beside the members of the C++ object it holds  *)
(* the asio operations that are outstanding (reading, writing), for the    *)
(* object must not be deleted under them.                                  *)
(*                                                                         *)
(* Abstracted: payload bytes (a unit of payload is "data" or "control"),   *)
(* masking, the handshake hash and the subprotocol, status codes.  The     *)
(* check against max_payload_bytes_ is left out: the server leaves it at   *)
(* UINT64_MAX, which no length exceeds.                                    *)
(***************************************************************************)
EXTENDS Naturals, Sequences

CONSTANTS
  MaxPayload,   \* bound: units of payload in a frame
  MaxMessage,   \* bound: units of payload in message_
  MaxPosted     \* bound: frames posted or queued and not yet being written

ASSUME WsAssumption ==
  MaxPayload \in Nat /\ MaxMessage \in Nat /\ MaxPosted \in Nat \ {0}

DataOp == {"continuation", "text", "binary"}
Opcode == DataOp \cup {"close", "ping", "pong"}
Waiting == {"MiniHeader", "Len16", "Len64", "Mask", "Payload"}
Frame == {"hello", "close", "data"}  \* data: a message, a pong, an error text

VARIABLES
  conn,      \* the connection object
  posted,    \* tasks posted to its io_context: a frame, or "expired"
  link,      \* "up", or "down" when the peer is gone
  expected   \* history: units in the data frames since the last FIN

wsvars == <<conn, posted, link, expected>>

Backlog == Len(posted) + Len(conn.write_buffers)

(* A connection object as its constructor finds it.  is_binary_ has no     *)
(* initialiser.                                                            *)
Fresh == [alive |-> FALSE, deleting |-> FALSE, refused |-> FALSE,
          reading |-> FALSE, is_reading |-> FALSE, state |-> "MiniHeader",
          has_mask |-> FALSE, fin |-> FALSE, opcode |-> "continuation",
          remaining |-> 0, fragment |-> <<>>, message |-> <<>>,
          is_binary |-> "uninitialized",
          writing |-> FALSE, sending |-> <<>>, write_buffers |-> <<>>,
          first |-> "none", overlap |-> FALSE,
          close_connection |-> FALSE, has_sent_close |-> FALSE,
          has_recv_close |-> FALSE, is_close_handler_called |-> FALSE,
          closed |-> FALSE, userdata |-> "null"]

WsInit ==
  /\ conn = Fresh
  /\ posted = <<>>
  /\ link = "up"
  /\ expected = 0

-----------------------------------------------------------------------------
(* The handlers of the route, and the end of an object.                    *)

(* .onclose: WebSocketHandler::on_close, then the name is deleted. *)
OnClose(s) == [s EXCEPT !.closed = TRUE, !.userdata = "null"]

CheckDestroyWhileReading(s) ==  \* mutant: ignores an outstanding read
  LET t == IF s.is_close_handler_called THEN s ELSE OnClose(s)
  IN  [t EXCEPT !.deleting = (s.sending = <<>>)]

CheckDestroyNever(s) ==  \* mutant: waits for the queue of later frames too
  LET t == IF s.is_close_handler_called THEN s ELSE OnClose(s)
  IN  [t EXCEPT !.deleting = /\ s.sending = <<>> /\ ~s.is_reading
                             /\ s.write_buffers = <<>>]

(* check_destroy.  It does not record that it called the handler. *)
CheckDestroy(s) ==
  LET t == IF s.is_close_handler_called THEN s ELSE OnClose(s)
  IN  [t EXCEPT !.deleting = (s.sending = <<>> /\ ~s.is_reading)]

-----------------------------------------------------------------------------
(* Writing *)

DoWriteAtOnce(s) ==  \* mutant: does not wait for the write in flight
  [s EXCEPT !.sending = s.sending \o s.write_buffers, !.write_buffers = <<>>,
            !.writing = TRUE, !.overlap = s.overlap \/ s.writing,
            !.first = IF @ = "none" THEN Head(s.write_buffers) ELSE @]

DoWrite(s) ==
  IF s.sending # <<>> THEN s
  ELSE [s EXCEPT !.sending = s.write_buffers, !.write_buffers = <<>>,
                 !.writing = TRUE, !.overlap = s.overlap \/ s.writing,
                 !.first = IF @ = "none" THEN Head(s.write_buffers) ELSE @]

(* send_data_impl, and the end of close() *)
Enqueue(s, frame) == DoWrite([s EXCEPT !.write_buffers = Append(@, frame)])

(* close(): dispatch runs it at once, its callers are on the io thread. *)
CloseAlways(s) ==  \* mutant: calls the handler without a frame received
  LET t == [s EXCEPT !.has_sent_close = TRUE]
      u == IF t.is_close_handler_called THEN t
           ELSE OnClose([t EXCEPT !.is_close_handler_called = TRUE])
  IN  Enqueue(u, "close")

Close(s) ==
  LET t == [s EXCEPT !.has_sent_close = TRUE]
      u == IF t.has_recv_close /\ ~t.is_close_handler_called
             THEN OnClose([t EXCEPT !.is_close_handler_called = TRUE])
             ELSE t
  IN  Enqueue(u, "close")

(* The completion handler of async_write. *)
Written(s, ok) ==
  LET t == [s EXCEPT !.writing = FALSE, !.sending = <<>>]
      u == IF t.write_buffers # <<>> THEN DoWrite(t) ELSE t
  IN  IF ok /\ ~s.close_connection
        THEN [u EXCEPT !.close_connection = u.has_sent_close]
        ELSE CheckDestroy([t EXCEPT !.close_connection = TRUE])

-----------------------------------------------------------------------------
(* Reading *)

Await(s) == [s EXCEPT !.reading = TRUE, !.is_reading = TRUE]

(* do_read: after both close frames the connection ends, else the next     *)
(* piece of a frame is asked for; an unmasked frame has no key to read.    *)
DoRead(s) ==
  IF s.has_sent_close /\ s.has_recv_close
    THEN CheckDestroy([s EXCEPT !.close_connection = TRUE])
  ELSE IF s.state = "Mask" /\ ~s.has_mask
    THEN Await([s EXCEPT !.state = "Payload"])
  ELSE Await(s)

(* A read completed: the callback clears is_reading first. *)
Arrived(s) == [s EXCEPT !.reading = FALSE, !.is_reading = FALSE]

(* A read failed: the socket is closed. *)
Failed(s) == CheckDestroy([Arrived(s) EXCEPT !.close_connection = TRUE])

(* The binary flag the message handler is given; a message that starts     *)
(* with a continuation frame is given whatever the member holds.           *)
BinaryFlags(s) ==
  IF s.opcode # "continuation" THEN {s.opcode}
  ELSE IF s.is_binary = "uninitialized" THEN {"text", "binary"}
  ELSE {s.is_binary}

(* handle_fragment on a text, binary or continuation frame *)
HandleData(s) ==
  LET m == s.message \o s.fragment
  IN  [s EXCEPT !.message = IF s.fin THEN <<>> ELSE m,
                !.is_binary = IF s.opcode = "continuation" THEN @ ELSE s.opcode]

(* handle_fragment on a close frame *)
HandleClose(s) ==
  LET t == [s EXCEPT !.has_recv_close = TRUE]
      u == [t EXCEPT !.close_connection = TRUE]
      v == IF u.is_close_handler_called THEN u
           ELSE [OnClose(u) EXCEPT !.is_close_handler_called = TRUE]
  IN  IF t.has_sent_close THEN CheckDestroy(v) ELSE Close(t)

(* handle_fragment, and the read that follows when it returns true.  Of    *)
(* the data of a frame only the fragment is cleared.                       *)
HandleFragmentKeepsPing(s) ==  \* mutant: a ping leaves its payload behind
  LET next(t) == DoRead([t EXCEPT !.fragment = <<>>, !.state = "MiniHeader"])
      keep(t) == DoRead([t EXCEPT !.state = "MiniHeader"])
  IN  CASE s.opcode \in DataOp -> next(HandleData(s))
        [] s.opcode = "close" -> IF s.has_sent_close THEN HandleClose(s)
                                 ELSE next(HandleClose(s))
        [] OTHER -> keep(s)

HandleFragment(s) ==
  LET next(t) == DoRead([t EXCEPT !.fragment = <<>>, !.state = "MiniHeader"])
  IN  CASE s.opcode \in DataOp -> next(HandleData(s))
        [] s.opcode = "close" -> IF s.has_sent_close THEN HandleClose(s)
                                 ELSE next(HandleClose(s))
        [] OTHER -> next(s)

-----------------------------------------------------------------------------
(* Steps of the io thread.  `expected` follows the frames, not the buffer. *)

Running == conn.alive /\ ~conn.deleting

Live(waiting) == Running /\ conn.reading /\ conn.state = waiting

(* The constructor.  A request that does not upgrade to websocket, or that *)
(* has no name (.onaccept), ends with the socket closed and the object     *)
(* deleted before any handler of the server knew it.                       *)
Refuse(upgrade, named) ==
  /\ ~conn.alive
  /\ ~(upgrade /\ named)
  /\ UNCHANGED wsvars

(* start(): the 101 answer, the open handler, the first read.  The handler *)
(* either takes the connection or posts an error text and closes it.       *)
Start(joins) ==
  /\ ~conn.alive /\ link = "up" /\ Len(posted) < MaxPosted
  /\ LET s == [Fresh EXCEPT !.alive = TRUE, !.userdata = "set",
                            !.refused = ~joins]
         t == Enqueue(s, "hello")
     IN  conn' = DoRead(IF joins THEN t ELSE Close(t))
  /\ posted' = IF joins THEN posted ELSE Append(posted, "data")
  /\ UNCHANGED <<link, expected>>

(* Both bytes of a frame header have arrived.  Here and below a read may   *)
(* also complete when the peer is gone, with bytes that came before, or    *)
(* after a write has failed: only ReadFails ends the reading.              *)
ReadMiniHeader(fin, opcode, mask, size, length) ==
  /\ Live("MiniHeader")
  /\ opcode \in DataOp => expected + size <= MaxMessage
  /\ length # "Mask" => size > 0
  /\ conn' = DoRead([Arrived(conn) EXCEPT
       !.has_mask = mask, !.fin = fin, !.opcode = opcode,
       !.remaining = IF length = "Mask" THEN size ELSE 0, !.state = length])
  /\ UNCHANGED <<posted, link, expected>>

(* async_read_some got the first byte alone: the second, where mask and    *)
(* length are, counts as zero, and the frame as an empty unmasked one.     *)
ReadHalfHeader(fin, opcode) ==
  /\ Live("MiniHeader")
  /\ conn' = DoRead([Arrived(conn) EXCEPT
       !.has_mask = FALSE, !.fin = fin, !.opcode = opcode,
       !.remaining = 0, !.state = "Mask"])
  /\ UNCHANGED <<posted, link, expected>>

ReadLength(size) ==
  /\ Live("Len16") \/ Live("Len64")
  /\ conn.opcode \in DataOp => expected + size <= MaxMessage
  /\ conn' = DoRead([Arrived(conn) EXCEPT !.remaining = size, !.state = "Mask"])
  /\ UNCHANGED <<posted, link, expected>>

ReadMask ==
  /\ Live("Mask")
  /\ conn' = DoRead([Arrived(conn) EXCEPT !.state = "Payload"])
  /\ UNCHANGED <<posted, link, expected>>

(* n units of payload have arrived.  The message handler and send_pong may *)
(* post an answer.                                                         *)
ReadPayload(n) ==
  /\ Live("Payload")
  /\ n <= conn.remaining /\ (n = 0 => conn.remaining = 0)
  /\ LET kind == IF conn.opcode \in DataOp THEN "data" ELSE "control"
         s == [Arrived(conn) EXCEPT !.remaining = @ - n,
                 !.fragment = @ \o [i \in 1 .. n |-> kind]]
         delivers == s.opcode \in DataOp /\ s.fin
     IN  IF s.remaining > 0
           THEN /\ conn' = DoRead(s)
                /\ expected' = expected + (IF s.opcode \in DataOp THEN n ELSE 0)
                /\ UNCHANGED posted
           ELSE /\ conn' = HandleFragment(s)
                /\ expected' = IF delivers THEN 0
                               ELSE expected + (IF s.opcode \in DataOp THEN n ELSE 0)
                /\ \E answer \in {<<>>}
                      \cup (IF s.opcode = "ping" THEN {<<"data">>} ELSE {})
                      \cup (IF delivers /\ "binary" \in BinaryFlags(s)
                              THEN {<<"data">>} ELSE {}) :
                     /\ s.opcode = "ping" => answer = <<"data">>
                     /\ Backlog + Len(answer) <= MaxPosted
                     /\ posted' = posted \o answer
  /\ UNCHANGED link

ReadFails ==
  /\ Running /\ conn.reading /\ link = "down"
  /\ conn' = Failed(conn)
  /\ UNCHANGED <<posted, link, expected>>

(* A write that the kernel took completes well even when the link breaks.  *)
WriteCompletes(ok) ==
  /\ Running /\ conn.writing
  /\ ok \/ link = "down" \/ (conn.has_recv_close /\ conn.has_sent_close)
  /\ conn' = Written(conn, ok)
  /\ UNCHANGED <<posted, link, expected>>

(* WeakWrappedMessage: the task runs if the object still exists. *)
RunPostedUnguarded ==  \* mutant: no anchor
  /\ posted # <<>> /\ ~conn.deleting
  /\ posted' = Tail(posted)
  /\ conn' = Enqueue(conn, Head(posted))
  /\ UNCHANGED <<link, expected>>

RunPosted ==
  /\ posted # <<>> /\ ~conn.deleting
  /\ posted' = Tail(posted)
  /\ conn' = IF Head(posted) = "expired" THEN conn
             ELSE Enqueue(conn, Head(posted))
  /\ UNCHANGED <<link, expected>>

(* `delete this`: the tasks that hold a weak pointer expire. *)
Delete ==
  /\ conn.alive /\ conn.deleting
  /\ conn' = [Fresh EXCEPT !.reading = conn.reading, !.writing = conn.writing,
                           !.userdata = conn.userdata]
  /\ posted' = [i \in DOMAIN posted |-> "expired"]
  /\ expected' = 0
  /\ UNCHANGED link

-----------------------------------------------------------------------------
(* The rest of the server, and the peer. *)

(* Another thread sends to a registered connection (send_data). *)
SendBinary ==
  /\ Running /\ ~conn.closed /\ ~conn.refused
  /\ Backlog < MaxPosted
  /\ posted' = Append(posted, "data")
  /\ UNCHANGED <<conn, link, expected>>

LinkBreaks ==
  /\ conn.alive /\ link = "up"
  /\ link' = "down"
  /\ UNCHANGED <<conn, posted, expected>>

(* The address is used again, by a connection over another link. *)
NextPeer ==
  /\ ~conn.alive /\ link = "down"
  /\ link' = "up"
  /\ UNCHANGED <<conn, posted, expected>>

WsNext ==
  \/ \E upgrade, named \in BOOLEAN : Refuse(upgrade, named)
  \/ \E joins \in BOOLEAN : Start(joins)
  \/ \E fin, mask \in BOOLEAN, opcode \in Opcode, size \in 0 .. MaxPayload,
        length \in {"Mask", "Len16", "Len64"} :
          ReadMiniHeader(fin, opcode, mask, size, length)
  \/ \E fin \in BOOLEAN, opcode \in Opcode : ReadHalfHeader(fin, opcode)
  \/ \E size \in 0 .. MaxPayload : ReadLength(size)
  \/ ReadMask
  \/ \E n \in 0 .. MaxPayload : ReadPayload(n)
  \/ ReadFails
  \/ \E ok \in BOOLEAN : WriteCompletes(ok)
  \/ RunPosted
  \/ Delete
  \/ SendBinary
  \/ LinkBreaks
  \/ NextPeer

(* The io thread runs what is ready.  A read fails in the end when the     *)
(* peer is gone and what it sent is used up; this rests on the operating   *)
(* system telling so, for crow sends no ping of its own.  A write          *)
(* completes in the end: the peer drains it, or the system gives up.       *)
(* Nothing makes a peer that is there send, or go away.                    *)
WsFairness ==
  /\ WF_wsvars(ReadFails)
  /\ WF_wsvars(\E ok \in BOOLEAN : WriteCompletes(ok))
  /\ WF_wsvars(RunPosted)
  /\ WF_wsvars(Delete)

WsSpec == WsInit /\ [][WsNext]_wsvars /\ WsFairness
=============================================================================
