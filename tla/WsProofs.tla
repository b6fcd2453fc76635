------------------------------ MODULE WsProofs ------------------------------
(***************************************************************************)
(* Proofs about WsConnection, for frames, messages and backlogs of any     *)
(* length: the object is deleted when nothing can use it any more, it has  *)
(* one write in flight, control frames leave a fragmented message alone,   *)
(* and its life is what ConnectionLife promises to the registry.           *)
(*                                                                         *)
(* A completion handler is a composition of member functions.  Each of     *)
(* them takes a usable object to a sound one and keeps what it has no      *)
(* business with (Kept, Stays); there is one lemma for each, and the       *)
(* lemmas of the handlers put them together.                               *)
(***************************************************************************)
EXTENDS MCWsConnection, TLAPS

Piece == {"data", "control"}

(* What a connection object can hold. *)
Object ==
  [alive : BOOLEAN, deleting : BOOLEAN, refused : BOOLEAN,
   reading : BOOLEAN, is_reading : BOOLEAN, state : Waiting,
   has_mask : BOOLEAN, fin : BOOLEAN, opcode : Opcode,
   remaining : 0 .. MaxPayload, fragment : Seq(Piece), message : Seq(Piece),
   is_binary : {"text", "binary", "uninitialized"},
   writing : BOOLEAN, sending : Seq(Frame), write_buffers : Seq(Frame),
   first : {"none", "hello"}, overlap : BOOLEAN,
   close_connection : BOOLEAN, has_sent_close : BOOLEAN,
   has_recv_close : BOOLEAN, is_close_handler_called : BOOLEAN,
   closed : BOOLEAN, userdata : {"null", "set"}]

(* What is true of it at all times, also between two member functions.  A  *)
(* close handler that was recorded has run; and nothing is outstanding on  *)
(* an object that is being deleted.                                        *)
Steady(s) ==
  /\ s.is_reading = s.reading
  /\ s.writing = (s.sending # <<>>)
  /\ ~s.overlap
  /\ s.alive => s.first = "hello"
  /\ s.closed => s.userdata = "null"
  /\ s.is_close_handler_called => s.closed
  /\ s.deleting => s.closed /\ ~s.reading /\ s.sending = <<>>

(* No queued frame waits without a write that takes it along. *)
NoneWaits(s) == s.write_buffers # <<>> /\ ~s.close_connection => s.sending # <<>>

Sound(s) == s \in Object /\ Steady(s) /\ NoneWaits(s)

(* Member functions are called on such an object. *)
Usable(s) == Sound(s) /\ s.alive /\ ~s.deleting

(* A member function that does not handle a frame has led from s to t. *)
Kept(s, t) ==
  /\ t.alive = s.alive /\ t.refused = s.refused
  /\ s.closed => t.closed
  /\ t.message = s.message /\ t.opcode = s.opcode /\ t.remaining = s.remaining
  /\ t.fragment = s.fragment

-----------------------------------------------------------------------------
(* The member functions.                                                   *)

LEMMA CheckDestroyKeeps ==
  ASSUME NEW s, Usable(s)
  PROVE  /\ Sound(CheckDestroy(s)) /\ Kept(s, CheckDestroy(s))
         /\ CheckDestroy(s).state = s.state
  BY DEF OnClose, CheckDestroy, Object, Steady, Sound, NoneWaits, Kept, Usable

(* A write takes all frames along; the first of all is the 101 answer. *)
LEMMA DoWriteKeeps ==
  ASSUME NEW s \in Object, Steady(s), s.alive, ~s.deleting, s.write_buffers # <<>>
  PROVE  /\ Usable(DoWrite(s)) /\ Kept(s, DoWrite(s)) /\ DoWrite(s).sending # <<>>
         /\ DoWrite(s).has_sent_close = s.has_sent_close
         /\ DoWrite(s).has_recv_close = s.has_recv_close
         /\ DoWrite(s).state = s.state
         /\ DoWrite(s).reading = s.reading
         /\ DoWrite(s).closed = s.closed
<1>1. CASE s.sending # <<>>
  <2>1. DoWrite(s) = s
    BY <1>1 DEF DoWrite
  <2> QED
    BY <1>1, <2>1 DEF NoneWaits, Sound, Kept, Usable
<1>2. CASE s.sending = <<>>
  <2>1. DoWrite(s) \in Object
    BY <1>2 DEF DoWrite, Object, Steady
  <2>2. Steady(DoWrite(s)) /\ NoneWaits(DoWrite(s))
    BY <1>2 DEF DoWrite, Object, Steady, NoneWaits
  <2>3. Kept(s, DoWrite(s))
    BY <1>2 DEF DoWrite, Object, Kept
  <2> QED
    BY <1>2, <2>1, <2>2, <2>3 DEF DoWrite, Object, Sound, Usable
<1> QED
  BY <1>1, <1>2

LEMMA EnqueueKeeps ==
  ASSUME NEW s, Usable(s), NEW frame \in Frame
  PROVE  /\ Usable(Enqueue(s, frame)) /\ Kept(s, Enqueue(s, frame))
         /\ Enqueue(s, frame).has_sent_close = s.has_sent_close
         /\ Enqueue(s, frame).has_recv_close = s.has_recv_close
         /\ Enqueue(s, frame).state = s.state
         /\ Enqueue(s, frame).reading = s.reading
         /\ Enqueue(s, frame).closed = s.closed
<1> DEFINE t == [s EXCEPT !.write_buffers = Append(@, frame)]
<1>1. t \in Object /\ Steady(t) /\ t.alive /\ ~t.deleting
  <2>1. s \in Object /\ Append(s.write_buffers, frame) \in Seq(Frame)
    BY DEF Object, Sound, Usable
  <2>2. t \in Object
    BY <2>1 DEF Object
  <2>3. Steady(t) /\ t.alive /\ ~t.deleting
    BY DEF Object, Steady, Sound, Usable
  <2> QED
    BY <2>2, <2>3
<1>2. t.write_buffers # <<>>
  <2>1. t.write_buffers = Append(s.write_buffers, frame) /\ s.write_buffers \in Seq(Frame)
    BY DEF Object, Sound, Usable
  <2> QED
    BY <2>1
<1>3. /\ Kept(s, t) /\ t.has_sent_close = s.has_sent_close /\ t.has_recv_close = s.has_recv_close
      /\ t.state = s.state /\ t.reading = s.reading /\ t.closed = s.closed
  BY DEF Object, Sound, Usable, Kept
<1> HIDE DEF t
<1>4. Enqueue(s, frame) = DoWrite(t)
  BY DEF Enqueue, t
<1> QED
  BY <1>1, <1>2, <1>3, <1>4, DoWriteKeeps DEF Kept

(* close() frees the name only when a close frame was received. *)
LEMMA CloseKeeps ==
  ASSUME NEW s, Usable(s)
  PROVE  /\ Usable(Close(s)) /\ Kept(s, Close(s))
         /\ Close(s).has_recv_close = s.has_recv_close
         /\ Close(s).state = s.state
         /\ Close(s).reading = s.reading
         /\ s.has_recv_close \/ Close(s).closed = s.closed
<1> DEFINE t == [s EXCEPT !.has_sent_close = TRUE]
           u == IF t.has_recv_close /\ ~t.is_close_handler_called
                  THEN OnClose([t EXCEPT !.is_close_handler_called = TRUE])
                  ELSE t
<1>1. /\ Usable(u) /\ Kept(s, u) /\ u.has_recv_close = s.has_recv_close
      /\ u.state = s.state /\ u.reading = s.reading
      /\ s.has_recv_close \/ u.closed = s.closed
  <2>1. /\ Usable(t) /\ Kept(s, t) /\ t.has_recv_close = s.has_recv_close
        /\ t.state = s.state /\ t.reading = s.reading /\ t.closed = s.closed
    BY DEF Object, Steady, NoneWaits, Sound, Usable, Kept
  <2> HIDE DEF t
  <2>2. CASE t.has_recv_close /\ ~t.is_close_handler_called
    <3> DEFINE v == OnClose([t EXCEPT !.is_close_handler_called = TRUE])
    <3>1. v \in Object
      BY <2>1 DEF Object, Sound, Usable, OnClose
    <3>2. Steady(v) /\ NoneWaits(v)
      BY <2>1 DEF Object, Steady, NoneWaits, Sound, Usable, OnClose
    <3>3. /\ v.alive /\ ~v.deleting /\ Kept(t, v)
          /\ v.has_recv_close = t.has_recv_close /\ v.state = t.state
          /\ v.reading = t.reading
      BY <2>1 DEF Object, Sound, Usable, Kept, OnClose
    <3>4. u = v
      BY <2>2
    <3> HIDE DEF v, u
    <3>5. Usable(u) /\ Kept(t, u)
      BY <3>1, <3>2, <3>3, <3>4 DEF Usable, Sound
    <3> QED
      BY <2>1, <2>2, <3>3, <3>4, <3>5 DEF Kept
  <2> QED
    BY <2>1, <2>2
<1>2. Close(s) = Enqueue(u, "close")
  BY DEF Close
<1> HIDE DEF u
<1>3. "close" \in Frame
  BY DEF Frame
<1> QED
  BY <1>1, <1>2, <1>3, EnqueueKeeps DEF Kept

LEMMA AwaitKeeps ==
  ASSUME NEW s, Usable(s)
  PROVE  /\ Sound(Await(s)) /\ Kept(s, Await(s))
         /\ Await(s).state = s.state /\ Await(s).closed = s.closed
  BY DEF Await, Object, Steady, NoneWaits, Sound, Usable, Kept

(* The object may end here, but only when a close frame was received. *)
LEMMA DoReadKeeps ==
  ASSUME NEW s, Usable(s)
  PROVE  /\ Sound(DoRead(s)) /\ Kept(s, DoRead(s))
         /\ \/ DoRead(s).state = s.state
            \/ s.state = "Mask" /\ DoRead(s).state = "Payload"
         /\ s.has_recv_close \/ DoRead(s).closed = s.closed
<1>1. CASE s.has_sent_close /\ s.has_recv_close
  <2> DEFINE t == [s EXCEPT !.close_connection = TRUE]
  <2>1. Usable(t) /\ Kept(s, t) /\ t.state = s.state
    BY DEF Object, Steady, NoneWaits, Sound, Usable, Kept
  <2>2. DoRead(s) = CheckDestroy(t)
    BY <1>1 DEF DoRead
  <2> HIDE DEF t
  <2>3. Sound(CheckDestroy(t)) /\ Kept(t, CheckDestroy(t)) /\ CheckDestroy(t).state = t.state
    BY <2>1, CheckDestroyKeeps
  <2>4. Kept(s, CheckDestroy(t))
    BY <2>1, <2>3 DEF Kept
  <2> QED
    BY <1>1, <2>1, <2>2, <2>3, <2>4
<1>2. CASE ~(s.has_sent_close /\ s.has_recv_close)
  <2>1. CASE s.state = "Mask" /\ ~s.has_mask
    <3> DEFINE t == [s EXCEPT !.state = "Payload"]
    <3>1. DoRead(s) = Await(t)
      BY <1>2, <2>1 DEF DoRead
    <3>2. Usable(t) /\ Kept(s, t) /\ t.state = "Payload" /\ t.closed = s.closed
      BY DEF Object, Steady, NoneWaits, Sound, Usable, Kept, Waiting
    <3> HIDE DEF t
    <3>3. Sound(Await(t)) /\ Kept(t, Await(t)) /\ Await(t).state = t.state /\ Await(t).closed = t.closed
      BY <3>2, AwaitKeeps
    <3>4. Kept(s, Await(t))
      BY <3>2, <3>3 DEF Kept
    <3> QED
      BY <2>1, <3>1, <3>2, <3>3, <3>4
  <2>2. CASE ~(s.state = "Mask" /\ ~s.has_mask)
    <3>1. DoRead(s) = Await(s)
      BY <1>2, <2>2 DEF DoRead
    <3> QED
      BY <3>1, AwaitKeeps
  <2> QED
    BY <2>1, <2>2
<1> QED
  BY <1>1, <1>2

(* A read failed. *)
LEMMA FailedKeeps ==
  ASSUME NEW s, Usable(s)
  PROVE  Sound(Failed(s)) /\ Kept(s, Failed(s)) /\ Failed(s).state = s.state
<1> DEFINE t == [Arrived(s) EXCEPT !.close_connection = TRUE]
<1>1. Usable(t) /\ Kept(s, t) /\ t.state = s.state
  BY DEF Arrived, Object, Steady, NoneWaits, Sound, Usable, Kept
<1>2. Failed(s) = CheckDestroy(t)
  BY DEF Failed
<1> HIDE DEF t
<1> QED
  BY <1>1, <1>2, CheckDestroyKeeps DEF Kept

(* The write callback starts the next write or ends the object. *)
LEMMA WrittenKeeps ==
  ASSUME NEW s, Usable(s), NEW ok \in BOOLEAN
  PROVE  Sound(Written(s, ok)) /\ Kept(s, Written(s, ok)) /\ Written(s, ok).state = s.state
<1> DEFINE t == [s EXCEPT !.writing = FALSE, !.sending = <<>>]
           u == IF t.write_buffers # <<>> THEN DoWrite(t) ELSE t
<1>1. t \in Object /\ Steady(t) /\ t.alive /\ ~t.deleting /\ Kept(s, t) /\ t.state = s.state
  <2>1. t \in Object
    <3>1. s \in Object /\ <<>> \in Seq(Frame)
      BY DEF Sound, Usable
    <3> QED
      BY <3>1 DEF Object
  <2>2. Steady(t) /\ t.alive /\ ~t.deleting
    BY DEF Object, Steady, Sound, Usable
  <2>3. Kept(s, t) /\ t.state = s.state
    BY DEF Object, Sound, Usable, Kept
  <2> QED
    BY <2>1, <2>2, <2>3
<1>2. CASE ok /\ ~s.close_connection
  <2> DEFINE v == [u EXCEPT !.close_connection = u.has_sent_close]
  <2>1. Usable(u) /\ Kept(s, u) /\ u.state = s.state /\ (u.write_buffers # <<>> => u.sending # <<>>)
    <3>1. CASE t.write_buffers # <<>>
      <4> HIDE DEF t
      <4> QED
        BY <1>1, <3>1, DoWriteKeeps DEF Kept
    <3>2. CASE t.write_buffers = <<>>
      <4> HIDE DEF t
      <4> QED
        BY <1>1, <3>2 DEF Usable, Sound, NoneWaits
    <3> QED
      BY <3>1, <3>2
  <2>2. Written(s, ok) = v
    BY <1>2 DEF Written
  <2> HIDE DEF t, u
  <2>3. Usable(v) /\ Kept(u, v) /\ v.state = u.state
    BY <2>1 DEF Object, Steady, NoneWaits, Sound, Usable, Kept
  <2> QED
    BY <2>1, <2>2, <2>3 DEF Kept, Usable
<1>3. CASE ~(ok /\ ~s.close_connection)
  <2> DEFINE v == [t EXCEPT !.close_connection = TRUE]
  <2>1. Written(s, ok) = CheckDestroy(v)
    BY <1>3 DEF Written
  <2>2. Usable(v) /\ Kept(s, v) /\ v.state = s.state
    BY <1>1 DEF Object, Steady, NoneWaits, Sound, Usable, Kept
  <2> HIDE DEF v
  <2> QED
    BY <2>1, <2>2, CheckDestroyKeeps DEF Kept
<1> QED
  BY <1>2, <1>3

(* A close frame was received. *)
LEMMA HandleCloseKeeps ==
  ASSUME NEW s, Usable(s)
  PROVE  /\ Sound(HandleClose(s)) /\ Kept(s, HandleClose(s)) /\ HandleClose(s).state = s.state
         /\ s.has_sent_close \/ ~HandleClose(s).deleting
<1> DEFINE t == [s EXCEPT !.has_recv_close = TRUE]
           u == [t EXCEPT !.close_connection = TRUE]
           v == IF u.is_close_handler_called THEN u
                ELSE [OnClose(u) EXCEPT !.is_close_handler_called = TRUE]
<1>1. Usable(t) /\ Kept(s, t) /\ t.state = s.state
  BY DEF Object, Steady, NoneWaits, Sound, Usable, Kept
<1>2. Usable(u) /\ Kept(s, u) /\ u.state = s.state
  BY DEF Object, Steady, NoneWaits, Sound, Usable, Kept
<1>3. Usable(v) /\ Kept(s, v) /\ v.state = s.state
  <2> HIDE DEF u
  <2> QED
    <3>1. CASE u.is_close_handler_called
      BY <1>2, <3>1
    <3>2. CASE ~u.is_close_handler_called
      <4>1. v = [OnClose(u) EXCEPT !.is_close_handler_called = TRUE]
        BY <3>2
      <4> HIDE DEF v
      <4>2. Usable(v) /\ v.state = u.state
        BY <1>2, <4>1 DEF Object, Steady, NoneWaits, Sound, Usable, OnClose
      <4>3. Kept(u, v)
        BY <1>2, <4>1 DEF Object, Sound, Usable, Kept, OnClose
      <4> QED
        BY <1>2, <4>2, <4>3 DEF Kept
    <3> QED
      BY <3>1, <3>2
<1>4. HandleClose(s) = IF s.has_sent_close THEN CheckDestroy(v) ELSE Close(t)
  BY DEF HandleClose, Object, Sound, Usable
<1> HIDE DEF t, u, v
<1> QED
  <2>1. CASE s.has_sent_close
    <3>1. Sound(CheckDestroy(v)) /\ Kept(v, CheckDestroy(v)) /\ CheckDestroy(v).state = v.state
      BY <1>3, CheckDestroyKeeps
    <3>2. Kept(s, CheckDestroy(v))
      BY <1>3, <3>1 DEF Kept
    <3> QED
      BY <1>3, <1>4, <2>1, <3>1, <3>2
  <2>2. CASE ~s.has_sent_close
    <3>1. Usable(Close(t)) /\ Kept(t, Close(t)) /\ Close(t).state = t.state
      BY <1>1, CloseKeeps
    <3>2. Kept(s, Close(t))
      BY <1>1, <3>1 DEF Kept
    <3> QED
      BY <1>1, <1>4, <2>2, <3>1, <3>2 DEF Usable
  <2> QED
    BY <2>1, <2>2

-----------------------------------------------------------------------------
(* The data of a message.                                                  *)

OnlyData(m) == \A i \in DOMAIN m : m[i] = "data"

(* What is counted in `expected` is in the message or the fragment, and    *)
(* there is nothing else in them.                                          *)
Intact(s, e) ==
  /\ s.state # "Payload" => s.fragment = <<>>
  /\ OnlyData(s.message)
  /\ s.opcode \in DataOp => OnlyData(s.fragment) /\ e + s.remaining <= MaxMessage
  /\ s.alive /\ ~s.deleting =>
       e = Len(s.message) + (IF s.opcode \in DataOp THEN Len(s.fragment) ELSE 0)

LEMMA IntactKept ==
  ASSUME NEW s, NEW t, NEW e, Usable(s), Intact(s, e), Kept(s, t),
         t.state = s.state \/ t.state = "Payload"
  PROVE  Intact(t, e)
  BY DEF Intact, Kept, Usable

LEMMA JoinData ==
  ASSUME NEW m \in Seq(Piece), NEW f \in Seq(Piece)
  PROVE  /\ m \o f \in Seq(Piece) /\ Len(m \o f) = Len(m) + Len(f)
         /\ OnlyData(m) /\ OnlyData(f) => OnlyData(m \o f)
<1>1. m \o f \in Seq(Piece)
  OBVIOUS
<1>2. Len(m \o f) = Len(m) + Len(f)
  OBVIOUS
<1>3. ASSUME OnlyData(m), OnlyData(f), NEW i \in DOMAIN (m \o f) PROVE (m \o f)[i] = "data"
  <2>1. i \in 1 .. Len(m) + Len(f)
    BY <1>2
  <2>2. CASE i \in 1 .. Len(m)
    <3>1. (m \o f)[i] = m[i] /\ i \in DOMAIN m
      BY <2>2
    <3> QED
      BY <1>3, <3>1 DEF OnlyData
  <2>3. CASE i > Len(m)
    <3>1. (m \o f)[i] = f[i - Len(m)] /\ i - Len(m) \in DOMAIN f
      BY <2>1, <2>3
    <3> QED
      BY <1>3, <3>1 DEF OnlyData
  <2> QED
    BY <2>1, <2>2, <2>3
<1> QED
  BY <1>1, <1>2, <1>3 DEF OnlyData

(* The object stays the one it was, opened or refused. *)
Stays(s, t) ==
  /\ t.alive = s.alive /\ t.refused = s.refused
  /\ s.closed => t.closed

(* The next header is asked for. *)
AskNext(s) == DoRead([s EXCEPT !.fragment = <<>>, !.state = "MiniHeader"])

LEMMA NextFrame ==
  ASSUME NEW s, Usable(s)
  PROVE  /\ Sound(AskNext(s)) /\ Stays(s, AskNext(s))
         /\ AskNext(s).message = s.message /\ AskNext(s).opcode = s.opcode
         /\ AskNext(s).remaining = s.remaining
         /\ AskNext(s).fragment = <<>> /\ AskNext(s).state = "MiniHeader"
<1> DEFINE t == [s EXCEPT !.fragment = <<>>, !.state = "MiniHeader"]
<1>1. s \in Object /\ <<>> \in Seq(Piece)
  BY DEF Usable, Sound
<1>2. t \in Object /\ Stays(s, t) /\ t.message = s.message /\ t.opcode = s.opcode
      /\ t.remaining = s.remaining /\ t.fragment = <<>> /\ t.state = "MiniHeader"
  BY <1>1 DEF Object, Stays, Waiting
<1>3. Steady(t) /\ NoneWaits(t) /\ t.alive /\ ~t.deleting
  BY <1>1 DEF Object, Steady, NoneWaits, Usable, Sound
<1> HIDE DEF t
<1>4. Usable(t)
  BY <1>2, <1>3 DEF Usable, Sound
<1>5. Sound(DoRead(t)) /\ Kept(t, DoRead(t)) /\ DoRead(t).state = "MiniHeader"
  BY <1>2, <1>4, DoReadKeeps
<1>6. AskNext(s) = DoRead(t)
  BY DEF AskNext, t
<1> QED
  BY <1>2, <1>5, <1>6 DEF Kept, Stays

LEMMA HandleDataKeeps ==
  ASSUME NEW s, Usable(s), s.opcode \in DataOp
  PROVE  /\ Usable(HandleData(s)) /\ Stays(s, HandleData(s))
         /\ HandleData(s).opcode = s.opcode /\ HandleData(s).remaining = s.remaining
         /\ HandleData(s).message = (IF s.fin THEN <<>> ELSE s.message \o s.fragment)
<1> DEFINE m == IF s.fin THEN <<>> ELSE s.message \o s.fragment
           b == IF s.opcode = "continuation" THEN s.is_binary ELSE s.opcode
           t == [s EXCEPT !.message = m, !.is_binary = b]
<1>1. s \in Object
  BY DEF Usable, Sound
<1>2. m \in Seq(Piece)
  <2>1. s.message \in Seq(Piece) /\ s.fragment \in Seq(Piece) /\ <<>> \in Seq(Piece)
    BY <1>1 DEF Object
  <2> QED
    BY <2>1, JoinData
<1>3. b \in {"text", "binary", "uninitialized"}
  BY <1>1 DEF Object, DataOp
<1>4. HandleData(s) = t
  BY DEF HandleData
<1> HIDE DEF m, b
<1>5. t \in Object /\ Stays(s, t) /\ t.message = m /\ t.opcode = s.opcode /\ t.remaining = s.remaining
  BY <1>1, <1>2, <1>3 DEF Object, Stays
<1>6. Steady(t) /\ NoneWaits(t) /\ t.alive /\ ~t.deleting
  BY <1>1 DEF Object, Steady, NoneWaits, Usable, Sound
<1> HIDE DEF t
<1> QED
  BY <1>4, <1>5, <1>6 DEF Usable, Sound, m

(* A frame is complete: what it carried is in the message, or of no more   *)
(* consequence, and a finished message is handed over.                     *)
LEMMA HandleFragmentKeeps ==
  ASSUME NEW s, Usable(s), NEW e \in Nat, Intact(s, e), s.remaining = 0, s.state = "Payload"
  PROVE  /\ Sound(HandleFragment(s)) /\ Stays(s, HandleFragment(s))
         /\ Intact(HandleFragment(s), IF s.opcode \in DataOp /\ s.fin THEN 0 ELSE e)
<1> DEFINE t == HandleFragment(s)
<1>1. s \in Object /\ s.message \in Seq(Piece) /\ s.fragment \in Seq(Piece) /\ s.alive /\ ~s.deleting
  BY DEF Usable, Sound, Object
<1>2. CASE s.opcode \in DataOp
  <2>1. t = AskNext(HandleData(s))
    BY <1>2 DEF HandleFragment, AskNext, DataOp
  <2> HIDE DEF t
  <2>2. /\ Sound(t) /\ Stays(s, t) /\ t.opcode = s.opcode /\ t.remaining = 0
        /\ t.message = (IF s.fin THEN <<>> ELSE s.message \o s.fragment)
        /\ t.fragment = <<>> /\ t.state = "MiniHeader"
    BY <1>2, <2>1, HandleDataKeeps, NextFrame DEF Stays
  <2>3. Intact(t, IF s.fin THEN 0 ELSE e)
    <3>1. e = Len(s.message) + Len(s.fragment) /\ OnlyData(s.message) /\ OnlyData(s.fragment)
          /\ e <= MaxMessage
      <4>1. e + 0 <= MaxMessage /\ OnlyData(s.message) /\ OnlyData(s.fragment)
        BY <1>2 DEF Intact
      <4>2. e = Len(s.message) + (IF s.opcode \in DataOp THEN Len(s.fragment) ELSE 0)
        BY <1>1 DEF Intact
      <4>3. e = Len(s.message) + Len(s.fragment)
        BY <1>2, <4>2
      <4> QED
        <5>1. e <= MaxMessage
          BY <4>1, WsAssumption
        <5> QED
          BY <4>1, <4>3, <5>1
    <3>2. /\ Len(s.message \o s.fragment) = e /\ OnlyData(s.message \o s.fragment)
      BY <1>1, <3>1, JoinData
    <3>3. Len(<<>>) = 0 /\ OnlyData(<<>>)
      BY DEF OnlyData
    <3>4. CASE s.fin
      BY <1>2, <2>2, <3>3, <3>4, WsAssumption DEF Intact
    <3>5. CASE ~s.fin
      <4> HIDE DEF t
      <4>1. t.message = s.message \o s.fragment
        BY <2>2, <3>5
      <4>2. /\ OnlyData(t.message) /\ OnlyData(t.fragment)
            /\ e = Len(t.message) + Len(t.fragment)
        <5>1. Len(t.message) = e /\ Len(t.fragment) = 0
          BY <2>2, <3>2, <3>3, <4>1
        <5>2. OnlyData(t.message) /\ OnlyData(t.fragment)
          BY <2>2, <3>2, <3>3, <4>1
        <5> QED
          BY <5>1, <5>2
      <4>3. e + t.remaining <= MaxMessage
        <5>1. t.remaining = 0 /\ e <= MaxMessage
          BY <2>2, <3>1
        <5>2. e + 0 <= MaxMessage
          BY <5>1, WsAssumption
        <5> QED
          BY <5>1, <5>2
      <4> QED
        BY <1>2, <2>2, <3>5, <4>2, <4>3 DEF Intact
    <3> QED
      BY <3>4, <3>5
  <2> QED
    BY <1>2, <2>2, <2>3 DEF t
<1>3. CASE s.opcode \notin DataOp
  <2>1. SUFFICES Sound(t) /\ Stays(s, t) /\ Intact(t, e)
    BY <1>3
  <2>2. ASSUME NEW u, Usable(u), Kept(s, u), t = AskNext(u)
        PROVE  Sound(t) /\ Stays(s, t) /\ Intact(t, e)
    <3> HIDE DEF t
    <3>1. /\ Sound(t) /\ Stays(s, t) /\ t.opcode = s.opcode
          /\ t.message = s.message /\ t.fragment = <<>> /\ t.state = "MiniHeader"
      BY <2>2, NextFrame DEF Kept, Stays
    <3> QED
      BY <1>1, <1>3, <3>1 DEF Intact
  <2>3. CASE s.opcode = "close" /\ s.has_sent_close
    <3>1. t = HandleClose(s)
      BY <2>3 DEF HandleFragment, DataOp
    <3> HIDE DEF t
    <3>2. Sound(t) /\ Kept(s, t) /\ t.state = s.state
      BY <3>1, HandleCloseKeeps
    <3> QED
      BY <3>2, IntactKept DEF Kept, Stays
  <2>4. CASE s.opcode = "close" /\ ~s.has_sent_close
    <3>1. t = AskNext(HandleClose(s))
      BY <2>4 DEF HandleFragment, DataOp, AskNext
    <3>2. Usable(HandleClose(s)) /\ Kept(s, HandleClose(s))
      BY <1>1, <2>4, HandleCloseKeeps DEF Usable, Kept
    <3> QED
      BY <2>2, <3>1, <3>2
  <2>5. CASE s.opcode # "close"
    <3>1. t = AskNext(s)
      BY <1>3, <2>5 DEF HandleFragment, AskNext
    <3>2. Kept(s, s)
      BY DEF Kept
    <3> QED
      BY <2>2, <3>1, <3>2
  <2> QED
    BY <2>3, <2>4, <2>5
<1> QED
  BY <1>2, <1>3

-----------------------------------------------------------------------------
(* The steps.                                                              *)

WsInv ==
  /\ Sound(conn)
  /\ Intact(conn, expected)
  /\ posted \in Seq(Frame \cup {"expired"})
  /\ link \in {"up", "down"} /\ expected \in 0 .. MaxMessage
  /\ ~conn.alive => /\ conn = Fresh
                    /\ expected = 0
                    /\ \A i \in DOMAIN posted : posted[i] = "expired"

LEMMA RunningUsable == ASSUME WsInv, Running PROVE Usable(conn)
  BY DEF WsInv, Running, Usable

(* A step of a living object keeps the invariant if it keeps the parts.    *)
LEMMA LivingStep ==
  ASSUME WsInv, conn.alive, Sound(conn'), Stays(conn, conn'), Intact(conn', expected'),
         posted' \in Seq(Frame \cup {"expired"}), link' \in {"up", "down"},
         expected' \in 0 .. MaxMessage
  PROVE  WsInv' /\ Stays(conn, conn')
  BY DEF WsInv, Stays

LEMMA FreshSound == Sound(Fresh)
<1>1. <<>> \in Seq(Frame) /\ <<>> \in Seq(Piece) /\ 0 \in 0 .. MaxPayload
  BY WsAssumption
<1>2. Fresh \in Object
  BY <1>1 DEF Fresh, Object, Waiting, Opcode, DataOp
<1> QED
  BY <1>2 DEF Sound, Steady, NoneWaits, Fresh

LEMMA FreshIntact == Intact(Fresh, 0)
  BY WsAssumption DEF Intact, Fresh, OnlyData

LEMMA WsInitInv == WsInit => WsInv
<1>1. <<>> \in Seq(Frame \cup {"expired"}) /\ DOMAIN <<>> = {} /\ 0 \in 0 .. MaxMessage
  BY WsAssumption
<1> QED
  BY <1>1, FreshSound, FreshIntact DEF WsInit, WsInv

(* The object as start() finds it, and after the 101 answer was queued. *)
LEMMA StartStep ==
  ASSUME WsInv, NEW joins \in BOOLEAN, Start(joins)
  PROVE  /\ WsInv' /\ conn'.alive /\ ~conn'.closed
<1> DEFINE s == [Fresh EXCEPT !.alive = TRUE, !.userdata = "set", !.refused = ~joins]
           t == Enqueue(s, "hello")
           u == IF joins THEN t ELSE Close(t)
<1>1. conn' = DoRead(u) /\ expected' = expected /\ link' = link
  BY DEF Start
<1>2. expected = 0
  BY DEF Start, WsInv
<1>3. /\ Usable(t) /\ ~t.closed /\ ~t.has_recv_close
      /\ t.fragment = <<>> /\ t.message = <<>> /\ t.remaining = 0 /\ t.state = "MiniHeader"
  <2> DEFINE q == [s EXCEPT !.write_buffers = <<"hello">>]
  <2>1. Fresh \in Object /\ <<"hello">> \in Seq(Frame) /\ <<"hello">> # <<>> /\ Head(<<"hello">>) = "hello"
    BY FreshSound DEF Sound, Frame
  <2>2. t = DoWrite(q)
    BY DEF Enqueue, Fresh
  <2>3. t = [q EXCEPT !.sending = <<"hello">>, !.write_buffers = <<>>, !.writing = TRUE,
                      !.overlap = FALSE, !.first = "hello"]
    BY <2>1, <2>2 DEF DoWrite, Fresh
  <2> HIDE DEF t
  <2>4. /\ t.alive /\ ~t.deleting /\ ~t.closed /\ ~t.has_recv_close
        /\ t.fragment = <<>> /\ t.message = <<>> /\ t.remaining = 0 /\ t.state = "MiniHeader"
    BY <2>3 DEF Fresh
  <2>5. t \in Object
    <3>1. <<>> \in Seq(Frame) /\ (~joins) \in BOOLEAN
      OBVIOUS
    <3>2. s \in Object
      BY <2>1, <3>1 DEF Object
    <3> HIDE DEF s
    <3>3. q \in Object
      BY <2>1, <3>2 DEF Object
    <3> HIDE DEF q
    <3> QED
      BY <2>1, <2>3, <3>1, <3>3 DEF Object
  <2>6. Steady(t) /\ NoneWaits(t)
    BY <2>1, <2>3 DEF Steady, NoneWaits, Fresh
  <2> QED
    BY <2>4, <2>5, <2>6 DEF Usable, Sound
<1> HIDE DEF t
<1>4. /\ Usable(u) /\ ~u.closed /\ ~u.has_recv_close /\ Kept(t, u) /\ u.state = t.state
  BY <1>3, CloseKeeps DEF Kept
<1> HIDE DEF u
<1>5. /\ Sound(conn') /\ Kept(u, conn') /\ conn'.state = "MiniHeader" /\ ~conn'.closed
  BY <1>1, <1>3, <1>4, DoReadKeeps
<1>6. Intact(conn', expected')
  <2>1. conn'.fragment = <<>> /\ conn'.message = <<>> /\ conn'.remaining = 0
    BY <1>3, <1>4, <1>5 DEF Kept
  <2>2. Len(<<>>) = 0 /\ OnlyData(<<>>)
    BY DEF OnlyData
  <2> QED
    BY <1>1, <1>2, <2>1, <2>2, WsAssumption DEF Intact
<1>7. posted' \in Seq(Frame \cup {"expired"})
  BY DEF Start, WsInv, Frame
<1>8. conn'.alive
  BY <1>4, <1>5 DEF Usable, Kept
<1> QED
  BY <1>1, <1>5, <1>6, <1>7, <1>8 DEF WsInv

(* A read that brought a header, a length or a mask. *)
LEMMA HeadStep ==
  ASSUME WsInv, Running, NEW s, Usable(s), Stays(conn, s), s.message = conn.message,
         s.fragment = <<>>, conn.fragment = <<>>,
         s.opcode \in DataOp => expected + s.remaining <= MaxMessage,
         conn' = DoRead(s), UNCHANGED <<posted, link, expected>>
  PROVE  WsInv' /\ Stays(conn, conn')
<1>1. conn.alive /\ ~conn.deleting /\ expected \in Nat
  BY WsAssumption DEF Running, WsInv
<1>2. expected = Len(conn.message) /\ OnlyData(conn.message)
  <2>1. expected = Len(conn.message) + 0
    BY <1>1 DEF WsInv, Intact
  <2>2. Len(conn.message) \in Nat
    BY DEF WsInv, Sound, Object
  <2> QED
    BY <2>1, <2>2 DEF WsInv, Intact
<1>3. Intact(s, expected)
  <2>1. Len(<<>>) = 0 /\ OnlyData(<<>>)
    BY DEF OnlyData
  <2> QED
    BY <1>1, <1>2, <2>1 DEF Intact
<1>4. /\ Sound(conn') /\ Kept(s, conn') /\ (conn'.state = s.state \/ conn'.state = "Payload")
  BY DoReadKeeps
<1>5. Intact(conn', expected')
  BY <1>3, <1>4, IntactKept
<1>6. Stays(conn, conn')
  BY <1>4 DEF Kept, Stays
<1> QED
  BY <1>1, <1>4, <1>5, <1>6, LivingStep DEF WsInv

LEMMA ReadMiniHeaderStep ==
  ASSUME WsInv, NEW fin \in BOOLEAN, NEW opcode \in Opcode, NEW mask \in BOOLEAN,
         NEW size \in 0 .. MaxPayload, NEW length \in {"Mask", "Len16", "Len64"},
         ReadMiniHeader(fin, opcode, mask, size, length)
  PROVE  WsInv' /\ Stays(conn, conn')
<1> DEFINE r == IF length = "Mask" THEN size ELSE 0
           s == [Arrived(conn) EXCEPT !.has_mask = mask, !.fin = fin, !.opcode = opcode,
                                      !.remaining = r, !.state = length]
<1>1. Usable(conn) /\ Running /\ conn.state = "MiniHeader" /\ conn \in Object
  BY RunningUsable DEF ReadMiniHeader, Live, Usable, Sound
<1>2. r \in 0 .. MaxPayload /\ (opcode \in DataOp => expected + r <= MaxMessage)
  BY WsAssumption DEF ReadMiniHeader, WsInv
<1>3. conn' = DoRead(s)
  BY DEF ReadMiniHeader
<1> HIDE DEF r
<1>4. /\ s.message = conn.message /\ s.fragment = conn.fragment /\ s.opcode = opcode
      /\ s.remaining = r /\ Stays(conn, s)
  BY <1>1 DEF Arrived, Object, Stays
<1>5. Usable(s)
  <2>1. s \in Object
    BY <1>1, <1>2 DEF Arrived, Object, Waiting
  <2>2. Steady(s) /\ NoneWaits(s) /\ s.alive /\ ~s.deleting
    BY <1>1 DEF Arrived, Object, Steady, NoneWaits, Usable, Sound
  <2> QED
    BY <2>1, <2>2 DEF Usable, Sound
<1>6. conn.fragment = <<>>
  BY <1>1 DEF WsInv, Intact
<1> HIDE DEF s
<1> QED
  BY <1>1, <1>2, <1>3, <1>4, <1>5, <1>6, HeadStep DEF ReadMiniHeader

LEMMA ReadHalfHeaderStep ==
  ASSUME WsInv, NEW fin \in BOOLEAN, NEW opcode \in Opcode, ReadHalfHeader(fin, opcode)
  PROVE  WsInv' /\ Stays(conn, conn')
<1> DEFINE s == [Arrived(conn) EXCEPT !.has_mask = FALSE, !.fin = fin, !.opcode = opcode,
                                      !.remaining = 0, !.state = "Mask"]
<1>1. Usable(conn) /\ Running /\ conn.state = "MiniHeader" /\ conn \in Object
  BY RunningUsable DEF ReadHalfHeader, Live, Usable, Sound
<1>2. conn' = DoRead(s)
  BY DEF ReadHalfHeader
<1>3. /\ s.message = conn.message /\ s.fragment = conn.fragment
      /\ s.remaining = 0 /\ Stays(conn, s)
  BY <1>1 DEF Arrived, Object, Stays
<1>4. Usable(s)
  <2>1. s \in Object
    <3>1. 0 \in 0 .. MaxPayload
      BY WsAssumption
    <3> QED
      BY <1>1, <3>1 DEF Arrived, Object, Waiting
  <2>2. Steady(s) /\ NoneWaits(s) /\ s.alive /\ ~s.deleting
    BY <1>1 DEF Arrived, Object, Steady, NoneWaits, Usable, Sound
  <2> QED
    BY <2>1, <2>2 DEF Usable, Sound
<1>5. conn.fragment = <<>> /\ expected + 0 <= MaxMessage
  BY <1>1, WsAssumption DEF WsInv, Intact
<1> HIDE DEF s
<1> QED
  BY <1>1, <1>2, <1>3, <1>4, <1>5, HeadStep DEF ReadHalfHeader

LEMMA ReadLengthStep ==
  ASSUME WsInv, NEW size \in 0 .. MaxPayload, ReadLength(size)
  PROVE  WsInv' /\ Stays(conn, conn')
<1> DEFINE s == [Arrived(conn) EXCEPT !.remaining = size, !.state = "Mask"]
<1>1. Usable(conn) /\ Running /\ conn.state \in {"Len16", "Len64"} /\ conn \in Object
  BY RunningUsable DEF ReadLength, Live, Usable, Sound
<1>2. conn' = DoRead(s)
  BY DEF ReadLength
<1>3. /\ s.message = conn.message /\ s.fragment = conn.fragment
      /\ s.remaining = size /\ s.opcode = conn.opcode /\ Stays(conn, s)
  BY <1>1 DEF Arrived, Object, Stays
<1>4. Usable(s)
  <2>1. s \in Object
    BY <1>1 DEF Arrived, Object, Waiting
  <2>2. Steady(s) /\ NoneWaits(s) /\ s.alive /\ ~s.deleting
    BY <1>1 DEF Arrived, Object, Steady, NoneWaits, Usable, Sound
  <2> QED
    BY <2>1, <2>2 DEF Usable, Sound
<1>5. conn.fragment = <<>>
  BY <1>1 DEF WsInv, Intact
<1> HIDE DEF s
<1> QED
  BY <1>1, <1>2, <1>3, <1>4, <1>5, HeadStep DEF ReadLength

LEMMA ReadMaskStep ==
  ASSUME WsInv, ReadMask
  PROVE  WsInv' /\ Stays(conn, conn')
<1> DEFINE s == [Arrived(conn) EXCEPT !.state = "Payload"]
<1>1. Usable(conn) /\ Running /\ conn.state = "Mask" /\ conn \in Object
  BY RunningUsable DEF ReadMask, Live, Usable, Sound
<1>2. conn' = DoRead(s)
  BY DEF ReadMask
<1>3. /\ s.message = conn.message /\ s.fragment = conn.fragment
      /\ s.remaining = conn.remaining /\ s.opcode = conn.opcode /\ Stays(conn, s)
  BY <1>1 DEF Arrived, Object, Stays
<1>4. Usable(s)
  <2>1. s \in Object
    BY <1>1 DEF Arrived, Object, Waiting
  <2>2. Steady(s) /\ NoneWaits(s) /\ s.alive /\ ~s.deleting
    BY <1>1 DEF Arrived, Object, Steady, NoneWaits, Usable, Sound
  <2> QED
    BY <2>1, <2>2 DEF Usable, Sound
<1>5. conn.fragment = <<>> /\ (conn.opcode \in DataOp => expected + conn.remaining <= MaxMessage)
  BY <1>1 DEF WsInv, Intact
<1> HIDE DEF s
<1> QED
  BY <1>1, <1>2, <1>3, <1>4, <1>5, HeadStep DEF ReadMask

(* What n units of payload are. *)
LEMMA Units ==
  ASSUME NEW n \in Nat, NEW kind \in Piece
  PROVE  /\ [i \in 1 .. n |-> kind] \in Seq(Piece) /\ Len([i \in 1 .. n |-> kind]) = n
         /\ kind = "data" => OnlyData([i \in 1 .. n |-> kind])
  BY DEF OnlyData

(* The object with the units that arrived in its fragment. *)
LEMMA FragmentStep ==
  ASSUME WsInv, Usable(conn), conn.state = "Payload",
         NEW n \in Nat, n <= conn.remaining, NEW s,
         s = [Arrived(conn) EXCEPT !.remaining = @ - n,
                !.fragment = @ \o [i \in 1 .. n |->
                  (IF conn.opcode \in DataOp THEN "data" ELSE "control")]]
  PROVE  /\ Usable(s) /\ Stays(conn, s) /\ s.state = "Payload" /\ s.opcode = conn.opcode
         /\ s.remaining = conn.remaining - n
         /\ Intact(s, expected + (IF conn.opcode \in DataOp THEN n ELSE 0))
<1> DEFINE kind == IF conn.opcode \in DataOp THEN "data" ELSE "control"
           new == [i \in 1 .. n |-> kind]
           f == conn.fragment \o new
<1>1. conn \in Object /\ conn.alive /\ ~conn.deleting
  BY DEF Usable, Sound
<1>2. kind \in Piece /\ (conn.opcode \in DataOp => kind = "data")
  BY DEF Piece
<1>3. new \in Seq(Piece) /\ Len(new) = n /\ (conn.opcode \in DataOp => OnlyData(new))
  BY <1>2, Units
<1> HIDE DEF kind
<1>4. conn.fragment \in Seq(Piece) /\ conn.message \in Seq(Piece) /\ conn.remaining \in 0 .. MaxPayload
  BY <1>1 DEF Object
<1> HIDE DEF new
<1>5. f \in Seq(Piece) /\ Len(f) = Len(conn.fragment) + n
      /\ (conn.opcode \in DataOp /\ OnlyData(conn.fragment) => OnlyData(f))
  BY <1>3, <1>4, JoinData
<1>6. s = [Arrived(conn) EXCEPT !.remaining = conn.remaining - n, !.fragment = f]
  BY <1>1 DEF new, kind, Arrived, Object
<1>7. conn.remaining - n \in 0 .. MaxPayload
  BY <1>4, WsAssumption
<1> HIDE DEF f
<1>8. /\ s.message = conn.message /\ s.fragment = f /\ s.state = "Payload"
      /\ s.remaining = conn.remaining - n /\ s.opcode = conn.opcode /\ Stays(conn, s)
  BY <1>1, <1>6 DEF Arrived, Object, Stays
<1>9. Usable(s)
  <2>1. s \in Object
    <3>1. [Arrived(conn) EXCEPT !.remaining = conn.remaining - n, !.fragment = f] \in Object
      BY <1>1, <1>5, <1>7 DEF Arrived, Object
    <3> QED
      BY <1>6, <3>1
  <2>2. Steady(s) /\ NoneWaits(s) /\ s.alive /\ ~s.deleting
    BY <1>1, <1>6 DEF Arrived, Object, Steady, NoneWaits, Usable, Sound
  <2> QED
    BY <2>1, <2>2 DEF Usable, Sound
<1>10. Intact(s, expected + (IF conn.opcode \in DataOp THEN n ELSE 0))
  <2>1. Intact(conn, expected) /\ expected \in Nat
    BY WsAssumption DEF WsInv
  <2>2. Len(conn.message) \in Nat /\ Len(conn.fragment) \in Nat
    BY <1>4
  <2>3. CASE conn.opcode \in DataOp
    <3>1. /\ expected + conn.remaining <= MaxMessage
          /\ expected = Len(conn.message) + Len(conn.fragment)
          /\ OnlyData(conn.message) /\ OnlyData(conn.fragment)
      BY <1>1, <2>1, <2>3 DEF Intact
    <3>2. /\ (expected + n) + (conn.remaining - n) <= MaxMessage
          /\ expected + n = Len(conn.message) + Len(f)
      <4>1. (expected + n) + (conn.remaining - n) = expected + conn.remaining
        BY <1>4, <2>1, WsAssumption
      <4>2. expected + n = Len(conn.message) + (Len(conn.fragment) + n)
        <5>1. ASSUME NEW a \in Nat, NEW b \in Nat, expected = a + b PROVE expected + n = a + (b + n)
          BY <5>1
        <5> QED
          BY <2>2, <3>1, <5>1
      <4> QED
        BY <1>5, <3>1, <4>1, <4>2
    <3> QED
      BY <1>5, <1>8, <2>3, <3>1, <3>2 DEF Intact
  <2>4. CASE conn.opcode \notin DataOp
    <3>1. expected = Len(conn.message) + 0 /\ OnlyData(conn.message) /\ expected + 0 = expected
      BY <1>1, <2>1, <2>4 DEF Intact
    <3> QED
      BY <1>8, <2>4, <3>1 DEF Intact
  <2> QED
    BY <2>3, <2>4
<1> QED
  BY <1>8, <1>9, <1>10

LEMMA ReadPayloadStep ==
  ASSUME WsInv, NEW n \in 0 .. MaxPayload, ReadPayload(n)
  PROVE  WsInv' /\ Stays(conn, conn')
<1> DEFINE kind == IF conn.opcode \in DataOp THEN "data" ELSE "control"
           s == [Arrived(conn) EXCEPT !.remaining = @ - n,
                   !.fragment = @ \o [i \in 1 .. n |-> kind]]
           e == expected + (IF conn.opcode \in DataOp THEN n ELSE 0)
           delivers == s.opcode \in DataOp /\ s.fin
<1>1. Usable(conn) /\ Running /\ conn.state = "Payload" /\ n <= conn.remaining /\ n \in Nat
  BY RunningUsable, WsAssumption DEF ReadPayload, Live
<1>2. /\ Usable(s) /\ Stays(conn, s) /\ s.state = "Payload" /\ s.opcode = conn.opcode
      /\ s.remaining = conn.remaining - n /\ Intact(s, e)
  BY <1>1, FragmentStep
<1>3. link' = link
  BY DEF ReadPayload
<1>4. /\ s.remaining > 0 =>
           conn' = DoRead(s) /\ posted' = posted
           /\ expected' = expected + (IF s.opcode \in DataOp THEN n ELSE 0)
      /\ ~(s.remaining > 0) =>
           /\ conn' = HandleFragment(s)
           /\ expected' = IF delivers THEN 0
                          ELSE expected + (IF s.opcode \in DataOp THEN n ELSE 0)
           /\ \E answer \in {<<>>, <<"data">>} : posted' = posted \o answer
  BY DEF ReadPayload
<1> HIDE DEF s
<1>5. expected \in Nat /\ e \in Nat /\ e <= MaxMessage /\ conn.remaining \in Nat
  <2>1. expected \in Nat /\ expected <= MaxMessage /\ conn.remaining \in Nat
    BY WsAssumption DEF WsInv, Sound, Object
  <2>2. conn.opcode \in DataOp => expected + conn.remaining <= MaxMessage
    BY DEF WsInv, Intact
  <2> QED
    BY <1>1, <2>1, <2>2, WsAssumption
<1>6. CASE s.remaining > 0
  <2>1. Sound(conn') /\ Kept(s, conn') /\ conn'.state = "Payload"
    BY <1>2, <1>4, <1>6, DoReadKeeps
  <2>2. expected' = e
    BY <1>2, <1>4, <1>6
  <2>3. Intact(conn', expected') /\ Stays(conn, conn')
    BY <1>2, <2>1, <2>2, IntactKept DEF Kept, Stays
  <2>4. expected' \in 0 .. MaxMessage /\ posted' = posted
    BY <1>4, <1>5, <1>6, <2>2
  <2> QED
    BY <1>1, <1>3, <2>1, <2>3, <2>4, LivingStep DEF WsInv, Running
<1>7. CASE ~(s.remaining > 0)
  <2>1. s.remaining = 0
    BY <1>1, <1>2, <1>5, <1>7
  <2>2. expected' = IF s.opcode \in DataOp /\ s.fin THEN 0 ELSE e
    BY <1>2, <1>4, <1>7
  <2> HIDE DEF e
  <2>3. Sound(conn') /\ Stays(s, conn') /\ Intact(conn', expected')
    BY <1>2, <1>4, <1>5, <1>7, <2>1, <2>2, HandleFragmentKeeps
  <2>4. Stays(conn, conn')
    BY <1>2, <2>3 DEF Stays
  <2>5. expected' \in 0 .. MaxMessage
    BY <1>5, <2>2, WsAssumption
  <2>6. posted' \in Seq(Frame \cup {"expired"})
    <3>1. PICK answer \in {<<>>, <<"data">>} : posted' = posted \o answer
      BY <1>4, <1>7
    <3>2. answer \in Seq(Frame \cup {"expired"})
      <4>1. <<>> \in Seq(Frame \cup {"expired"}) /\ <<"data">> \in Seq(Frame \cup {"expired"})
        BY DEF Frame
      <4> QED
        BY <4>1
    <3>3. posted \in Seq(Frame \cup {"expired"})
      BY DEF WsInv
    <3> QED
      BY <3>1, <3>2, <3>3
  <2> QED
    BY <1>1, <1>3, <2>3, <2>4, <2>5, <2>6, LivingStep DEF WsInv, Running
<1> QED
  BY <1>6, <1>7

LEMMA ReadFailsStep ==
  ASSUME WsInv, ReadFails
  PROVE  WsInv' /\ Stays(conn, conn')
<1>1. Usable(conn) /\ conn' = Failed(conn) /\ UNCHANGED <<posted, link, expected>>
  BY RunningUsable DEF ReadFails
<1>2. Sound(conn') /\ Kept(conn, conn') /\ conn'.state = conn.state
  BY <1>1, FailedKeeps
<1>3. Intact(conn', expected') /\ Stays(conn, conn')
  BY <1>1, <1>2, IntactKept DEF WsInv, Kept, Stays
<1> QED
  BY <1>1, <1>2, <1>3, LivingStep DEF WsInv, Usable

LEMMA WriteCompletesStep ==
  ASSUME WsInv, NEW ok \in BOOLEAN, WriteCompletes(ok)
  PROVE  WsInv' /\ Stays(conn, conn')
<1>1. Usable(conn) /\ conn' = Written(conn, ok) /\ UNCHANGED <<posted, link, expected>>
  BY RunningUsable DEF WriteCompletes
<1>2. Sound(conn') /\ Kept(conn, conn') /\ conn'.state = conn.state
  BY <1>1, WrittenKeeps
<1>3. Intact(conn', expected') /\ Stays(conn, conn')
  BY <1>1, <1>2, IntactKept DEF WsInv, Kept, Stays
<1> QED
  BY <1>1, <1>2, <1>3, LivingStep DEF WsInv, Usable

LEMMA RunPostedStep ==
  ASSUME WsInv, RunPosted
  PROVE  WsInv' /\ (conn' = conn \/ (conn.alive /\ Stays(conn, conn')))
<1>1. /\ posted \in Seq(Frame \cup {"expired"}) /\ posted # <<>>
      /\ posted' = Tail(posted) /\ link' = link /\ expected' = expected
  BY DEF RunPosted, WsInv
<1>2. /\ posted' \in Seq(Frame \cup {"expired"})
      /\ Head(posted) = posted[1] /\ 1 \in DOMAIN posted
      /\ Head(posted) \in Frame \cup {"expired"}
      /\ \A i \in DOMAIN Tail(posted) : i + 1 \in DOMAIN posted /\ Tail(posted)[i] = posted[i + 1]
  BY <1>1
<1>3. CASE Head(posted) = "expired"
  <2>1. conn' = conn
    BY <1>3 DEF RunPosted
  <2>2. (\A i \in DOMAIN posted : posted[i] = "expired") =>
          \A i \in DOMAIN posted' : posted'[i] = "expired"
    BY <1>1, <1>2
  <2> QED
    <3>1. Sound(conn') /\ Intact(conn', expected')
      BY <1>1, <2>1 DEF WsInv
    <3>2. /\ posted' \in Seq(Frame \cup {"expired"})
          /\ link' \in {"up", "down"} /\ expected' \in 0 .. MaxMessage
      BY <1>1, <1>2 DEF WsInv
    <3>3. ASSUME ~conn'.alive
          PROVE  conn' = Fresh /\ expected' = 0 /\ \A i \in DOMAIN posted' : posted'[i] = "expired"
      <4>1. conn = Fresh /\ expected = 0 /\ \A i \in DOMAIN posted : posted[i] = "expired"
        BY <2>1, <3>3 DEF WsInv
      <4> QED
        BY <1>1, <2>1, <2>2, <4>1
    <3> QED
      BY <2>1, <3>1, <3>2, <3>3 DEF WsInv
<1>4. CASE Head(posted) # "expired"
  <2>1. conn.alive /\ ~conn.deleting /\ Head(posted) \in Frame
    BY <1>2, <1>4 DEF WsInv, RunPosted
  <2>2. Usable(conn) /\ conn' = Enqueue(conn, Head(posted))
    BY <1>4, <2>1 DEF WsInv, RunPosted, Usable
  <2>3. Sound(conn') /\ Kept(conn, conn') /\ conn'.state = conn.state
    BY <2>1, <2>2, EnqueueKeeps DEF Usable
  <2>4. Intact(conn', expected') /\ Stays(conn, conn')
    BY <1>1, <2>2, <2>3, IntactKept DEF WsInv, Kept, Stays
  <2> QED
    BY <1>1, <1>2, <2>1, <2>3, <2>4, LivingStep DEF WsInv
<1> QED
  BY <1>3, <1>4

LEMMA DeleteStep ==
  ASSUME WsInv, Delete
  PROVE  WsInv' /\ conn.alive /\ conn.closed /\ ~conn'.alive
<1>1. /\ conn.alive /\ conn.closed /\ ~conn.reading /\ ~conn.writing /\ conn.userdata = "null"
      /\ conn.reading \in BOOLEAN /\ conn.writing \in BOOLEAN
  BY DEF Delete, WsInv, Sound, Steady, Object
<1>2. conn' = Fresh
  <2>1. conn.reading = FALSE /\ conn.writing = FALSE
    BY <1>1
  <2>2. conn' = [Fresh EXCEPT !.reading = FALSE, !.writing = FALSE, !.userdata = "null"]
    BY <1>1, <2>1 DEF Delete
  <2> QED
    BY <2>2 DEF Fresh
<1>3. /\ posted' = [i \in DOMAIN posted |-> "expired"] /\ expected' = 0 /\ link' = link
  BY DEF Delete
<1>4. posted' \in Seq(Frame \cup {"expired"})
  <2>1. DOMAIN posted = 1 .. Len(posted) /\ Len(posted) \in Nat
    BY DEF WsInv
  <2> QED
    BY <1>3, <2>1
<1>5. Sound(conn') /\ Intact(conn', expected') /\ ~conn'.alive
  BY <1>2, <1>3, FreshSound, FreshIntact DEF Fresh
<1> QED
  BY <1>1, <1>2, <1>3, <1>4, <1>5, WsAssumption DEF WsInv

(* Steps that leave the object alone. *)
LEMMA OutsideStep ==
  ASSUME WsInv, conn' = conn, expected' = expected, link' \in {"up", "down"},
         posted' = posted \/ (conn.alive /\ posted' = Append(posted, "data"))
  PROVE  WsInv'
<1>1. posted' \in Seq(Frame \cup {"expired"})
  BY DEF WsInv, Frame
<1>2. Sound(conn') /\ Intact(conn', expected')
  BY DEF WsInv, Sound, Steady, NoneWaits, Intact
<1> QED
  BY <1>1, <1>2 DEF WsInv

(* Every step keeps the invariant, and is a step of the object's life. *)
Lives ==
  \/ conn' = conn
  \/ conn.alive /\ Stays(conn, conn')
  \/ ~conn.alive /\ conn'.alive /\ ~conn'.closed
  \/ conn.alive /\ conn.closed /\ ~conn'.alive

LEMMA WsStep == WsInv /\ [WsNext]_wsvars => WsInv' /\ Lives
<1> SUFFICES ASSUME WsInv, [WsNext]_wsvars PROVE WsInv' /\ Lives
  OBVIOUS
<1>1. ASSUME NEW upgrade \in BOOLEAN, NEW named \in BOOLEAN, Refuse(upgrade, named)
      PROVE  WsInv' /\ Lives
  BY <1>1, OutsideStep DEF Refuse, wsvars, Lives, WsInv
<1>2. ASSUME NEW joins \in BOOLEAN, Start(joins) PROVE WsInv' /\ Lives
  BY <1>2, StartStep DEF Lives, Start
<1>3. ASSUME NEW fin \in BOOLEAN, NEW mask \in BOOLEAN, NEW opcode \in Opcode,
             NEW size \in 0 .. MaxPayload, NEW length \in {"Mask", "Len16", "Len64"},
             ReadMiniHeader(fin, opcode, mask, size, length)
      PROVE  WsInv' /\ Lives
  BY <1>3, ReadMiniHeaderStep DEF Lives, ReadMiniHeader, Live, Running
<1>4. ASSUME NEW fin \in BOOLEAN, NEW opcode \in Opcode, ReadHalfHeader(fin, opcode)
      PROVE  WsInv' /\ Lives
  BY <1>4, ReadHalfHeaderStep DEF Lives, ReadHalfHeader, Live, Running
<1>5. ASSUME NEW size \in 0 .. MaxPayload, ReadLength(size) PROVE WsInv' /\ Lives
  BY <1>5, ReadLengthStep DEF Lives, ReadLength, Live, Running
<1>6. ASSUME ReadMask PROVE WsInv' /\ Lives
  BY <1>6, ReadMaskStep DEF Lives, ReadMask, Live, Running
<1>7. ASSUME NEW n \in 0 .. MaxPayload, ReadPayload(n) PROVE WsInv' /\ Lives
  BY <1>7, ReadPayloadStep DEF Lives, ReadPayload, Live, Running
<1>8. ASSUME ReadFails PROVE WsInv' /\ Lives
  BY <1>8, ReadFailsStep DEF Lives, ReadFails, Running
<1>9. ASSUME NEW ok \in BOOLEAN, WriteCompletes(ok) PROVE WsInv' /\ Lives
  BY <1>9, WriteCompletesStep DEF Lives, WriteCompletes, Running
<1>10. ASSUME RunPosted PROVE WsInv' /\ Lives
  BY <1>10, RunPostedStep DEF Lives
<1>11. ASSUME Delete PROVE WsInv' /\ Lives
  BY <1>11, DeleteStep DEF Lives
<1>12. ASSUME SendBinary PROVE WsInv' /\ Lives
  BY <1>12, OutsideStep DEF SendBinary, Running, Lives, WsInv
<1>13. ASSUME LinkBreaks \/ NextPeer PROVE WsInv' /\ Lives
  <2>1. /\ conn' = conn /\ expected' = expected /\ posted' = posted
        /\ link' \in {"up", "down"}
    BY <1>13 DEF LinkBreaks, NextPeer
  <2>2. WsInv'
    BY <2>1, OutsideStep
  <2> QED
    BY <2>1, <2>2 DEF Lives
<1>14. ASSUME UNCHANGED wsvars PROVE WsInv' /\ Lives
  BY <1>14, OutsideStep DEF wsvars, Lives, WsInv
<1> QED
  BY <1>1, <1>2, <1>3, <1>4, <1>5, <1>6, <1>7, <1>8, <1>9, <1>10, <1>11, <1>12, <1>13, <1>14
     DEF WsNext

(* The invariant holds always. *)
LEMMA WsInvariant == WsSpec => []WsInv
<1> QED
  BY WsInitInv, WsStep, PTL DEF WsSpec

-----------------------------------------------------------------------------
(* The members of the object keep to their types in any order of frames,   *)
(* callbacks and posted tasks, whatever the bounds.                        *)
THEOREM WsTypeCorrect == WsSpec => []WsTypeOK
<1>1. WsInv => WsTypeOK
  BY DEF WsInv, WsTypeOK, Sound, Object, Piece
<1> QED
  BY <1>1, WsInvariant, PTL

(* check_destroy deletes the object only when no read or write is          *)
(* outstanding and the close handler has freed the name.                   *)
THEOREM NothingLeftCorrect == WsSpec => []NothingLeftBehind
<1>1. WsInv => NothingLeftBehind
  <2> SUFFICES ASSUME WsInv, ~conn.alive \/ conn.deleting
               PROVE  ~conn.reading /\ ~conn.writing /\ conn.userdata = "null"
    BY DEF NothingLeftBehind
  <2>1. CASE ~conn.alive
    BY <2>1 DEF WsInv, Fresh
  <2>2. CASE conn.deleting
    BY <2>2 DEF WsInv, Sound, Steady
  <2> QED
    BY <2>1, <2>2
<1> QED
  BY <1>1, WsInvariant, PTL

(* do_write has one write in flight, leaves no frame waiting without one,  *)
(* and sends the 101 answer first.                                         *)
THEOREM WritesCorrect == WsSpec => []WritesInOrder
<1>1. WsInv => WritesInOrder
  BY DEF WsInv, WritesInOrder, Sound, Steady, NoneWaits, Object
<1> QED
  BY <1>1, WsInvariant, PTL

(* Control frames between the fragments of a message add nothing to it and *)
(* take nothing away, in frames and messages of any length.                *)
THEOREM MessageCorrect == WsSpec => []MessageIntact
<1>1. WsInv => MessageIntact
  BY DEF WsInv, MessageIntact, Intact, OnlyData
<1> QED
  BY <1>1, WsInvariant, PTL

(* The object lives as ConnectionLife says, which is all that the registry *)
(* assumes of it.                                                          *)
THEOREM LifeCorrect == WsSpec => ImplementsLife
<1>1. WsInit => Contract!LifeInit
  BY DEF WsInit, Contract!LifeInit, LifeOf, Fresh
<1>2. WsInv /\ [WsNext]_wsvars => [Contract!LifeNext]_([c \in {theConn} |-> LifeOf(conn)])
  <2> SUFFICES ASSUME WsInv, [WsNext]_wsvars
               PROVE  [Contract!LifeNext]_([c \in {theConn} |-> LifeOf(conn)])
    OBVIOUS
  <2>1. Lives
    BY WsStep
  <2>2. \/ LifeOf(conn') = LifeOf(conn)
        \/ LifeOf(conn) = "free" /\ LifeOf(conn') \in {"open", "rejected"}
        \/ LifeOf(conn) # "free" /\ LifeOf(conn') = "closed"
        \/ LifeOf(conn) = "closed" /\ LifeOf(conn') = "free"
    BY <2>1 DEF Lives, Stays, LifeOf
  <2> QED
    BY <2>2 DEF Contract!LifeNext, Contract!Opens, Contract!ClosesOnce, Contract!Deletes,
                Contract!Moves, Contract!Life, LifeOf
<1> QED
  BY <1>1, <1>2, WsInvariant, PTL DEF WsSpec, ImplementsLife, Contract!LifeSpec
=============================================================================
