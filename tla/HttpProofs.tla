----------------------------- MODULE HttpProofs -----------------------------
(***************************************************************************)
(* Proofs about HttpServer, for any connections, workers, bounds and       *)
(* deadlines: every scheduled deadline is the current one of a connection  *)
(* that exists, and only a connection without a deadline takes another     *)
(* one's.                                                                  *)
(*                                                                         *)
(* Neither is inductive alone.  A handler acts on whatever object its      *)
(* queue entry names, so the queues have to agree with the places of the   *)
(* objects (Queued, Placed); and ids tell tasks apart only because         *)
(* they are given out in order (Numbered), whoever holds an older one      *)
(* being closed or robbed (Guarded).                                       *)
(*                                                                         *)
(* At the end, the loop that accepts: HttpServer implements AcceptLoop, so *)
(* that its workers stay balanced, and the types of HttpServer, for which  *)
(* the ages of the deadlines need a bound (Aged).                          *)
(***************************************************************************)
EXTENDS HttpServer, SequenceTheorems, FiniteSetTheorems, TLAPS

Occupied == {"reading", "arrived"}

Objects == [place : Place, worker : Worker \cup {NoWorker}, open : BOOLEAN, task_id : Nat]

Timers == [tasks : SUBSET [id : Nat, owner : Conn, age : Nat], highest : Nat]

Types ==
  /\ conn \in [Conn -> Objects]
  /\ ready \in [Worker -> Seq(Handler)]
  /\ timer \in [Worker -> Timers]
  /\ context_idx \in Worker \cup {NoWorker}
  /\ prepared \in Nat
  /\ prepared = 0 => context_idx = NoWorker

(* An object waits for its client on the worker the accept is prepared     *)
(* for, alone; later it is on a worker for good.  It has no id before its  *)
(* first deadline.                                                         *)
PlacedRight(c) ==
  /\ conn[c].place = "accepting" =>
       conn[c].worker = context_idx /\ context_idx \in Worker
  /\ conn[c].place \in {"accepting", "starting"} => conn[c].task_id = 0
  /\ conn[c].place \in {"starting", "reading", "arrived"} => conn[c].worker \in Worker

Placed ==
  /\ \A c \in Conn : PlacedRight(c)
  /\ \A c, d \in Accepting : c = d

(* A queued handler finds its connection where it was when it was queued,  *)
(* and none has two.                                                       *)
PlaceFor(kind) == IF kind = "start" THEN "starting" ELSE "arrived"

HandlerRight(conns, h, w) ==
  h.kind # "tick" =>
    conns[h.conn].place = PlaceFor(h.kind) /\ conns[h.conn].worker = w

SameConn(g, h) == g.kind # "tick" /\ h.kind # "tick" /\ g.conn = h.conn

QueueRight(conns, q, w) ==
  /\ \A i \in 1 .. Len(q) : HandlerRight(conns, q[i], w)
  /\ \A i, j \in 1 .. Len(q) : SameConn(q[i], q[j]) => i = j

Queued == \A w \in Worker : QueueRight(conn, ready[w], w)

(* Ids are given out in order. *)
Numbered ==
  \A w \in Worker :
    /\ \A t \in timer[w].tasks : 1 <= t.id /\ t.id <= timer[w].highest
    /\ \A t, u \in timer[w].tasks : t.id = u.id => t = u

(* Who has no deadline is closed or robbed. *)
HasDeadline(c) == \E t \in timer[conn[c].worker].tasks : t.owner = c

Guarded ==
  \A c \in Conn :
    conn[c].place \in Occupied => ~conn[c].open \/ c \in robbed \/ HasDeadline(c)

HttpInv ==
  Types /\ Placed /\ Queued /\ Numbered /\ DeadlinesOwned /\ Guarded

-----------------------------------------------------------------------------
(* What the queues do.                                                     *)

(* A handler is a tick, or starts or continues a connection.               *)
LEMMA HandlerKinds ==
  ASSUME NEW h \in Handler
  PROVE  \/ h.kind = "tick"
         \/ h.kind \in {"start", "read"} /\ h.conn \in Conn
  BY DEF Handler

(* The places the handlers queued for a connection speak of. *)
Awaited == {"starting", "arrived"}

(* No handler is queued for c. *)
Unqueued(q, c) == \A i \in 1 .. Len(q) : q[i].kind # "tick" => q[i].conn # c

(* What awaits nothing on a worker is not in its queue.                    *)
LEMMA NotAwaitedUnqueued ==
  ASSUME NEW conns, NEW w, NEW q \in Seq(Handler), QueueRight(conns, q, w),
         NEW c, conns[c].place \notin Awaited \/ conns[c].worker # w
  PROVE  Unqueued(q, c)
<1> SUFFICES ASSUME NEW i \in 1 .. Len(q), q[i].kind # "tick", q[i].conn = c
             PROVE  FALSE
  BY DEF Unqueued
<1>1. HandlerRight(conns, q[i], w)
  BY DEF QueueRight
<1> QED
  BY <1>1 DEF HandlerRight, PlaceFor, Awaited

(* Connections that are not in the queue may move. *)
LEMMA QueueKeeps ==
  ASSUME NEW conns, NEW moved, NEW w, NEW q \in Seq(Handler),
         QueueRight(conns, q, w),
         \A d \in Conn : \/ Unqueued(q, d)
                        \/ /\ moved[d].place = conns[d].place
                           /\ moved[d].worker = conns[d].worker
  PROVE  QueueRight(moved, q, w)
<1> SUFFICES ASSUME NEW i \in 1 .. Len(q), q[i].kind # "tick"
             PROVE  HandlerRight(moved, q[i], w)
  BY DEF QueueRight, HandlerRight
<1>1. q[i] \in Handler
  BY ElementOfSeq
<1>2. q[i].conn \in Conn /\ ~Unqueued(q, q[i].conn)
  BY <1>1, HandlerKinds DEF Unqueued
<1>3. HandlerRight(conns, q[i], w)
  BY DEF QueueRight
<1> QED
  BY <1>2, <1>3 DEF HandlerRight

(* The handler that runs leaves none for its connection behind. *)
LEMMA QueueLoses ==
  ASSUME NEW conns, NEW w, NEW q \in Seq(Handler), q # <<>>, QueueRight(conns, q, w)
  PROVE  /\ Tail(q) \in Seq(Handler)
         /\ QueueRight(conns, Tail(q), w)
         /\ Head(q).kind # "tick" => Unqueued(Tail(q), Head(q).conn)
<1>1. /\ Tail(q) \in Seq(Handler)
      /\ Len(q) \in Nat /\ Len(Tail(q)) = Len(q) - 1
      /\ \A i \in 1 .. Len(Tail(q)) : Tail(q)[i] = q[i + 1]
      /\ Head(q) = q[1]
  BY HeadTailProperties, LenProperties
<1>2. \A i \in 1 .. Len(Tail(q)) : i + 1 \in 1 .. Len(q) /\ i + 1 # 1 /\ 1 \in 1 .. Len(q)
  BY <1>1
<1>3. QueueRight(conns, Tail(q), w)
  BY <1>1, <1>2 DEF QueueRight
<1>4. ASSUME NEW i \in 1 .. Len(Tail(q)), SameConn(Tail(q)[i], Head(q))
      PROVE  FALSE
  <2>1. SameConn(q[i + 1], q[1])
    BY <1>1, <1>4
  <2>2. i + 1 = 1
    BY <1>2, <2>1 DEF QueueRight
  <2> QED
    BY <1>2, <2>2
<1> QED
  BY <1>1, <1>3, <1>4 DEF Unqueued, SameConn

(* Handlers for connections that have none are queued. *)
LEMMA QueueGains ==
  ASSUME NEW conns, NEW w, NEW q \in Seq(Handler), NEW s \in Seq(Handler),
         QueueRight(conns, q, w), QueueRight(conns, s, w),
         \A i \in 1 .. Len(s) : s[i].kind # "tick" => Unqueued(q, s[i].conn)
  PROVE  q \o s \in Seq(Handler) /\ QueueRight(conns, q \o s, w)
<1>1. /\ q \o s \in Seq(Handler)
      /\ Len(q) \in Nat /\ Len(s) \in Nat /\ Len(q \o s) = Len(q) + Len(s)
      /\ \A i \in 1 .. Len(q) + Len(s) :
           (q \o s)[i] = IF i <= Len(q) THEN q[i] ELSE s[i - Len(q)]
  BY ConcatProperties, LenProperties
<1>2. ASSUME NEW i \in 1 .. Len(q \o s)
      PROVE  \/ i \in 1 .. Len(q) /\ (q \o s)[i] = q[i]
             \/ /\ i > Len(q) /\ i - Len(q) \in 1 .. Len(s)
                /\ (q \o s)[i] = s[i - Len(q)]
  BY <1>1
<1>3. ASSUME NEW i \in 1 .. Len(q \o s) PROVE HandlerRight(conns, (q \o s)[i], w)
  BY <1>2 DEF QueueRight
<1>4. ASSUME NEW i \in 1 .. Len(q), NEW j \in 1 .. Len(s)
      PROVE  ~SameConn(q[i], s[j]) /\ ~SameConn(s[j], q[i])
  BY DEF SameConn, Unqueued
<1>5. ASSUME NEW i \in 1 .. Len(q \o s), NEW j \in 1 .. Len(q \o s),
             SameConn((q \o s)[i], (q \o s)[j])
      PROVE  i = j
  <2>1. CASE i \in 1 .. Len(q) /\ (q \o s)[i] = q[i]
    <3>1. j \in 1 .. Len(q) /\ (q \o s)[j] = q[j]
      BY <1>2, <1>4, <1>5, <2>1
    <3> QED
      BY <1>5, <2>1, <3>1 DEF QueueRight
  <2>2. CASE i > Len(q) /\ i - Len(q) \in 1 .. Len(s) /\ (q \o s)[i] = s[i - Len(q)]
    <3>1. j > Len(q) /\ j - Len(q) \in 1 .. Len(s) /\ (q \o s)[j] = s[j - Len(q)]
      BY <1>2, <1>4, <1>5, <2>2
    <3>2. SameConn(s[i - Len(q)], s[j - Len(q)])
      BY <1>5, <2>2, <3>1
    <3>3. i - Len(q) = j - Len(q)
      BY <2>2, <3>1, <3>2 DEF QueueRight
    <3>4. i \in Nat /\ j \in Nat
      BY <1>1
    <3> QED
      BY <1>1, <3>3, <3>4
  <2> QED
    BY <1>2, <2>1, <2>2
<1> QED
  BY <1>1, <1>3, <1>5 DEF QueueRight

(* One handler is queued. *)
LEMMA QueueGainsOne ==
  ASSUME NEW conns, NEW w, NEW q \in Seq(Handler), QueueRight(conns, q, w),
         NEW h \in Handler, HandlerRight(conns, h, w),
         h.kind # "tick" => Unqueued(q, h.conn)
  PROVE  Append(q, h) \in Seq(Handler) /\ QueueRight(conns, Append(q, h), w)
<1>1. <<h>> \in Seq(Handler) /\ Len(<<h>>) = 1 /\ <<h>>[1] = h
  OBVIOUS
<1>2. QueueRight(conns, <<h>>, w)
  BY <1>1 DEF QueueRight
<1>3. Append(q, h) = q \o <<h>>
  BY AppendIsConcat
<1>4. \A i \in 1 .. Len(<<h>>) : <<h>>[i].kind # "tick" => Unqueued(q, <<h>>[i].conn)
  BY <1>1
<1>5. /\ q \o <<h>> \in Seq(Handler) /\ QueueRight(conns, q \o <<h>>, w)
  BY <1>1, <1>2, <1>4, QueueGains, Zenon
<1> QED
  BY <1>3, <1>5, Zenon

-----------------------------------------------------------------------------
(* Accepting.                                                              *)

(* Preparing an accept chooses a worker, or finds the server stopped.      *)
LEMMA PrepareContext ==
  ASSUME prepared \in Nat, NEW length, PrepareNext(length)
  PROVE  /\ context_idx' \in Worker \cup {NoWorker}
         /\ prepared' \in Nat
         /\ prepared' = 0 => context_idx' = NoWorker
  BY DEF PrepareNext, Prepare

(* The next object is prepared where none is accepting. *)
LEMMA Allocation ==
  ASSUME NEW conns \in [Conn -> Objects], Allocated(conns),
         context_idx' \in Worker \cup {NoWorker},
         \A c \in Conn : conns[c].place # "accepting"
  PROVE  /\ conn' \in [Conn -> Objects]
         /\ \A c \in Conn :
              \/ conn'[c] = conns[c]
              \/ /\ conns[c].place = "free"
                 /\ context_idx' \in Worker
                 /\ conn'[c] = Object("accepting", context_idx', FALSE, 0)
         /\ \A c, d \in Conn :
              conn'[c].place = "accepting" /\ conn'[d].place = "accepting" => c = d
<1>1. CASE context_idx' = NoWorker
  BY <1>1 DEF Allocated
<1>2. CASE context_idx' # NoWorker
  <2>1. PICK c \in Conn :
           /\ conns[c].place = "free"
           /\ conn' = [conns EXCEPT ![c] = Object("accepting", context_idx', FALSE, 0)]
    BY <1>2 DEF Allocated
  <2>2. Object("accepting", context_idx', FALSE, 0) \in Objects
    BY DEF Object, Objects, Place
  <2>3. conn' \in [Conn -> Objects]
    BY <2>1, <2>2
  <2>4. /\ conn'[c] = Object("accepting", context_idx', FALSE, 0)
        /\ \A d \in Conn \ {c} : conn'[d] = conns[d]
    BY <2>1
  <2> QED
    BY <1>2, <2>1, <2>3, <2>4
<1> QED
  BY <1>1, <1>2

(* What leaves the connections with deadlines alone keeps the facts about  *)
(* deadlines.                                                              *)
SameDeadline(c) ==
  conn[c].place \in Occupied \/ conn'[c].place \in Occupied =>
    /\ conn[c].place \in Occupied /\ conn'[c].place \in Occupied
    /\ conn'[c].worker = conn[c].worker
    /\ conn'[c].task_id = conn[c].task_id
    /\ conn'[c].open = conn[c].open

(* A step that leaves timers and deadlines alone keeps their invariants.   *)
LEMMA TimersKeep ==
  ASSUME Types, Numbered, DeadlinesOwned, Guarded, timer' = timer, robbed' = robbed,
         \A c \in Conn : SameDeadline(c)
  PROVE  Numbered' /\ DeadlinesOwned' /\ Guarded'
<1>1. Numbered'
  BY DEF Numbered
<1>2. DeadlinesOwned'
  <2> SUFFICES ASSUME NEW w \in Worker, NEW t \in timer[w].tasks
               PROVE  /\ conn'[t.owner].place \in Occupied
                      /\ conn'[t.owner].worker = w
                      /\ conn'[t.owner].task_id = t.id
    BY DEF DeadlinesOwned, Occupied
  <2>1. t.owner \in Conn
    BY DEF Types, Timers
  <2>2. conn[t.owner].place \in Occupied /\ conn[t.owner].worker = w
          /\ conn[t.owner].task_id = t.id
    BY DEF DeadlinesOwned, Occupied
  <2> QED
    BY <2>1, <2>2 DEF SameDeadline
<1>3. Guarded'
  BY DEF Guarded, HasDeadline, SameDeadline
<1> QED
  BY <1>1, <1>2, <1>3

(* The accept that was prepared becomes a connection to start, or nothing. *)
Dealt(conns, d) ==
  /\ conns[d].place # "accepting"
  /\ \/ conns[d] = conn[d]
     \/ /\ conn[d].place = "accepting"
        /\ \/ conns[d] = Fresh
           \/ context_idx \in Worker /\ conns[d] = Object("starting", context_idx, TRUE, 0)

(* What the accept loop does to objects that wait for no handler.          *)
LEMMA AcceptKeeps ==
  ASSUME HttpInv, NEW conns \in [Conn -> Objects], \A d \in Conn : Dealt(conns, d),
         Allocated(conns), context_idx' \in Worker \cup {NoWorker}
  PROVE  /\ conn' \in [Conn -> Objects]
         /\ Placed'
         /\ \A d \in Conn : SameDeadline(d)
         /\ \A w \in Worker : QueueRight(conn', ready[w], w)
         /\ \A d \in Conn : conns[d].place # "free" => conn'[d] = conns[d]
<1>1. /\ conn' \in [Conn -> Objects]
      /\ \A d \in Conn :
           \/ conn'[d] = conns[d]
           \/ /\ conns[d].place = "free"
              /\ context_idx' \in Worker
              /\ conn'[d] = Object("accepting", context_idx', FALSE, 0)
      /\ \A d, e \in Conn :
           conn'[d].place = "accepting" /\ conn'[e].place = "accepting" => d = e
  BY Allocation DEF Dealt
<1>2. ASSUME NEW d \in Conn
      PROVE  /\ PlacedRight(d)'
             /\ SameDeadline(d)
             /\ \/ conn[d].place \notin Awaited
                \/ conn'[d] = conn[d]
  <2>1. PlacedRight(d) /\ Dealt(conns, d)
    BY DEF HttpInv, Placed
  <2>2. CASE conn'[d] = conns[d] /\ conns[d] = conn[d]
    BY <2>1, <2>2 DEF PlacedRight, Dealt, SameDeadline
  <2>3. CASE conn'[d] = conns[d] /\ conn[d].place = "accepting" /\ conns[d] = Fresh
    BY <2>3 DEF PlacedRight, SameDeadline, Fresh, Object, Occupied, Awaited
  <2>4. CASE /\ conn'[d] = conns[d] /\ conn[d].place = "accepting"
             /\ context_idx \in Worker
             /\ conns[d] = Object("starting", context_idx, TRUE, 0)
    BY <2>4 DEF PlacedRight, SameDeadline, Object, Occupied, Awaited
  <2>5. CASE /\ conns[d].place = "free" /\ context_idx' \in Worker
             /\ conn'[d] = Object("accepting", context_idx', FALSE, 0)
    <3>1. conn[d].place \in {"free", "accepting"}
      BY <2>1, <2>5 DEF Dealt
    <3> QED
      BY <2>5, <3>1 DEF PlacedRight, SameDeadline, Object, Occupied, Awaited
  <2> QED
    BY <1>1, <2>1, <2>2, <2>3, <2>4, <2>5 DEF Dealt
<1>3. ASSUME NEW w \in Worker PROVE QueueRight(conn', ready[w], w)
  <2>1. ready[w] \in Seq(Handler) /\ QueueRight(conn, ready[w], w)
    BY DEF HttpInv, Types, Queued
  <2>2. ASSUME NEW d \in Conn
        PROVE  \/ Unqueued(ready[w], d)
               \/ conn'[d].place = conn[d].place /\ conn'[d].worker = conn[d].worker
    BY <1>2, <2>1, NotAwaitedUnqueued
  <2> QED
    BY <2>1, <2>2, QueueKeeps
<1> QED
  BY <1>1, <1>2, <1>3 DEF Placed, Accepting, Dealt

LEMMA BeginStep == HttpInv /\ Begin => HttpInv'
<1> SUFFICES ASSUME HttpInv, Begin PROVE HttpInv'
  OBVIOUS
<1>1. /\ prepared = 0 /\ PrepareNext(queue_length) /\ Allocated(conn)
      /\ ready' = ready /\ timer' = timer /\ robbed' = robbed
  BY DEF Begin, FirstAccept
<1>2. Types /\ Placed /\ NoWorker \notin Worker
  BY AcceptAssumption DEF HttpInv, NoWorker, Worker
<1>3. ASSUME NEW d \in Conn PROVE Dealt(conn, d)
  BY <1>1, <1>2 DEF Types, Placed, PlacedRight, Dealt
<1>4. /\ context_idx' \in Worker \cup {NoWorker} /\ prepared' \in Nat
      /\ prepared' = 0 => context_idx' = NoWorker
  BY <1>1, <1>2, PrepareContext DEF Types
<1>5. /\ conn' \in [Conn -> Objects] /\ Placed'
      /\ \A d \in Conn : SameDeadline(d)
      /\ \A w \in Worker : QueueRight(conn', ready[w], w)
  BY <1>1, <1>2, <1>3, <1>4, AcceptKeeps DEF Types
<1>6. Numbered' /\ DeadlinesOwned' /\ Guarded'
  BY <1>1, <1>5, TimersKeep DEF HttpInv
<1> QED
  BY <1>1, <1>2, <1>4, <1>5, <1>6 DEF HttpInv, Types, Queued

LEMMA ConnectStep ==
  ASSUME HttpInv, NEW c \in Conn, Connect(c)
  PROVE  HttpInv'
<1> DEFINE conns == [conn EXCEPT ![c] = Moved(c, "starting", TRUE, conn[c].task_id)]
           h == [kind |-> "start", conn |-> c]
<1>1. /\ c \in Accepting /\ context_idx \in Worker /\ PrepareNext(queue_length)
      /\ ready' = [ready EXCEPT ![context_idx] = Append(@, h)]
      /\ Allocated(conns) /\ timer' = timer /\ robbed' = robbed
  BY DEF Connect, Accepted
<1>2. Types /\ Placed
  BY DEF HttpInv
<1>3. conn[c].place = "accepting" /\ conn[c].worker = context_idx /\ conn[c].task_id = 0
  BY <1>1, <1>2 DEF Placed, PlacedRight, Accepting
<1>4. /\ Object("starting", context_idx, TRUE, 0) \in Objects
      /\ Moved(c, "starting", TRUE, conn[c].task_id) = Object("starting", context_idx, TRUE, 0)
  BY <1>1, <1>3 DEF Object, Objects, Place, Moved
<1>5. conns \in [Conn -> Objects] /\ conns[c] = Object("starting", context_idx, TRUE, 0)
        /\ \A d \in Conn \ {c} : conns[d] = conn[d]
  BY <1>2, <1>4 DEF Types
<1> HIDE DEF conns
<1>6. conns[c].place = "starting" /\ conns[c].worker = context_idx
  BY <1>5 DEF Object
<1>7. ASSUME NEW d \in Conn PROVE Dealt(conns, d)
  <2>1. CASE d = c
    BY <1>1, <1>3, <1>5, <1>6, <2>1 DEF Dealt
  <2>2. CASE d # c
    BY <1>1, <1>2, <1>5, <2>2 DEF Placed, Accepting, Dealt
  <2> QED
    BY <2>1, <2>2
<1>8. /\ context_idx' \in Worker \cup {NoWorker} /\ prepared' \in Nat
      /\ prepared' = 0 => context_idx' = NoWorker
  BY <1>1, <1>2, PrepareContext DEF Types
<1>9. /\ conn' \in [Conn -> Objects] /\ Placed'
      /\ \A d \in Conn : SameDeadline(d)
      /\ \A w \in Worker : QueueRight(conn', ready[w], w)
      /\ conn'[c] = conns[c]
  BY <1>1, <1>5, <1>6, <1>7, <1>8, AcceptKeeps
<1>10. Numbered' /\ DeadlinesOwned' /\ Guarded'
  BY <1>1, <1>9, TimersKeep DEF HttpInv
<1>11. /\ Append(ready[context_idx], h) \in Seq(Handler)
       /\ QueueRight(conn', Append(ready[context_idx], h), context_idx)
  <2>1. ready[context_idx] \in Seq(Handler) /\ QueueRight(conn, ready[context_idx], context_idx)
    BY <1>1 DEF HttpInv, Types, Queued
  <2>2. Unqueued(ready[context_idx], c)
    BY <1>3, <2>1, NotAwaitedUnqueued DEF Awaited
  <2>3. h \in Handler /\ HandlerRight(conn', h, context_idx)
    BY <1>6, <1>9 DEF Handler, HandlerRight, PlaceFor
  <2> QED
    BY <1>1, <1>9, <2>1, <2>2, <2>3, QueueGainsOne
<1>12. ready' \in [Worker -> Seq(Handler)] /\ Queued'
  BY <1>1, <1>2, <1>9, <1>11 DEF Types, Queued
<1> QED
  BY <1>1, <1>2, <1>8, <1>9, <1>10, <1>12 DEF HttpInv, Types

LEMMA ConnectFailsStep ==
  ASSUME HttpInv, NEW c \in Conn, ConnectFails(c)
  PROVE  HttpInv'
<1> DEFINE conns == [conn EXCEPT ![c] = Fresh]
           lengths == [queue_length EXCEPT ![context_idx] = @ - 1]
<1>1. /\ c \in Accepting /\ context_idx \in Worker /\ PrepareNext(lengths)
      /\ Allocated(conns) /\ ready' = ready /\ timer' = timer /\ robbed' = robbed
  BY DEF ConnectFails, AcceptFails
<1>2. Types /\ Placed
  BY DEF HttpInv
<1>3. Fresh \in Objects /\ Fresh.place = "free"
  BY DEF Fresh, Object, Objects, Place
<1>4. conns \in [Conn -> Objects] /\ conns[c] = Fresh
        /\ \A d \in Conn \ {c} : conns[d] = conn[d]
  BY <1>2, <1>3 DEF Types
<1> HIDE DEF conns, lengths
<1>5. ASSUME NEW d \in Conn PROVE Dealt(conns, d)
  <2>1. CASE d = c
    BY <1>1, <1>3, <1>4, <2>1 DEF Dealt, Accepting
  <2>2. CASE d # c
    BY <1>1, <1>2, <1>4, <2>2 DEF Placed, Accepting, Dealt
  <2> QED
    BY <2>1, <2>2
<1>6. /\ context_idx' \in Worker \cup {NoWorker} /\ prepared' \in Nat
      /\ prepared' = 0 => context_idx' = NoWorker
  BY <1>1, <1>2, PrepareContext DEF Types
<1>7. /\ conn' \in [Conn -> Objects] /\ Placed'
      /\ \A d \in Conn : SameDeadline(d)
      /\ \A w \in Worker : QueueRight(conn', ready[w], w)
  BY <1>1, <1>4, <1>5, <1>6, AcceptKeeps
<1>8. Numbered' /\ DeadlinesOwned' /\ Guarded'
  BY <1>1, <1>7, TimersKeep DEF HttpInv
<1> QED
  BY <1>1, <1>2, <1>6, <1>7, <1>8 DEF HttpInv, Types, Queued

-----------------------------------------------------------------------------
(* What the reactor and a shutdown do.                                     *)

LEMMA ShutdownStep == HttpInv /\ (Shutdown \/ UNCHANGED vars) => HttpInv'
<1> SUFFICES ASSUME HttpInv, Shutdown \/ UNCHANGED vars PROVE HttpInv'
  OBVIOUS
<1>1. /\ conn' = conn /\ ready' = ready /\ timer' = timer /\ robbed' = robbed
      /\ context_idx' = context_idx /\ prepared' = prepared
  BY DEF Shutdown, Stop, vars, httpvars, acceptvars
<1>2. Types' /\ Placed' /\ Queued'
  BY <1>1 DEF HttpInv, Types, Placed, PlacedRight, Accepting, Queued
<1>3. \A c \in Conn : SameDeadline(c)
  BY <1>1 DEF SameDeadline
<1> QED
  BY <1>1, <1>2, <1>3, TimersKeep DEF HttpInv

LEMMA TimerExpiresStep ==
  ASSUME HttpInv, NEW w \in Worker, TimerExpires(w)
  PROVE  HttpInv'
<1> DEFINE h == [kind |-> "tick"]
<1>1. /\ conn' = conn /\ timer' = timer /\ robbed' = robbed
      /\ context_idx' = context_idx /\ prepared' = prepared
      /\ ready' = [ready EXCEPT ![w] = Append(@, h)]
  BY DEF TimerExpires, acceptvars
<1>2. Types
  BY DEF HttpInv
<1>3. ready[w] \in Seq(Handler) /\ QueueRight(conn, ready[w], w)
  BY DEF HttpInv, Types, Queued
<1>4. h \in Handler /\ h.kind = "tick" /\ HandlerRight(conn, h, w)
  BY DEF Handler, HandlerRight
<1>5. Append(ready[w], h) \in Seq(Handler) /\ QueueRight(conn, Append(ready[w], h), w)
  BY <1>3, <1>4, QueueGainsOne
<1>6. Types' /\ Placed' /\ Queued'
  BY <1>1, <1>5 DEF HttpInv, Types, Placed, PlacedRight, Accepting, Queued
<1>7. \A c \in Conn : SameDeadline(c)
  BY <1>1 DEF SameDeadline
<1> QED
  BY <1>1, <1>2, <1>6, <1>7, TimersKeep DEF HttpInv

LEMMA ReadCompletesStep ==
  ASSUME HttpInv, NEW c \in Conn, ReadCompletes(c)
  PROVE  HttpInv'
<1> DEFINE h == [kind |-> "read", conn |-> c]
           w == conn[c].worker
<1>1. /\ conn[c].place = "reading" /\ conn' = [conn EXCEPT ![c].place = "arrived"]
      /\ timer' = timer /\ robbed' = robbed
      /\ context_idx' = context_idx /\ prepared' = prepared
      /\ ready' = [ready EXCEPT ![w] = Append(@, h)]
  BY DEF ReadCompletes, Waiting, acceptvars
<1>2. Types /\ Placed /\ w \in Worker
  BY <1>1 DEF HttpInv, Placed, PlacedRight
<1>3. /\ conn' \in [Conn -> Objects]
      /\ conn'[c].place = "arrived" /\ conn'[c].worker = w
      /\ conn'[c].open = conn[c].open /\ conn'[c].task_id = conn[c].task_id
      /\ \A d \in Conn \ {c} : conn'[d] = conn[d]
  BY <1>1, <1>2 DEF Types, Objects, Place
<1> HIDE DEF w
<1>4. ASSUME NEW v \in Worker PROVE QueueRight(conn', ready[v], v)
  <2>1. ready[v] \in Seq(Handler) /\ QueueRight(conn, ready[v], v)
    BY DEF HttpInv, Types, Queued
  <2>2. Unqueued(ready[v], c)
    BY <1>1, <2>1, NotAwaitedUnqueued DEF Awaited
  <2>3. ASSUME NEW d \in Conn
        PROVE  \/ Unqueued(ready[v], d)
               \/ conn'[d].place = conn[d].place /\ conn'[d].worker = conn[d].worker
    BY <1>3, <2>2
  <2> QED
    BY <2>1, <2>3, QueueKeeps
<1>5. Append(ready[w], h) \in Seq(Handler) /\ QueueRight(conn', Append(ready[w], h), w)
  <2>1. ready[w] \in Seq(Handler) /\ QueueRight(conn, ready[w], w)
    BY <1>2 DEF HttpInv, Types, Queued
  <2>2. Unqueued(ready[w], c)
    BY <1>1, <2>1, NotAwaitedUnqueued DEF Awaited
  <2>3. h \in Handler /\ HandlerRight(conn', h, w)
    BY <1>3 DEF Handler, HandlerRight, PlaceFor
  <2> QED
    BY <1>2, <1>4, <2>1, <2>2, <2>3, QueueGainsOne
<1>6. Types' /\ Queued'
  BY <1>1, <1>2, <1>3, <1>4, <1>5 DEF Types, Queued
<1>7. Placed'
  BY <1>1, <1>2, <1>3 DEF Placed, PlacedRight, Accepting
<1>8. \A d \in Conn : SameDeadline(d)
  BY <1>1, <1>3 DEF SameDeadline, Occupied
<1> QED
  BY <1>1, <1>2, <1>6, <1>7, <1>8, TimersKeep DEF HttpInv

-----------------------------------------------------------------------------
(* What a handler does to its worker's timer.                              *)

(* Only the holder of an id without a task robs. *)
LEMMA Robbery ==
  ASSUME HttpInv, NEW c \in Conn, conn[c].place \in Awaited
  PROVE  \A v \in Victims(c) :
           /\ v \in Conn \ {c}
           /\ conn[c].place = "arrived"
           /\ ~conn[c].open \/ c \in robbed
           /\ conn[c].task_id = conn[v].task_id
           /\ conn[c].worker = conn[v].worker
<1> SUFFICES ASSUME NEW v \in Victims(c)
             PROVE  /\ v \in Conn \ {c}
                    /\ conn[c].place = "arrived"
                    /\ ~conn[c].open \/ c \in robbed
                    /\ conn[c].task_id = conn[v].task_id
                    /\ conn[c].worker = conn[v].worker
  OBVIOUS
<1> DEFINE w == conn[c].worker
<1>1. w \in Worker /\ (conn[c].place = "starting" => conn[c].task_id = 0)
  BY DEF HttpInv, Placed, PlacedRight, Awaited
<1>2. PICK t \in timer[w].tasks : t.id = conn[c].task_id /\ t.owner # c /\ t.owner = v
  BY DEF Victims
<1> HIDE DEF w
<1>3. t.owner \in Conn /\ t.id \in Nat /\ 1 <= t.id
  BY <1>1, <1>2 DEF HttpInv, Types, Timers, Numbered
<1>4. conn[v].worker = w /\ conn[v].task_id = t.id
  BY <1>1, <1>2 DEF HttpInv, DeadlinesOwned
<1>5. conn[c].place = "arrived"
  BY <1>1, <1>2, <1>3 DEF Awaited
<1>6. ~HasDeadline(c)
  <2> SUFFICES ASSUME NEW u \in timer[w].tasks, u.owner = c PROVE FALSE
    BY DEF HasDeadline, w
  <2>1. u.id = t.id
    BY <1>1, <1>2 DEF HttpInv, DeadlinesOwned
  <2>2. u = t
    BY <1>1, <2>1 DEF HttpInv, Numbered
  <2> QED
    BY <1>2, <2>2
<1>7. ~conn[c].open \/ c \in robbed
  BY <1>5, <1>6 DEF HttpInv, Guarded, Occupied
<1> QED
  BY <1>2, <1>3, <1>4, <1>5, <1>7 DEF w

(* Cancelling by its id takes c's own task, and those of its victims. *)
LEMMA Cancelling ==
  ASSUME HttpInv, NEW c \in Conn, NEW w, w = conn[c].worker, w \in Worker
  PROVE  /\ Cancel(timer[w], conn[c].task_id).highest = timer[w].highest
         /\ Cancel(timer[w], conn[c].task_id).tasks
              = {t \in timer[w].tasks : t.id # conn[c].task_id}
         /\ \A t \in timer[w].tasks :
              IF t.id # conn[c].task_id THEN t.owner # c
              ELSE t.owner = c \/ t.owner \in Victims(c)
<1>1. timer[w] \in Timers
  BY DEF HttpInv, Types
<1>2. /\ Cancel(timer[w], conn[c].task_id).highest = timer[w].highest
      /\ Cancel(timer[w], conn[c].task_id).tasks
           = {t \in timer[w].tasks : t.id # conn[c].task_id}
  BY <1>1 DEF Cancel, Timers
<1>3. ASSUME NEW t \in timer[w].tasks, t.owner = c PROVE t.id = conn[c].task_id
  BY <1>3 DEF HttpInv, DeadlinesOwned
<1>4. ASSUME NEW t \in timer[w].tasks, t.id = conn[c].task_id, t.owner # c
      PROVE  t.owner \in Victims(c)
  BY <1>4 DEF Victims
<1> QED
  BY <1>2, <1>3, <1>4

(* A read with a new deadline: one object moves, one timer changes.        *)
LEMMA AwaitKeeps ==
  ASSUME HttpInv, NEW c \in Conn, conn[c].place \in Awaited, Await(c)
  PROVE  /\ conn' \in [Conn -> Objects]
         /\ conn'[c].place = "reading" /\ conn'[c].worker = conn[c].worker
         /\ conn[c].worker \in Worker
         /\ \A d \in Conn \ {c} : conn'[d] = conn[d]
         /\ timer' \in [Worker -> Timers]
         /\ Numbered' /\ DeadlinesOwned' /\ Guarded'
<1> DEFINE w == conn[c].worker
           id == timer[w].highest + 1
           task == [id |-> id, owner |-> c, age |-> 0]
           kept == {t \in timer[w].tasks : t.id # conn[c].task_id}
<1>1. w \in Worker
  BY DEF HttpInv, Placed, PlacedRight, Awaited
<1>2. conn \in [Conn -> Objects] /\ timer \in [Worker -> Timers] /\ timer[w] \in Timers
  BY <1>1 DEF HttpInv, Types
<1>3. /\ Cancel(timer[w], conn[c].task_id).highest = timer[w].highest
      /\ Cancel(timer[w], conn[c].task_id).tasks = kept
      /\ \A t \in timer[w].tasks :
           IF t.id # conn[c].task_id THEN t.owner # c
           ELSE t.owner = c \/ t.owner \in Victims(c)
  BY <1>1, Cancelling
<1>4. Schedule(Cancel(timer[w], conn[c].task_id), c)
        = [tasks |-> kept \cup {task}, highest |-> id]
  BY <1>3 DEF Schedule
<1>5. /\ timer' = [timer EXCEPT ![w] = [tasks |-> kept \cup {task}, highest |-> id]]
      /\ robbed' = (robbed \cup Victims(c)) \ {c}
      /\ conn' = [conn EXCEPT ![c] = Moved(c, "reading", conn[c].open, id)]
  BY <1>4 DEF Await
<1>6. id \in Nat /\ task \in [id : Nat, owner : Conn, age : Nat]
  BY <1>2 DEF Timers
<1>7. /\ timer' \in [Worker -> Timers]
      /\ timer'[w].tasks = kept \cup {task} /\ timer'[w].highest = id
      /\ \A v \in Worker \ {w} : timer'[v] = timer[v]
  BY <1>1, <1>2, <1>5, <1>6 DEF Timers
<1>8. Moved(c, "reading", conn[c].open, id) \in Objects
  <2>1. conn[c].open \in BOOLEAN /\ w \in Worker \cup {NoWorker}
    BY <1>1, <1>2, Zenon DEF Objects
  <2> QED
    BY <1>6, <2>1 DEF Moved, Object, Objects, Place
<1>9. /\ conn' \in [Conn -> Objects]
      /\ conn'[c].place = "reading" /\ conn'[c].worker = w /\ conn'[c].task_id = id
      /\ \A d \in Conn \ {c} : conn'[d] = conn[d]
  BY <1>2, <1>5, <1>8 DEF Moved, Object
<1>10. \A t \in timer[w].tasks : t \in [id : Nat, owner : Conn, age : Nat] /\ t.id < id /\ 1 <= t.id
  BY <1>1, <1>2 DEF HttpInv, Numbered, Timers
<1>11. /\ \A t, u \in timer[w].tasks : t.id = u.id => t = u
       /\ timer[w].highest \in Nat /\ task.id = id /\ task.owner = c
  BY <1>1, <1>2 DEF HttpInv, Numbered, Timers
<1> HIDE DEF w, id, task
<1>12. Numbered'
  <2> SUFFICES ASSUME NEW v \in Worker
               PROVE  /\ \A t \in timer'[v].tasks : 1 <= t.id /\ t.id <= timer'[v].highest
                      /\ \A t, u \in timer'[v].tasks : t.id = u.id => t = u
    BY DEF Numbered
  <2>1. CASE v = w
    <3>1. id = timer[w].highest + 1
      BY DEF id
    <3>2. \A t \in kept \cup {task} : 1 <= t.id /\ t.id <= id
      BY <1>6, <1>10, <1>11, <3>1
    <3>3. \A t, u \in kept \cup {task} : t.id = u.id => t = u
      BY <1>6, <1>10, <1>11
    <3> QED
      BY <1>7, <2>1, <3>2, <3>3
  <2>2. CASE v # w
    BY <1>7, <2>2 DEF HttpInv, Numbered
  <2> QED
    BY <2>1, <2>2
<1>13. DeadlinesOwned'
  <2> SUFFICES ASSUME NEW v \in Worker, NEW t \in timer'[v].tasks
               PROVE  /\ conn'[t.owner].place \in Occupied
                      /\ conn'[t.owner].worker = v
                      /\ conn'[t.owner].task_id = t.id
    BY DEF DeadlinesOwned, Occupied
  <2>1. CASE v = w /\ t = task
    BY <1>9, <1>11, <2>1 DEF Occupied
  <2>2. CASE t \in timer[v].tasks /\ (v = w => t \in kept)
    <3>1. t.owner \in Conn
      BY <1>2, <2>2 DEF Timers
    <3>2. conn[t.owner].place \in Occupied /\ conn[t.owner].worker = v
            /\ conn[t.owner].task_id = t.id
      BY <2>2 DEF HttpInv, DeadlinesOwned, Occupied
    <3>3. t.owner # c
      BY <1>3, <2>2, <3>2 DEF w
    <3> QED
      BY <1>9, <3>1, <3>2, <3>3
  <2> QED
    BY <1>7, <2>1, <2>2
<1>14. Guarded'
  <2> SUFFICES ASSUME NEW d \in Conn, conn'[d].place \in Occupied, conn'[d].open,
                      d \notin robbed'
               PROVE  \E t \in timer'[conn'[d].worker].tasks : t.owner = d
    BY DEF Guarded, HasDeadline
  <2>1. CASE d = c
    BY <1>7, <1>9, <1>11, <2>1
  <2>2. CASE d # c
    <3>1. conn'[d] = conn[d] /\ d \notin robbed /\ d \notin Victims(c)
      BY <1>5, <1>9, <2>2
    <3>2. PICK t \in timer[conn[d].worker].tasks : t.owner = d
      BY <3>1 DEF HttpInv, Guarded, HasDeadline
    <3>3. conn[d].worker \in Worker
      BY <3>1 DEF HttpInv, Placed, PlacedRight, Occupied
    <3>4. t \in timer'[conn[d].worker].tasks
      BY <1>3, <1>7, <2>2, <3>1, <3>2, <3>3
    <3> QED
      BY <3>1, <3>2, <3>4
  <2> QED
    BY <2>1, <2>2
<1> QED
  BY <1>1, <1>7, <1>9, <1>12, <1>13, <1>14 DEF w

(* The end of a connection: its object is free, its deadline cancelled.    *)
LEMMA EndKeeps ==
  ASSUME HttpInv, NEW c \in Conn, conn[c].place \in Awaited, End(c)
  PROVE  /\ conn' \in [Conn -> Objects]
         /\ conn'[c].place = "free"
         /\ conn[c].worker \in Worker
         /\ \A d \in Conn \ {c} : conn'[d] = conn[d]
         /\ timer' \in [Worker -> Timers]
         /\ Numbered' /\ DeadlinesOwned' /\ Guarded'
<1> DEFINE w == conn[c].worker
           kept == {t \in timer[w].tasks : t.id # conn[c].task_id}
<1>1. w \in Worker
  BY DEF HttpInv, Placed, PlacedRight, Awaited
<1>2. conn \in [Conn -> Objects] /\ timer \in [Worker -> Timers] /\ timer[w] \in Timers
  BY <1>1 DEF HttpInv, Types
<1>3. /\ Cancel(timer[w], conn[c].task_id).highest = timer[w].highest
      /\ Cancel(timer[w], conn[c].task_id).tasks = kept
      /\ \A t \in timer[w].tasks :
           IF t.id # conn[c].task_id THEN t.owner # c
           ELSE t.owner = c \/ t.owner \in Victims(c)
  BY <1>1, Cancelling
<1>4. /\ timer' = [timer EXCEPT ![w] = Cancel(timer[w], conn[c].task_id)]
      /\ robbed' = (robbed \cup Victims(c)) \ {c}
      /\ conn' = [conn EXCEPT ![c] = Fresh]
  BY DEF End
<1>5. Cancel(timer[w], conn[c].task_id) \in Timers
  BY <1>2 DEF Cancel, Timers
<1>6. /\ timer' \in [Worker -> Timers]
      /\ timer'[w].tasks = kept /\ timer'[w].highest = timer[w].highest
      /\ \A v \in Worker \ {w} : timer'[v] = timer[v]
  BY <1>1, <1>2, <1>3, <1>4, <1>5
<1>7. Fresh \in Objects /\ Fresh.place = "free"
  BY DEF Fresh, Object, Objects, Place
<1>8. /\ conn' \in [Conn -> Objects]
      /\ conn'[c].place = "free"
      /\ \A d \in Conn \ {c} : conn'[d] = conn[d]
  BY <1>2, <1>4, <1>7
<1> HIDE DEF w
<1>9. \A v \in Worker : timer'[v].tasks \subseteq timer[v].tasks /\ timer'[v].highest = timer[v].highest
  BY <1>6
<1>10. Numbered'
  BY <1>9 DEF HttpInv, Numbered
<1>11. DeadlinesOwned'
  <2> SUFFICES ASSUME NEW v \in Worker, NEW t \in timer'[v].tasks
               PROVE  /\ conn'[t.owner].place \in Occupied
                      /\ conn'[t.owner].worker = v
                      /\ conn'[t.owner].task_id = t.id
    BY DEF DeadlinesOwned, Occupied
  <2>1. t \in timer[v].tasks /\ (v = w => t \in kept)
    BY <1>6, <1>9
  <2>2. t.owner \in Conn
    BY <1>2, <2>1 DEF Timers
  <2>3. conn[t.owner].place \in Occupied /\ conn[t.owner].worker = v
          /\ conn[t.owner].task_id = t.id
    BY <2>1 DEF HttpInv, DeadlinesOwned, Occupied
  <2>4. t.owner # c
    BY <1>3, <2>1, <2>3 DEF w
  <2> QED
    BY <1>8, <2>2, <2>3, <2>4
<1>12. Guarded'
  <2> SUFFICES ASSUME NEW d \in Conn, conn'[d].place \in Occupied, conn'[d].open,
                      d \notin robbed'
               PROVE  \E t \in timer'[conn'[d].worker].tasks : t.owner = d
    BY DEF Guarded, HasDeadline
  <2>1. d # c
    BY <1>8 DEF Occupied
  <2>2. conn'[d] = conn[d] /\ d \notin robbed /\ d \notin Victims(c)
    BY <1>4, <1>8, <2>1
  <2>3. PICK t \in timer[conn[d].worker].tasks : t.owner = d
    BY <2>2 DEF HttpInv, Guarded, HasDeadline
  <2>4. conn[d].worker \in Worker
    BY <2>2 DEF HttpInv, Placed, PlacedRight, Occupied
  <2>5. t \in timer'[conn[d].worker].tasks
    BY <1>3, <1>6, <2>1, <2>2, <2>3, <2>4
  <2> QED
    BY <2>2, <2>3, <2>5
<1> QED
  BY <1>1, <1>6, <1>8, <1>10, <1>11, <1>12 DEF w

(* A handler that was queued for c runs, and c alone moves. *)
LEMMA HandlerRuns ==
  ASSUME HttpInv, NEW w \in Worker, NEW c \in Conn, NEW kind \in {"start", "read"},
         Runs(w, [kind |-> kind, conn |-> c]),
         ready' = [ready EXCEPT ![w] = Tail(@)],
         \A d \in Conn \ {c} : conn'[d] = conn[d]
  PROVE  /\ conn[c].place = PlaceFor(kind) /\ conn[c].place \in Awaited
         /\ ready' \in [Worker -> Seq(Handler)] /\ Queued'
<1> DEFINE q == ready[w]
<1>1. q # <<>> /\ Head(q) = [kind |-> kind, conn |-> c]
  BY DEF Runs
<1>2. ready \in [Worker -> Seq(Handler)] /\ \A v \in Worker : QueueRight(conn, ready[v], v)
  BY DEF HttpInv, Types, Queued
<1>3. q \in Seq(Handler) /\ QueueRight(conn, q, w)
  BY <1>2
<1>4. Head(q).kind = kind /\ Head(q).conn = c /\ kind # "tick"
  BY <1>1
<1> HIDE DEF q
<1>5. Head(q) = q[1] /\ 1 \in 1 .. Len(q)
  BY <1>1, <1>3, HeadTailProperties, LenProperties, EmptySeq
<1>6. conn[c].place = PlaceFor(kind) /\ conn[c].worker = w
  BY <1>3, <1>4, <1>5 DEF QueueRight, HandlerRight
<1>7. Tail(q) \in Seq(Handler) /\ QueueRight(conn, Tail(q), w) /\ Unqueued(Tail(q), c)
  BY <1>1, <1>3, <1>4, QueueLoses
<1>8. ready' \in [Worker -> Seq(Handler)] /\ ready'[w] = Tail(q)
        /\ \A v \in Worker \ {w} : ready'[v] = ready[v]
  BY <1>2, <1>7 DEF q
<1>9. ASSUME NEW v \in Worker PROVE QueueRight(conn', ready'[v], v)
  <2>1. QueueRight(conn, ready'[v], v) /\ ready'[v] \in Seq(Handler)
    BY <1>2, <1>7, <1>8
  <2>2. Unqueued(ready'[v], c)
    <3>1. CASE v = w
      BY <1>7, <1>8, <3>1
    <3>2. CASE v # w
      BY <1>6, <2>1, <3>2, NotAwaitedUnqueued
    <3> QED
      BY <3>1, <3>2
  <2>3. ASSUME NEW d \in Conn
        PROVE  \/ Unqueued(ready'[v], d)
               \/ conn'[d].place = conn[d].place /\ conn'[d].worker = conn[d].worker
    BY <2>2
  <2> QED
    BY <2>1, <2>3, QueueKeeps
<1>10. Queued'
  BY <1>9 DEF Queued
<1> QED
  BY <1>6, <1>8, <1>10 DEF PlaceFor, Awaited

LEMMA RunStartStep ==
  ASSUME HttpInv, NEW w \in Worker, NEW c \in Conn, RunStart(w, c)
  PROVE  HttpInv'
<1>1. /\ Runs(w, [kind |-> "start", conn |-> c]) /\ Await(c)
      /\ ready' = [ready EXCEPT ![w] = Tail(@)]
      /\ context_idx' = context_idx /\ prepared' = prepared
  BY DEF RunStart, acceptvars
<1>2. \A d \in Conn \ {c} : conn'[d] = conn[d]
  BY <1>1 DEF Await, HttpInv, Types
<1>3. /\ conn[c].place \in Awaited
      /\ ready' \in [Worker -> Seq(Handler)] /\ Queued'
  BY <1>1, <1>2, HandlerRuns
<1>4. /\ conn' \in [Conn -> Objects]
      /\ conn'[c].place = "reading" /\ conn'[c].worker = conn[c].worker
      /\ conn[c].worker \in Worker
      /\ timer' \in [Worker -> Timers]
      /\ Numbered' /\ DeadlinesOwned' /\ Guarded'
  BY <1>1, <1>3, AwaitKeeps
<1>5. Types' /\ Placed'
  BY <1>1, <1>2, <1>3, <1>4 DEF HttpInv, Types, Placed, PlacedRight, Accepting
<1> QED
  BY <1>3, <1>4, <1>5 DEF HttpInv

LEMMA RunReadStep ==
  ASSUME HttpInv, NEW w \in Worker, NEW c \in Conn, RunRead(w, c)
  PROVE  HttpInv'
<1>1. /\ Runs(w, [kind |-> "read", conn |-> c]) /\ (Await(c) \/ End(c))
      /\ ready' = [ready EXCEPT ![w] = Tail(@)]
      /\ context_idx' = context_idx /\ prepared' = prepared
  BY DEF RunRead, acceptvars
<1>2. \A d \in Conn \ {c} : conn'[d] = conn[d]
  BY <1>1 DEF Await, End, HttpInv, Types
<1>3. /\ conn[c].place \in Awaited
      /\ ready' \in [Worker -> Seq(Handler)] /\ Queued'
  BY <1>1, <1>2, HandlerRuns
<1>4. /\ conn' \in [Conn -> Objects]
      /\ \/ conn'[c].place = "reading" /\ conn'[c].worker = conn[c].worker
         \/ conn'[c].place = "free"
      /\ conn[c].worker \in Worker
      /\ timer' \in [Worker -> Timers]
      /\ Numbered' /\ DeadlinesOwned' /\ Guarded'
  BY <1>1, <1>3, AwaitKeeps, EndKeeps
<1>5. Types' /\ Placed'
  BY <1>1, <1>2, <1>3, <1>4 DEF HttpInv, Types, Placed, PlacedRight, Accepting
<1> QED
  BY <1>3, <1>4, <1>5 DEF HttpInv

-----------------------------------------------------------------------------
(* A tick.                                                                 *)

(* The tasks of a timer are as many as their ids, at most. *)
LEMMA TasksFinite ==
  ASSUME Types, Numbered, NEW w \in Worker, NEW S \in SUBSET timer[w].tasks
  PROVE  IsFiniteSet(S)
<1> DEFINE ids == [t \in S |-> t.id]
<1>1. timer[w].highest \in Nat /\ \A t \in S : t.id \in 1 .. timer[w].highest
  BY DEF Types, Timers, Numbered
<1>2. \A t, u \in S : t.id = u.id => t = u
  BY DEF Numbered
<1>3. ids \in Injection(S, 1 .. timer[w].highest)
  <2>1. ids \in [S -> 1 .. timer[w].highest]
    BY <1>1
  <2>2. \A t, u \in S : ids[t] = ids[u] => t = u
    BY <1>2
  <2> QED
    BY <2>1, <2>2 DEF Injection, IsInjective
<1>4. IsFiniteSet(1 .. timer[w].highest)
  BY <1>1, FS_Interval
<1> QED
  BY <1>3, <1>4, FS_Injection

(* One connection, one task. *)
LEMMA OneTask ==
  ASSUME HttpInv, NEW w \in Worker, NEW t \in timer[w].tasks, NEW u \in timer[w].tasks,
         t.owner = u.owner
  PROVE  t = u
  BY DEF HttpInv, DeadlinesOwned, Numbered

Owners(due) == {t.owner : t \in due}

Closed(due) ==
  [c \in Conn |-> IF c \in Owners(due)
                  THEN Moved(c, "arrived", FALSE, conn[c].task_id) ELSE conn[c]]

(* What a tick does to the objects: the owners of due tasks are closed.    *)
LEMMA TickConn ==
  ASSUME HttpInv, NEW w \in Worker, NEW due \in SUBSET timer[w].tasks,
         conn' = Closed(due), context_idx' = context_idx
  PROVE  /\ conn' \in [Conn -> Objects] /\ Placed'
         /\ \A c \in Conn \ Owners(due) : conn'[c] = conn[c]
         /\ \A c \in Owners(due) :
              /\ c \in Conn /\ conn[c].place \in Occupied /\ conn[c].worker = w
              /\ conn'[c].place = "arrived" /\ conn'[c].worker = w
              /\ conn'[c].task_id = conn[c].task_id /\ ~conn'[c].open
<1>1. conn \in [Conn -> Objects] /\ timer[w] \in Timers
  BY DEF HttpInv, Types
<1>2. ASSUME NEW c \in Owners(due)
      PROVE  c \in Conn /\ conn[c].place \in Occupied /\ conn[c].worker = w
  <2>1. PICK t \in due : t.owner = c
    BY DEF Owners
  <2> QED
    BY <1>1, <2>1 DEF HttpInv, DeadlinesOwned, Timers, Occupied
<1>3. ASSUME NEW c \in Owners(due)
      PROVE  /\ conn'[c] = Object("arrived", w, FALSE, conn[c].task_id)
             /\ conn'[c] \in Objects
  <2>1. conn'[c] = Object("arrived", w, FALSE, conn[c].task_id)
    BY <1>2 DEF Closed, Moved
  <2>2. conn[c].task_id \in Nat
    BY <1>1, <1>2 DEF Objects
  <2> QED
    BY <2>1, <2>2 DEF Object, Objects, Place
<1>4. \A c \in Conn \ Owners(due) : conn'[c] = conn[c]
  BY DEF Closed
<1>5. conn' \in [Conn -> Objects]
  <2>1. \A c \in Conn : conn'[c] \in Objects
    BY <1>1, <1>3, <1>4
  <2>2. \A c \in Conn : Closed(due)[c] \in Objects
    BY <2>1
  <2>3. \A c \in Conn : (IF c \in Owners(due) THEN Moved(c, "arrived", FALSE, conn[c].task_id)
                         ELSE conn[c]) \in Objects
    BY <2>2 DEF Closed
  <2> QED
    BY <2>3 DEF Closed
<1>6. ASSUME NEW c \in Owners(due)
      PROVE  /\ conn'[c].place = "arrived" /\ conn'[c].worker = w
             /\ conn'[c].task_id = conn[c].task_id /\ ~conn'[c].open
  <2>1. PICK x : x = conn'[c]
    OBVIOUS
  <2>2. x = Object("arrived", w, FALSE, conn[c].task_id)
    BY <1>3, <2>1
  <2>3. x.place = "arrived" /\ x.worker = w /\ x.task_id = conn[c].task_id /\ x.open = FALSE
    BY <2>2 DEF Object
  <2>4. conn'[c].open = FALSE
    BY <2>1, <2>3, Zenon
  <2>5. ~conn'[c].open
    BY <2>4, Zenon
  <2> QED
    BY <2>1, <2>3, <2>5, Zenon
<1>7. Placed'
  <2>1. \A c \in Conn : PlacedRight(c)'
    BY <1>2, <1>4, <1>6 DEF HttpInv, Placed, PlacedRight
  <2>2. \A c, d \in Conn :
          conn'[c].place = "accepting" /\ conn'[d].place = "accepting" => c = d
    BY <1>4, <1>6 DEF HttpInv, Placed, Accepting
  <2> QED
    BY <2>1, <2>2 DEF Placed, Accepting
<1> QED
  BY <1>2, <1>4, <1>5, <1>6, <1>7

(* What a tick does to the timer: the due tasks are gone, the ids stay.    *)
LEMMA TickTimer ==
  ASSUME HttpInv, NEW w \in Worker, NEW due \in SUBSET timer[w].tasks,
         conn' = Closed(due), context_idx' = context_idx, robbed' = robbed,
         timer' = [timer EXCEPT ![w] = Processed(@, due)]
  PROVE  /\ timer' \in [Worker -> Timers]
         /\ Numbered' /\ DeadlinesOwned' /\ Guarded'
<1> DEFINE left == timer[w].tasks \ due
           Aged(t) == [t EXCEPT !.age = @ + 1]
           aged == {Aged(t) : t \in left}
<1>1. timer \in [Worker -> Timers] /\ timer[w] \in Timers
  BY DEF HttpInv, Types
<1>2. ASSUME NEW t \in left
      PROVE  /\ t \in [id : Nat, owner : Conn, age : Nat]
             /\ Aged(t) \in [id : Nat, owner : Conn, age : Nat]
             /\ Aged(t).id = t.id /\ Aged(t).owner = t.owner
  BY <1>1 DEF Timers
<1>3. /\ Processed(timer[w], due).tasks = aged
      /\ Processed(timer[w], due).highest = IF left = {} THEN 0 ELSE timer[w].highest
      /\ Processed(timer[w], due)
           = [tasks |-> aged, highest |-> IF left = {} THEN 0 ELSE timer[w].highest]
  BY DEF Processed
<1>4. Processed(timer[w], due) \in Timers
  BY <1>1, <1>2, <1>3 DEF Timers
<1>5. /\ timer' \in [Worker -> Timers]
      /\ timer'[w].tasks = aged
      /\ timer'[w].highest = IF left = {} THEN 0 ELSE timer[w].highest
      /\ \A v \in Worker \ {w} : timer'[v] = timer[v]
  BY <1>1, <1>3, <1>4
<1> HIDE DEF Aged, left
<1>6. \A t \in aged : \E u \in left : t = Aged(u) /\ t.id = u.id /\ t.owner = u.owner
  BY <1>2
<1>7. left \subseteq timer[w].tasks /\ \A t \in timer[w].tasks : t \in left \/ t \in due
  BY DEF left
<1>8. Numbered'
  <2> SUFFICES ASSUME NEW v \in Worker
               PROVE  /\ \A t \in timer'[v].tasks : 1 <= t.id /\ t.id <= timer'[v].highest
                      /\ \A t, u \in timer'[v].tasks : t.id = u.id => t = u
    BY DEF Numbered
  <2>1. CASE v = w
    <3>1. \A t \in left : 1 <= t.id /\ t.id <= timer[w].highest
      BY <1>7 DEF HttpInv, Numbered
    <3>2. \A t, u \in left : t.id = u.id => t = u
      BY <1>7 DEF HttpInv, Numbered
    <3>3. \A t \in aged : 1 <= t.id /\ t.id <= timer'[w].highest
      BY <1>5, <1>6, <3>1
    <3>4. \A t, u \in aged : t.id = u.id => t = u
      BY <1>6, <3>2
    <3> QED
      BY <1>5, <2>1, <3>3, <3>4
  <2>2. CASE v # w
    BY <1>5, <2>2 DEF HttpInv, Numbered
  <2> QED
    BY <2>1, <2>2
<1>9. /\ \A c \in Conn \ Owners(due) : conn'[c] = conn[c]
      /\ \A c \in Owners(due) :
           /\ c \in Conn /\ conn[c].place \in Occupied /\ conn[c].worker = w
           /\ conn'[c].place = "arrived" /\ conn'[c].worker = w
           /\ conn'[c].task_id = conn[c].task_id /\ ~conn'[c].open
  BY TickConn
<1>10. DeadlinesOwned'
  <2> SUFFICES ASSUME NEW v \in Worker, NEW t \in timer'[v].tasks
               PROVE  /\ conn'[t.owner].place \in Occupied
                      /\ conn'[t.owner].worker = v
                      /\ conn'[t.owner].task_id = t.id
    BY DEF DeadlinesOwned, Occupied
  <2>1. PICK u \in timer[v].tasks : u.id = t.id /\ u.owner = t.owner
    BY <1>5, <1>6, <1>7
  <2>2. conn[u.owner].place \in Occupied /\ conn[u.owner].worker = v
          /\ conn[u.owner].task_id = u.id
    BY DEF HttpInv, DeadlinesOwned, Occupied
  <2>3. u.owner \in Conn
    BY <1>1 DEF Timers
  <2> QED
    BY <1>9, <2>1, <2>2, <2>3 DEF Occupied
<1>11. Guarded'
  <2> SUFFICES ASSUME NEW d \in Conn, conn'[d].place \in Occupied, conn'[d].open,
                      d \notin robbed'
               PROVE  \E t \in timer'[conn'[d].worker].tasks : t.owner = d
    BY DEF Guarded, HasDeadline
  <2>1. d \notin Owners(due) /\ conn'[d] = conn[d]
    BY <1>9
  <2>2. PICK t \in timer[conn[d].worker].tasks : t.owner = d
    BY <2>1 DEF HttpInv, Guarded, HasDeadline
  <2>3. conn[d].worker \in Worker
    BY <2>1 DEF HttpInv, Placed, PlacedRight, Occupied
  <2>4. CASE conn[d].worker = w
    <3>1. t \in left
      BY <1>7, <2>1, <2>2, <2>4 DEF Owners
    <3> QED
      BY <1>2, <1>5, <2>1, <2>2, <2>4, <3>1
  <2>5. CASE conn[d].worker # w
    BY <1>5, <2>1, <2>2, <2>3, <2>5
  <2> QED
    BY <2>4, <2>5
<1> QED
  BY <1>5, <1>8, <1>10, <1>11

(* The reads a tick aborts are queued behind what was queued before. *)
Aborted(order) ==
  [i \in DOMAIN order |-> [kind |-> "read", conn |-> order[i].owner]]

(* What a tick adds to the queue: the reads it aborted, one per owner.     *)
LEMMA AbortedQueue ==
  ASSUME HttpInv, NEW w \in Worker, NEW due \in SUBSET timer[w].tasks,
         conn' = Closed(due), context_idx' = context_idx,
         NEW order \in InOrder({t \in due : Waiting(t.owner)})
  PROVE  /\ Aborted(order) \in Seq(Handler)
         /\ QueueRight(conn', Aborted(order), w)
         /\ \A i \in 1 .. Len(Aborted(order)) :
              conn[Aborted(order)[i].conn].place = "reading"
<1> DEFINE S == {t \in due : Waiting(t.owner)}
           n == Cardinality(S)
           s == Aborted(order)
<1>1. n \in Nat
  <2>1. IsFiniteSet(S)
    BY TasksFinite DEF HttpInv
  <2> QED
    BY <2>1, FS_CardinalityType
<1>2. /\ order \in [1 .. n -> S]
      /\ \A i, j \in 1 .. n : i < j => order[i].id < order[j].id
  <2>1. order \in [1 .. n -> S] /\ \A i, j \in DOMAIN order : i < j => order[i].id < order[j].id
    BY DEF InOrder
  <2> QED
    BY <2>1
<1> HIDE DEF n, S
<1>3. ASSUME NEW i \in 1 .. n
      PROVE  /\ order[i] \in timer[w].tasks /\ order[i].owner \in Owners(due)
             /\ conn[order[i].owner].place = "reading" /\ order[i].id \in Nat
             /\ order[i].owner \in Conn
  <2>1. order[i] \in due /\ Waiting(order[i].owner)
    BY <1>2 DEF S
  <2>2. order[i] \in timer[w].tasks /\ timer[w] \in Timers
    BY <2>1 DEF HttpInv, Types
  <2> QED
    BY <2>1, <2>2 DEF Waiting, Owners, Timers
<1>4. /\ s = [i \in 1 .. n |-> [kind |-> "read", conn |-> order[i].owner]]
      /\ \A i \in 1 .. n : s[i] = [kind |-> "read", conn |-> order[i].owner]
  BY <1>2 DEF Aborted
<1>5. ASSUME NEW i \in 1 .. n
      PROVE  s[i] \in Handler /\ s[i].kind = "read" /\ s[i].conn = order[i].owner
  BY <1>3, <1>4 DEF Handler
<1>6. s \in Seq(Handler) /\ Len(s) = n
  <2>1. s \in [1 .. n -> Handler]
    BY <1>4, <1>5
  <2> HIDE DEF s
  <2> QED
    BY <1>1, <2>1
<1> HIDE DEF s
<1>7. ASSUME NEW i \in 1 .. n PROVE HandlerRight(conn', s[i], w)
  <2>1. conn'[order[i].owner].place = "arrived" /\ conn'[order[i].owner].worker = w
    BY <1>3, TickConn
  <2> QED
    BY <1>5, <2>1 DEF HandlerRight, PlaceFor
<1>8. ASSUME NEW i \in 1 .. n, NEW j \in 1 .. n, SameConn(s[i], s[j])
      PROVE  i = j
  <2>1. order[i] = order[j]
    BY <1>3, <1>5, <1>8, OneTask DEF SameConn
  <2>2. ~(i < j) /\ ~(j < i)
    BY <1>2, <1>3, <2>1
  <2> QED
    BY <1>1, <2>2
<1> QED
  BY <1>3, <1>5, <1>6, <1>7, <1>8 DEF QueueRight, s

LEMMA TickStep ==
  ASSUME HttpInv, NEW w \in Worker, Tick(w)
  PROVE  HttpInv'
<1>1. PICK due \in Due(timer[w]) :
        /\ timer' = [timer EXCEPT ![w] = Processed(@, due)]
        /\ conn' = [c \in Conn |->
             IF c \in {t.owner : t \in due}
               THEN Moved(c, "arrived", FALSE, conn[c].task_id) ELSE conn[c]]
        /\ \E aborted \in InOrder({t \in due : Waiting(t.owner)}) :
             ready' = [ready EXCEPT ![w] = Tail(@) \o
               [i \in DOMAIN aborted |-> [kind |-> "read", conn |-> aborted[i].owner]]]
  BY Zenon DEF Tick
<1>2. PICK order \in InOrder({t \in due : Waiting(t.owner)}) :
        ready' = [ready EXCEPT ![w] = Tail(@) \o Aborted(order)]
  BY <1>1, Zenon DEF Aborted
<1>3. /\ due \in SUBSET timer[w].tasks /\ conn' = Closed(due)
      /\ context_idx' = context_idx /\ prepared' = prepared /\ robbed' = robbed
      /\ ready[w] # <<>> /\ Head(ready[w]) = [kind |-> "tick"]
  <2>1. due \in SUBSET timer[w].tasks
    BY DEF Due
  <2>2. conn' = Closed(due)
    BY <1>1, Zenon DEF Closed, Owners
  <2> QED
    BY <2>1, <2>2 DEF Tick, Runs, acceptvars
<1>4. /\ conn' \in [Conn -> Objects] /\ Placed'
      /\ \A c \in Conn \ Owners(due) : conn'[c] = conn[c]
      /\ \A c \in Owners(due) :
           /\ c \in Conn /\ conn[c].place \in Occupied /\ conn[c].worker = w
           /\ conn'[c].place = "arrived" /\ conn'[c].worker = w
  BY <1>3, TickConn
<1>5. timer' \in [Worker -> Timers] /\ Numbered' /\ DeadlinesOwned' /\ Guarded'
  BY <1>1, <1>3, TickTimer
<1>6. /\ Aborted(order) \in Seq(Handler)
      /\ QueueRight(conn', Aborted(order), w)
      /\ \A i \in 1 .. Len(Aborted(order)) :
           conn[Aborted(order)[i].conn].place = "reading"
  BY <1>3, AbortedQueue
<1>7. ready \in [Worker -> Seq(Handler)] /\ \A v \in Worker : QueueRight(conn, ready[v], v)
  BY DEF HttpInv, Types, Queued
<1>8. Tail(ready[w]) \in Seq(Handler) /\ QueueRight(conn, Tail(ready[w]), w)
  BY <1>3, <1>7, QueueLoses
<1>9. ASSUME NEW v \in Worker, NEW q \in Seq(Handler), QueueRight(conn, q, v)
      PROVE  QueueRight(conn', q, v)
  <2>1. ASSUME NEW d \in Conn
        PROVE  \/ Unqueued(q, d)
               \/ conn'[d].place = conn[d].place /\ conn'[d].worker = conn[d].worker
    <3>1. CASE d \notin Owners(due)
      BY <1>4, <3>1
    <3>2. CASE d \in Owners(due) /\ conn[d].place = "arrived"
      BY <1>4, <3>2
    <3>3. CASE conn[d].place = "reading"
      BY <1>9, <3>3, NotAwaitedUnqueued DEF Awaited
    <3> QED
      BY <1>4, <3>1, <3>2, <3>3 DEF Occupied
  <2> QED
    BY <1>9, <2>1, QueueKeeps
<1>10. /\ Tail(ready[w]) \o Aborted(order) \in Seq(Handler)
       /\ QueueRight(conn', Tail(ready[w]) \o Aborted(order), w)
  <2>1. \A i \in 1 .. Len(Aborted(order)) : Unqueued(Tail(ready[w]), Aborted(order)[i].conn)
    BY <1>6, <1>8, NotAwaitedUnqueued DEF Awaited
  <2> QED
    BY <1>6, <1>8, <1>9, <2>1, QueueGains
<1>11. ready' \in [Worker -> Seq(Handler)] /\ Queued'
  <2>1. /\ ready' \in [Worker -> Seq(Handler)]
        /\ ready'[w] = Tail(ready[w]) \o Aborted(order)
        /\ \A v \in Worker \ {w} : ready'[v] = ready[v]
    BY <1>2, <1>7, <1>10
  <2> QED
    BY <1>7, <1>9, <1>10, <2>1 DEF Queued
<1> QED
  BY <1>3, <1>4, <1>5, <1>11 DEF HttpInv, Types

-----------------------------------------------------------------------------
LEMMA InvInit == HttpInit => HttpInv
<1> SUFFICES ASSUME HttpInit PROVE HttpInv
  OBVIOUS
<1>1. Fresh \in Objects /\ Fresh.place = "free" /\ Idle \in Timers /\ Idle.tasks = {}
  BY DEF Fresh, Object, Objects, Place, Idle, Timers
<1>2. /\ conn = [c \in Conn |-> Fresh] /\ ready = [w \in Worker |-> <<>>]
      /\ timer = [w \in Worker |-> Idle]
      /\ context_idx = NoWorker /\ prepared = 0
  BY DEF HttpInit, AcceptInit
<1>3. <<>> \in Seq(Handler) /\ Len(<<>>) = 0
  BY EmptySeq
<1>4. Types
  BY <1>1, <1>2, <1>3 DEF Types
<1>5. Placed /\ Guarded
  BY <1>1, <1>2 DEF Placed, PlacedRight, Accepting, Guarded, Occupied
<1>6. Queued
  BY <1>2, <1>3 DEF Queued, QueueRight
<1>7. Numbered /\ DeadlinesOwned
  BY <1>1, <1>2 DEF Numbered, DeadlinesOwned
<1> QED
  BY <1>4, <1>5, <1>6, <1>7 DEF HttpInv

LEMMA InvStep == HttpInv /\ [HttpNext]_vars => HttpInv'
<1> SUFFICES ASSUME HttpInv, [HttpNext]_vars PROVE HttpInv'
  OBVIOUS
<1>1. CASE Begin
  BY <1>1, BeginStep
<1>2. ASSUME NEW c \in Conn, Connect(c) \/ ConnectFails(c) PROVE HttpInv'
  BY <1>2, ConnectStep, ConnectFailsStep
<1>3. CASE Shutdown \/ UNCHANGED vars
  BY <1>3, ShutdownStep
<1>4. ASSUME NEW w \in Worker, NEW c \in Conn, RunStart(w, c) \/ RunRead(w, c)
      PROVE  HttpInv'
  BY <1>4, RunStartStep, RunReadStep
<1>5. ASSUME NEW w \in Worker, Tick(w) \/ TimerExpires(w) PROVE HttpInv'
  BY <1>5, TickStep, TimerExpiresStep
<1>6. ASSUME NEW c \in Conn, ReadCompletes(c) PROVE HttpInv'
  BY <1>6, ReadCompletesStep
<1> QED
  BY <1>1, <1>2, <1>3, <1>4, <1>5, <1>6 DEF HttpNext

(* A deadline always belongs to a connection of its worker that exists and *)
(* reads, and is the one it set last: no tick closes a connection that has *)
(* renewed its deadline, or a later one at the same address.               *)
THEOREM DeadlinesCorrect == HttpSpec => []DeadlinesOwned
<1>1. HttpInv => DeadlinesOwned
  BY DEF HttpInv
<1> QED
  BY <1>1, InvInit, InvStep, PTL DEF HttpSpec

(* Whoever loses a deadline loses it to one that had none.                 *)
LEMMA RobbedStep ==
  ASSUME HttpInv, [HttpNext]_vars, NEW v \in robbed' \ robbed
  PROVE  \E c \in Conn \ {v} :
           /\ conn[c].place = "arrived" /\ conn'[c].place # "arrived"
           /\ ~conn[c].open \/ c \in robbed
           /\ conn[c].task_id = conn[v].task_id
           /\ conn[c].worker = conn[v].worker
<1>1. PICK w \in Worker, c \in Conn, kind \in {"start", "read"} :
        /\ Runs(w, [kind |-> kind, conn |-> c]) /\ (Await(c) \/ End(c))
        /\ ready' = [ready EXCEPT ![w] = Tail(@)]
  <2>1. robbed' # robbed
    OBVIOUS
  <2>2. \E w \in Worker, c \in Conn : RunStart(w, c) \/ RunRead(w, c)
    BY <2>1 DEF HttpNext, Begin, Connect, ConnectFails, Shutdown, Tick, TimerExpires,
                ReadCompletes, vars, httpvars
  <2> QED
    BY <2>2 DEF RunStart, RunRead
<1>2. \A d \in Conn \ {c} : conn'[d] = conn[d]
  BY <1>1 DEF Await, End, HttpInv, Types
<1>3. conn[c].place \in Awaited
  BY <1>1, <1>2, HandlerRuns
<1>4. v \in Victims(c)
  BY <1>1 DEF Await, End
<1>5. conn'[c].place \in {"reading", "free"}
  BY <1>1, <1>3, AwaitKeeps, EndKeeps
<1>6. /\ v \in Conn \ {c}
      /\ conn[c].place = "arrived"
      /\ ~conn[c].open \/ c \in robbed
      /\ conn[c].task_id = conn[v].task_id
      /\ conn[c].worker = conn[v].worker
  BY <1>3, <1>4, Robbery
<1> QED
  BY <1>5, <1>6

(* A connection loses its deadline only to one that has none itself, having*)
(* expired or been robbed, and that still holds an id it shares with it.   *)
THEOREM RobberyCorrect == HttpSpec => RobbedByDeadlineless
<1>1. HttpInv /\ [HttpNext]_vars =>
        [\A v \in robbed' \ robbed : \E c \in Conn \ {v} :
           /\ conn[c].place = "arrived" /\ conn'[c].place # "arrived"
           /\ ~conn[c].open \/ c \in robbed
           /\ conn[c].task_id = conn[v].task_id
           /\ conn[c].worker = conn[v].worker]_vars
  BY RobbedStep
<1> QED
  BY <1>1, InvInit, InvStep, PTL DEF HttpSpec, RobbedByDeadlineless

-----------------------------------------------------------------------------
(* The queue lengths of the accept loop, for any number of workers and     *)
(* accepts.  Balanced is not inductive: a failed accept takes one from the *)
(* queue the accept was prepared for, and may only do so because that queue*)
(* was a shortest one before.  The strengthening says so: without the      *)
(* prepared accept the queues are balanced too, and it was given to a      *)
(* shortest one.                                                           *)

(* Queue lengths that differ by one at most. *)
Even(length) == \A v, w \in Worker : length[v] <= length[w] + 1

(* The lengths without the accept that is prepared. *)
Settled ==
  IF context_idx \in Worker
    THEN [queue_length EXCEPT ![context_idx] = @ - 1] ELSE queue_length

Lengths == [Worker -> Nat]

BalanceInv ==
  /\ AcceptTypeOK
  /\ Even(queue_length)
  /\ Settled \in Lengths
  /\ Even(Settled)

(* Preparing an accept on even queues leaves them even, counted or not. *)
LEMMA PrepareKeeps ==
  ASSUME AcceptTypeOK, NEW length \in Lengths, Even(length), PrepareNext(length),
         UNCHANGED shutting_down
  PROVE  BalanceInv'
<1>1. CASE shutting_down \/ prepared >= MaxAccepts
  <2>1. context_idx' = NoWorker /\ queue_length' = length /\ prepared' = prepared
    BY <1>1 DEF PrepareNext
  <2>2. NoWorker \notin Worker
    BY AcceptAssumption DEF NoWorker, Worker
  <2> QED
    BY <2>1, <2>2 DEF BalanceInv, AcceptTypeOK, Even, Settled, Lengths
<1>2. CASE ~(shutting_down \/ prepared >= MaxAccepts)
  <2>1. PICK w \in Worker : /\ Pick(length, w)
                            /\ queue_length' = [length EXCEPT ![w] = @ + 1]
                            /\ context_idx' = w
                            /\ prepared' = prepared + 1
    BY <1>2 DEF PrepareNext, Prepare
  <2>2. \A v \in Worker : length[w] <= length[v]
    BY <2>1 DEF Pick, Shortest
  <2>3. queue_length' \in Lengths
    BY <2>1 DEF Lengths
  <2>4. Even(queue_length')
    <3> SUFFICES ASSUME NEW v \in Worker, NEW u \in Worker
                 PROVE  queue_length'[v] <= queue_length'[u] + 1
      BY DEF Even
    <3>1. length[v] \in Nat /\ length[u] \in Nat /\ length[w] \in Nat
      BY DEF Lengths
    <3>2. queue_length'[v] = IF v = w THEN length[v] + 1 ELSE length[v]
      BY <2>1 DEF Lengths
    <3>3. queue_length'[u] = IF u = w THEN length[u] + 1 ELSE length[u]
      BY <2>1 DEF Lengths
    <3>4. length[v] <= length[u] + 1
      BY DEF Even
    <3> QED
      BY <2>2, <3>1, <3>2, <3>3, <3>4
  <2>5. Settled' = length
    <3>1. length[w] \in Nat
      BY DEF Lengths
    <3>2. length[w] + 1 - 1 = length[w]
      BY <3>1
    <3>3. Settled' = [queue_length' EXCEPT ![w] = @ - 1]
      BY <2>1 DEF Settled
    <3> QED
      BY <2>1, <3>2, <3>3 DEF Lengths
  <2>6. shutting_down' \in BOOLEAN
    BY Zenon DEF AcceptTypeOK
  <2>7. AcceptTypeOK'
    BY <2>1, <2>3, <2>6 DEF AcceptTypeOK, Lengths
  <2> QED
    BY <2>3, <2>4, <2>5, <2>7 DEF BalanceInv
<1> QED
  BY <1>1, <1>2

LEMMA BalanceInit == AcceptInit => BalanceInv
<1> SUFFICES ASSUME AcceptInit
             PROVE  BalanceInv
  OBVIOUS
<1>1. context_idx \notin Worker
  BY AcceptAssumption DEF AcceptInit, Worker, NoWorker
<1>2. Settled = queue_length
  BY <1>1 DEF Settled
<1>3. queue_length = [w \in Worker |-> 0] /\ queue_length \in Lengths
  BY DEF AcceptInit, Lengths
<1>4. Even(queue_length)
  BY <1>3 DEF Even
<1> QED
  BY <1>2, <1>3, <1>4 DEF AcceptInit, BalanceInv, AcceptTypeOK, Lengths

LEMMA BalanceStep == BalanceInv /\ [AcceptNext]_acceptvars => BalanceInv'
<1> SUFFICES ASSUME BalanceInv, [AcceptNext]_acceptvars
             PROVE  BalanceInv'
  OBVIOUS
<1> USE DEF BalanceInv
<1>1. CASE FirstAccept
  BY <1>1, PrepareKeeps DEF FirstAccept, AcceptTypeOK, Lengths
<1>2. CASE Accepted
  BY <1>2, PrepareKeeps DEF Accepted, AcceptTypeOK, Lengths
<1>3. CASE AcceptFails
  <2>1. Settled = [queue_length EXCEPT ![context_idx] = @ - 1]
    BY <1>3 DEF AcceptFails, Settled
  <2>2. PrepareNext(Settled) /\ UNCHANGED shutting_down
    BY <1>3, <2>1 DEF AcceptFails
  <2> QED
    BY <2>2, PrepareKeeps
<1>4. CASE Stop
  BY <1>4 DEF Stop, AcceptTypeOK, Even, Settled
<1>5. CASE UNCHANGED acceptvars
  BY <1>5 DEF acceptvars, AcceptTypeOK, Even, Settled
<1> QED
  BY <1>1, <1>2, <1>3, <1>4, <1>5 DEF AcceptNext

(* Whatever accepts succeed or fail, no worker has been given two more     *)
(* connections than another, and no queue length goes below zero.          *)
THEOREM BalancedCorrect == AcceptSpec => []Balanced
<1>1. ASSUME BalanceInv PROVE Balanced
  <2>1. ASSUME NEW v \in Worker
        PROVE  queue_length[v] >= IF v = context_idx THEN 1 ELSE 0
    <3>1. queue_length[v] \in Nat /\ Settled[v] \in Nat
      BY <1>1 DEF BalanceInv, AcceptTypeOK, Lengths
    <3>2. v = context_idx => Settled[v] = queue_length[v] - 1
      BY <1>1 DEF Settled, BalanceInv, AcceptTypeOK
    <3> QED
      BY <3>1, <3>2
  <2> QED
    BY <1>1, <2>1 DEF BalanceInv, Even, Balanced
<1> QED
  BY <1>1, BalanceInit, BalanceStep, PTL DEF AcceptSpec

(* What the server does with its connections is, for the accept loop, one  *)
(* of its steps or none: the module that adds timers and connections is an *)
(* implementation of AcceptLoop alone.                                     *)
LEMMA AcceptStep == [HttpNext]_vars => [AcceptNext]_acceptvars
<1> SUFFICES ASSUME [HttpNext]_vars PROVE [AcceptNext]_acceptvars
  OBVIOUS
<1>1. CASE Begin \/ Shutdown \/ \E c \in Conn : Connect(c) \/ ConnectFails(c)
  BY <1>1 DEF Begin, Shutdown, Connect, ConnectFails, AcceptNext
<1>2. ASSUME NEW w \in Worker, NEW c \in Conn, RunStart(w, c) \/ RunRead(w, c)
      PROVE  UNCHANGED acceptvars
  BY <1>2 DEF RunStart, RunRead
<1>3. ASSUME NEW w \in Worker, Tick(w) \/ TimerExpires(w) PROVE UNCHANGED acceptvars
  BY <1>3 DEF Tick, TimerExpires, acceptvars
<1>4. ASSUME NEW c \in Conn, ReadCompletes(c) PROVE UNCHANGED acceptvars
  BY <1>4 DEF ReadCompletes, acceptvars
<1>5. CASE UNCHANGED vars
  BY <1>5 DEF vars
<1> QED
  BY <1>1, <1>2, <1>3, <1>4, <1>5 DEF HttpNext

(* The HTTP server implements the accept loop, whatever its handlers,      *)
(* deadlines and connections do; so the even spread of the connections     *)
(* over the workers holds of the server too.                               *)
THEOREM AcceptRefined == HttpSpec => AcceptSpec /\ []Balanced
<1>1. HttpInit => AcceptInit
  BY DEF HttpInit
<1>2. HttpSpec => AcceptSpec
  BY <1>1, AcceptStep, PTL DEF HttpSpec, AcceptSpec
<1> QED
  BY <1>2, BalancedCorrect

-----------------------------------------------------------------------------
(* The type of the server.  Two parts of it are not in HttpInv: the history*)
(* `robbed` holds connections, and a task is never older than              *)
(* DeadlineTicks, because a tick that finds it so old runs it.             *)
Aged ==
  /\ robbed \subseteq Conn
  /\ \A w \in Worker : \A t \in timer[w].tasks : t.age <= DeadlineTicks

LEMMA AgedStep == HttpInv /\ Aged /\ [HttpNext]_vars => Aged'
<1> SUFFICES ASSUME HttpInv, Aged, [HttpNext]_vars PROVE Aged'
  OBVIOUS
<1> USE TimerAssumption
<1>1. Types
  BY DEF HttpInv
<1>2. CASE UNCHANGED <<timer, robbed>>
  BY <1>2 DEF Aged
<1>3. ASSUME NEW w \in Worker, NEW c \in Conn, RunStart(w, c) \/ RunRead(w, c)
      PROVE  Aged'
  <2>1. conn[c].worker \in Worker
    <3>1. PICK kind \in {"start", "read"} : /\ Runs(w, [kind |-> kind, conn |-> c])
                                            /\ ready' = [ready EXCEPT ![w] = Tail(@)]
      BY <1>3 DEF RunStart, RunRead
    <3>2. \A d \in Conn \ {c} : conn'[d] = conn[d]
      BY <1>1, <1>3 DEF RunStart, RunRead, Await, End, Types
    <3>3. conn[c].place \in Awaited
      BY <3>1, <3>2, HandlerRuns
    <3> QED
      BY <3>3 DEF HttpInv, Placed, PlacedRight, Awaited
  <2>2. timer[conn[c].worker] \in Timers
    BY <1>1, <2>1 DEF Types
  <2>3. robbed' \subseteq Conn
    <3>1. Victims(c) \subseteq Conn
      BY <2>2 DEF Victims, Timers
    <3> QED
      BY <1>3, <3>1 DEF RunStart, RunRead, Await, End, Aged
  <2>4. ASSUME NEW t \in Schedule(Cancel(timer[conn[c].worker], conn[c].task_id), c).tasks
        PROVE  t.age <= DeadlineTicks
    BY <2>1, <2>2 DEF Schedule, Cancel, Timers, Aged
  <2>5. ASSUME NEW t \in Cancel(timer[conn[c].worker], conn[c].task_id).tasks
        PROVE  t.age <= DeadlineTicks
    BY <2>1, <2>2 DEF Cancel, Timers, Aged
  <2>6. \A v \in Worker : \A t \in timer'[v].tasks : t.age <= DeadlineTicks
    <3>1. CASE Await(c)
      BY <1>1, <2>1, <2>4, <3>1 DEF Await, Types, Aged
    <3>2. CASE End(c)
      BY <1>1, <2>1, <2>5, <3>2 DEF End, Types, Aged
    <3> QED
      BY <1>3, <3>1, <3>2 DEF RunStart, RunRead
  <2> QED
    BY <2>3, <2>6 DEF Aged
<1>4. ASSUME NEW w \in Worker, Tick(w) PROVE Aged'
  <2>1. PICK due \in Due(timer[w]) : timer' = [timer EXCEPT ![w] = Processed(@, due)]
    BY <1>4 DEF Tick
  <2>2. timer[w] \in Timers
    BY <1>1 DEF Types
  <2>3. ASSUME NEW t \in Processed(timer[w], due).tasks PROVE t.age <= DeadlineTicks
    <3>1. PICK s \in timer[w].tasks \ due : t = [s EXCEPT !.age = @ + 1]
      BY DEF Processed
    <3>2. s.age \in Nat /\ ~(s.age >= DeadlineTicks)
      BY <2>1, <2>2 DEF Due, Timers
    <3>3. t.age = s.age + 1
      BY <2>2, <3>1 DEF Timers
    <3> QED
      BY <3>2, <3>3
  <2>4. \A v \in Worker : \A t \in timer'[v].tasks : t.age <= DeadlineTicks
    BY <1>1, <2>1, <2>3 DEF Types, Aged
  <2> QED
    BY <1>4, <2>4 DEF Aged, Tick
<1> QED
  BY <1>2, <1>3, <1>4 DEF HttpNext, Begin, Connect, ConnectFails, Shutdown, TimerExpires,
                         ReadCompletes, vars, httpvars

(* Objects, queues and timers hold what the code's types allow, and no     *)
(* deadline is left behind by the ticks.                                   *)
THEOREM HttpTypeCorrect == HttpSpec => []HttpTypeOK
<1>1. HttpInit => Aged
  BY DEF HttpInit, Aged, Idle
<1>2. HttpInv /\ Aged => HttpTypeOK
  <2> SUFFICES ASSUME HttpInv, Aged PROVE HttpTypeOK
    OBVIOUS
  <2>1. Types
    BY DEF HttpInv
  <2>2. ASSUME NEW w \in Worker
        PROVE  /\ \A i \in DOMAIN ready[w] : ready[w][i] \in Handler
               /\ timer[w].tasks \subseteq [id : Nat, owner : Conn, age : 0 .. DeadlineTicks]
               /\ timer[w].highest \in Nat
    BY <2>1, TimerAssumption DEF Types, Timers, Aged
  <2> QED
    BY <2>1, <2>2 DEF HttpTypeOK, Types, Objects, Aged
<1> QED
  BY <1>1, <1>2, AgedStep, InvInit, InvStep, PTL DEF HttpSpec

=============================================================================
