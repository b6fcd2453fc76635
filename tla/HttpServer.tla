----------------------------- MODULE HttpServer -----------------------------
(***************************************************************************)
(* The life of Crow's HTTP connections (http_connection.h) on the worker   *)
(* threads the accept loop gives them to.  A worker runs one handler at a  *)
(* time, in the order its io_context queued them: the start of a new       *)
(* connection, a completed read, a tick of the worker's timer.             *)
(*                                                                         *)
(* A read has one of two outcomes here: bytes after which the connection   *)
(* goes on reading, or bytes (or an error) with which the HTTP connection  *)
(* ends: a request that asks to close, one that is no HTTP or has no       *)
(* route, an upgrade, which moves the socket to a websocket connection     *)
(* (module WsConnection), and an exception on the way, which Server::run   *)
(* catches.  HttpExchange looks into the bytes.                            *)
(*                                                                         *)
(* An object exists while a queued handler, a pending read or a task holds *)
(* a pointer to it.  No handler of this server answers later than it is    *)
(* called, so need_to_start_read_after_complete_ is never set.             *)
(***************************************************************************)
EXTENDS AcceptLoop, TaskTimer, Sequences, FiniteSets

CONSTANTS
  Conn,  \* addresses of Connection objects
  MaxId  \* model bound: the ids a timer gives out before no read is followed by another

ASSUME HttpAssumption == MaxId \in Nat

VARIABLES
  conn,    \* the connection objects
  ready,   \* worker -> the handlers its io_context will run, in order
  timer,   \* worker -> its task_timer
  robbed   \* history: connections whose task another one has cancelled

httpvars == <<conn, ready, timer, robbed>>
vars == <<acceptvars, httpvars>>

(* Where a connection is: not allocated, waiting for a client, posted to   *)
(* its worker, waiting for bytes, or with its read completed.              *)
Place == {"free", "accepting", "starting", "reading", "arrived"}

Object(place, worker, open, task_id) ==
  [place |-> place, worker |-> worker, open |-> open, task_id |-> task_id]

Fresh == Object("free", NoWorker, FALSE, 0)

(* Connection c somewhere else, on its worker. *)
Moved(c, place, open, task_id) == Object(place, conn[c].worker, open, task_id)

Handler ==
  [kind : {"start", "read"}, conn : Conn] \cup {[kind |-> "tick"]}

(* Waiting for bytes, with a client at the other end of an open socket. *)
Waiting(c) == conn[c].place = "reading" /\ conn[c].open

HttpInit ==
  /\ AcceptInit
  /\ conn = [c \in Conn |-> Fresh]
  /\ ready = [w \in Worker |-> <<>>]
  /\ timer = [w \in Worker |-> Idle]
  /\ robbed = {}

-----------------------------------------------------------------------------
(* The accept loop.  do_accept allocates the connection it prepares.       *)

Accepting == {c \in Conn : conn[c].place = "accepting"}

(* The connections once the accept of c, if any, has been dealt with and   *)
(* the next one prepared.                                                  *)
Allocated(conns) ==
  IF context_idx' = NoWorker THEN conn' = conns
  ELSE \E c \in Conn :
         /\ conns[c].place = "free"
         /\ conn' = [conns EXCEPT ![c] = Object("accepting", context_idx', FALSE, 0)]

Begin ==
  /\ FirstAccept
  /\ Allocated(conn)
  /\ UNCHANGED <<ready, timer, robbed>>

(* async_accept succeeds: the socket is open, start() is posted. *)
Connect(c) ==
  /\ c \in Accepting
  /\ Accepted
  /\ ready' = [ready EXCEPT ![context_idx] = Append(@, [kind |-> "start", conn |-> c])]
  /\ Allocated([conn EXCEPT ![c] = Moved(c, "starting", TRUE, conn[c].task_id)])
  /\ UNCHANGED <<timer, robbed>>

(* async_accept fails: the last pointer to the connection goes. *)
ConnectFails(c) ==
  /\ c \in Accepting
  /\ AcceptFails
  /\ Allocated([conn EXCEPT ![c] = Fresh])
  /\ UNCHANGED <<ready, timer, robbed>>

(* stop() also stops the io_contexts: no handler runs after it. *)
Shutdown == Stop /\ UNCHANGED httpvars

-----------------------------------------------------------------------------
(* The handlers a worker runs.                                             *)

(* The next handler of worker w; a stopped io_context runs none. *)
Runs(w, handler) ==
  /\ ~shutting_down
  /\ ready[w] # <<>>
  /\ handler = Head(ready[w])

(* cancel_deadline_timer by c: whoever has the id loses its task. *)
Victims(c) ==
  {t.owner : t \in {u \in timer[conn[c].worker].tasks :
                      u.id = conn[c].task_id /\ u.owner # c}}

(* start_deadline, which cancels the last deadline, and do_read. *)
AwaitUncancelled(c) ==  \* mutant: does not cancel the last deadline
  LET w == conn[c].worker
      scheduled == Schedule(timer[w], c) IN
  /\ timer' = [timer EXCEPT ![w] = scheduled]
  /\ robbed' = (robbed \cup Victims(c)) \ {c}
  /\ conn' = [conn EXCEPT ![c] = Moved(c, "reading", conn[c].open, scheduled.highest)]

AwaitForever(c) ==  \* mutant: cancels the last deadline and sets none
  LET w == conn[c].worker IN
  /\ timer' = [timer EXCEPT ![w] = Cancel(@, conn[c].task_id)]
  /\ robbed' = (robbed \cup Victims(c)) \ {c}
  /\ conn' = [conn EXCEPT ![c].place = "reading"]

Await(c) ==
  LET w == conn[c].worker
      scheduled == Schedule(Cancel(timer[w], conn[c].task_id), c) IN
  /\ timer' = [timer EXCEPT ![w] = scheduled]
  /\ robbed' = (robbed \cup Victims(c)) \ {c}
  /\ conn' = [conn EXCEPT ![c] = Moved(c, "reading", conn[c].open, scheduled.highest)]

(* cancel_deadline_timer, close, and the last pointer goes. *)
End(c) ==
  LET w == conn[c].worker IN
  /\ timer' = [timer EXCEPT ![w] = Cancel(@, conn[c].task_id)]
  /\ robbed' = (robbed \cup Victims(c)) \ {c}
  /\ conn' = [conn EXCEPT ![c] = Fresh]

RunStart(w, c) ==
  /\ Runs(w, [kind |-> "start", conn |-> c])
  /\ Await(c)
  /\ ready' = [ready EXCEPT ![w] = Tail(@)]
  /\ UNCHANGED acceptvars

(* The callback of do_read: on with the next read, or the end.  A deadline *)
(* that has run meanwhile leaves the socket closed: whatever was read, the *)
(* connection ends.                                                        *)
RunRead(w, c) ==
  /\ Runs(w, [kind |-> "read", conn |-> c])
  /\ \/ conn[c].open /\ timer[w].highest < MaxId /\ Await(c)
     \/ End(c)
  /\ ready' = [ready EXCEPT ![w] = Tail(@)]
  /\ UNCHANGED acceptvars

(* tick_handler.  A deadline closes the socket; a read that is pending is  *)
(* aborted, that is, completes with an error behind what is queued now.    *)
Tick(w) ==
  /\ Runs(w, [kind |-> "tick"])
  /\ \E due \in Due(timer[w]) :
       LET closed == {t.owner : t \in due}
       IN
       /\ timer' = [timer EXCEPT ![w] = Processed(@, due)]
       /\ conn' = [c \in Conn |->
            IF c \in closed
              THEN Moved(c, "arrived", FALSE, conn[c].task_id) ELSE conn[c]]
       /\ \E aborted \in InOrder({t \in due : Waiting(t.owner)}) :
            ready' = [ready EXCEPT ![w] = Tail(@) \o
              [i \in DOMAIN aborted |-> [kind |-> "read", conn |-> aborted[i].owner]]]
  /\ UNCHANGED <<acceptvars, robbed>>

-----------------------------------------------------------------------------
(* What the reactor queues.                                                *)

(* The tick timer expires; it is armed unless its handler is queued. *)
TimerExpires(w) ==
  /\ ~shutting_down
  /\ \A i \in DOMAIN ready[w] : ready[w][i].kind # "tick"
  /\ ready' = [ready EXCEPT ![w] = Append(@, [kind |-> "tick"])]
  /\ UNCHANGED <<acceptvars, conn, timer, robbed>>

(* The client sends something, or its end of the connection goes. *)
ReadCompletes(c) ==
  /\ ~shutting_down
  /\ Waiting(c)
  /\ conn' = [conn EXCEPT ![c].place = "arrived"]
  /\ ready' = [ready EXCEPT ![conn[c].worker] = Append(@, [kind |-> "read", conn |-> c])]
  /\ UNCHANGED <<acceptvars, timer, robbed>>

-----------------------------------------------------------------------------
HttpNext ==
  \/ Begin
  \/ \E c \in Conn : Connect(c) \/ ConnectFails(c)
  \/ Shutdown
  \/ \E w \in Worker, c \in Conn : RunStart(w, c) \/ RunRead(w, c)
  \/ \E w \in Worker : Tick(w) \/ TimerExpires(w)
  \/ \E c \in Conn : ReadCompletes(c)

(* A worker thread runs what is queued, and clocks do not stand still.     *)
(* Clients owe nothing, but for one thing: a handler is an action here, and*)
(* so taken to return.  do_write_sync is a blocking write, and a client    *)
(* that does not read its answer can hold the worker in it (and with it    *)
(* the timer), for as long as the system lets it.                          *)
HttpFairness ==
  \A w \in Worker :
    /\ WF_vars(Tick(w) \/ \E c \in Conn : RunStart(w, c) \/ RunRead(w, c))
    /\ WF_vars(TimerExpires(w))

HttpSpec == HttpInit /\ [][HttpNext]_vars /\ HttpFairness

-----------------------------------------------------------------------------
HttpTypeOK ==
  /\ conn \in [Conn -> [place : Place, worker : Worker \cup {NoWorker},
                        open : BOOLEAN, task_id : Nat]]
  /\ \A w \in Worker :
       /\ \A i \in DOMAIN ready[w] : ready[w][i] \in Handler
       /\ timer[w].tasks \subseteq [id : Nat, owner : Conn, age : 0 .. DeadlineTicks]
       /\ timer[w].highest \in Nat
  /\ robbed \subseteq Conn

(* Every scheduled deadline is the current one of a connection of that     *)
(* worker which exists and is reading: a deadline never closes a           *)
(* connection on behalf of an earlier one at the same address, nor one     *)
(* that had its deadline renewed, and no connection has two.               *)
DeadlinesOwned ==
  \A w \in Worker : \A t \in timer[w].tasks :
    /\ conn[t.owner].place \in {"reading", "arrived"}
    /\ conn[t.owner].worker = w
    /\ conn[t.owner].task_id = t.id

(* A connection loses its deadline only to one that has none itself: one   *)
(* that its deadline closed, or one that was robbed before (task_timer.h   *)
(* warns that an id must not be used after its task).  So it starts with   *)
(* an expired connection, and spreads from there: see the README.          *)
RobbedByDeadlineless ==
  [][\A v \in robbed' \ robbed : \E c \in Conn \ {v} :
       /\ conn[c].place = "arrived" /\ conn'[c].place # "arrived"
       /\ ~conn[c].open \/ c \in robbed
       /\ conn[c].task_id = conn[v].task_id
       /\ conn[c].worker = conn[v].worker]_vars

(* A client that connects and then says nothing is disconnected, unless    *)
(* its deadline was cancelled by another connection or the server stops.   *)
IdleIsClosed(c) ==
  Waiting(c) ~> (~Waiting(c) \/ c \in robbed \/ shutting_down)

=============================================================================
