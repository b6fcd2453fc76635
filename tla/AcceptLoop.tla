----------------------------- MODULE AcceptLoop -----------------------------
(***************************************************************************)
(* The accept loop of Crow's server (http_server.h): one thread, with its  *)
(* own io_context, takes connections and hands each one to a worker thread *)
(* with an io_context of its own.                                          *)
(*                                                                         *)
(* `task_queue_length_pool_` is what it chooses by.  It is incremented     *)
(* when an accept is prepared and decremented only when that accept fails: *)
(* nothing decrements it when a connection ends.                           *)
(***************************************************************************)
EXTENDS Naturals

CONSTANTS
  WorkerCount,  \* concurrency_ - 1; app.h raises concurrency_ to at least 2
  MaxAccepts    \* model bound: accepts prepared

ASSUME AcceptAssumption == WorkerCount \in Nat \ {0} /\ MaxAccepts \in Nat

Worker == 0 .. WorkerCount - 1

NoWorker == WorkerCount  \* no accept is prepared

VARIABLES
  queue_length,   \* task_queue_length_pool_
  context_idx,    \* the worker of the prepared accept, or NoWorker
  prepared,       \* how many accepts have been prepared (for the bound)
  shutting_down

acceptvars == <<queue_length, context_idx, prepared, shutting_down>>

(* pick_io_context_idx: the scan keeps the first of the shortest queues,   *)
(* and stops early only at a queue that is empty.                          *)
Shortest(length) ==
  {w \in Worker : /\ \A v \in Worker : length[w] <= length[v]
                  /\ \A v \in 0 .. w - 1 : length[w] < length[v]}

PickLast(length, w) ==  \* mutant: compares the wrong way round
  \A v \in Worker : length[v] <= length[w]

Pick(length, w) == w \in Shortest(length)

(* do_accept, up to async_accept. *)
Prepare(length) ==
  \E w \in Worker :
    /\ Pick(length, w)
    /\ queue_length' = [length EXCEPT ![w] = @ + 1]
    /\ context_idx' = w
    /\ prepared' = prepared + 1

(* do_accept once the handler of async_accept is done. *)
PrepareNext(length) ==
  IF shutting_down \/ prepared >= MaxAccepts
    THEN /\ context_idx' = NoWorker
         /\ queue_length' = length
         /\ UNCHANGED prepared
    ELSE Prepare(length)

AcceptInit ==
  /\ queue_length = [w \in Worker |-> 0]
  /\ context_idx = NoWorker
  /\ prepared = 0
  /\ shutting_down = FALSE

(* The first do_accept, called by run() once every worker has started. *)
FirstAccept ==
  /\ prepared = 0
  /\ ~shutting_down
  /\ PrepareNext(queue_length)
  /\ UNCHANGED shutting_down

(* A connection arrives: it is posted to the worker chosen when the accept *)
(* was prepared.                                                           *)
Accepted ==
  /\ context_idx \in Worker
  /\ PrepareNext(queue_length)
  /\ UNCHANGED shutting_down

AcceptFails ==
  /\ context_idx \in Worker
  /\ PrepareNext([queue_length EXCEPT ![context_idx] = @ - 1])
  /\ UNCHANGED shutting_down

(* Server::stop *)
Stop ==
  /\ ~shutting_down
  /\ shutting_down' = TRUE
  /\ UNCHANGED <<queue_length, context_idx, prepared>>

AcceptNext == FirstAccept \/ Accepted \/ AcceptFails \/ Stop

AcceptSpec == AcceptInit /\ [][AcceptNext]_acceptvars

-----------------------------------------------------------------------------
AcceptTypeOK ==
  /\ queue_length \in [Worker -> Nat]
  /\ context_idx \in Worker \cup {NoWorker}
  /\ prepared \in Nat
  /\ shutting_down \in BOOLEAN

(* Connections are spread evenly: however many accepts fail in between, no *)
(* worker has been given two more connections than another; no queue length*)
(* is below zero, and the prepared accept is counted in its worker's, so   *)
(* that giving it back does not take the unsigned length below zero.       *)
Balanced ==
  \A v, w \in Worker :
    /\ queue_length[v] <= queue_length[w] + 1
    /\ queue_length[v] >= IF v = context_idx THEN 1 ELSE 0

=============================================================================
