------------------------------ MODULE TaskTimer ------------------------------
(***************************************************************************)
(* Crow's task timer (task_timer.h): every worker has one, and it runs the *)
(* deadlines of the worker's HTTP connections.  A timer is a record        *)
(*                                                                         *)
(*   tasks    the scheduled tasks: their id, the connection whose closing  *)
(*            they are, and the ticks that have passed since               *)
(*   highest  highest_id_, the last id given out                           *)
(*                                                                         *)
(* A task is due DeadlineTicks ticks after it was scheduled.  Ticks are    *)
(* rearmed only after the last one was processed, so they may be late, and *)
(* more than a tick apart: at any tick, some of the tasks may be due, the  *)
(* ones scheduled first; a task left over by DeadlineTicks ticks is due.   *)
(***************************************************************************)
EXTENDS Naturals, FiniteSets

CONSTANT DeadlineTicks  \* default_timeout_ in ticks of one second (5)

ASSUME TimerAssumption == DeadlineTicks \in Nat

Idle == [tasks |-> {}, highest |-> 0]

(* cancel: an id without a task is ignored. *)
Cancel(timer, id) ==
  [timer EXCEPT !.tasks = {t \in @ : t.id # id}]

Schedule(timer, owner) ==
  [tasks   |-> timer.tasks \cup {[id |-> timer.highest + 1, owner |-> owner, age |-> 0]},
   highest |-> timer.highest + 1]

(* The sets of tasks a tick may find due.  They are looked at in the order *)
(* of their ids, which is the order they were scheduled in.                *)
DueUnbound(timer) ==  \* mutant: a task may be passed over for ever
  {due \in SUBSET timer.tasks :
     \A t \in due, s \in timer.tasks : s.id < t.id => s \in due}

Due(timer) ==
  {due \in SUBSET timer.tasks :
     /\ \A t \in timer.tasks : t.age >= DeadlineTicks => t \in due
     /\ \A t \in due, s \in timer.tasks : s.id < t.id => s \in due}

(* The order of a set of tasks: there is one. *)
InOrder(tasks) ==
  {order \in [1 .. Cardinality(tasks) -> tasks] :
     \A i, j \in DOMAIN order : i < j => order[i].id < order[j].id}

(* process_tasks, once the tasks in `due` have been executed: if none are  *)
(* left the ids start again from 1.                                        *)
ProcessedReset(timer, due) ==  \* mutant: starts the ids again at every tick
  [tasks   |-> {[t EXCEPT !.age = @ + 1] : t \in timer.tasks \ due},
   highest |-> 0]

Processed(timer, due) ==
  LET left == timer.tasks \ due IN
  [tasks   |-> {[t EXCEPT !.age = @ + 1] : t \in left},
   highest |-> IF left = {} THEN 0 ELSE timer.highest]
=============================================================================
