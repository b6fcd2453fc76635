-------------------------------- MODULE Locks --------------------------------
(***************************************************************************)
(* The mutexes of the server and the threads that take them: the handlers  *)
(* on Crow's io threads, the std::async tasks they wait for, the two       *)
(* background threads and the log consumer.  Data is left out: a thread is *)
(* the sequence of locks, unlocks, spawns and joins it has still to make.  *)
(* Consecutive calls of Logger::log are one, and of the branches of a      *)
(* handler those are left out that take the locks of another one, or fewer *)
(* of them, in the same order.                                             *)
(***************************************************************************)
EXTENDS Naturals, Sequences

CONSTANTS
  Handler,                    \* io threads that may be inside a handler
  Monitor, Cleanup, Consumer, \* the three background threads
  NoThread

Task == {[of |-> h] : h \in Handler}   \* one async task at a time for each
Background == {Monitor, Cleanup, Consumer}
Thread == Handler \cup Task \cup Background

Lock == {"connections_mutex", "inactivity_mutex", "queueMutex"}

ASSUME LocksAssumption == /\ Handler \cap (Task \cup Background) = {}
                          /\ Task \cap Background = {}
                          /\ NoThread \notin Thread

VARIABLES
  owner,   \* Lock -> the thread that holds it
  rest     \* Thread -> what it has still to do

vars == <<owner, rest>>

Acquire(l) == [do |-> "lock", lock |-> l]
Release(l) == [do |-> "unlock", lock |-> l]
Spawn      == [do |-> "spawn"]
Join       == [do |-> "join"]

Within(l, body) == <<Acquire(l)>> \o body \o <<Release(l)>>
Connections(body) == Within("connections_mutex", body)
Log == Within("queueMutex", <<>>)
Flag == Within("inactivity_mutex", <<>>)

-----------------------------------------------------------------------------
(* What each thread does. *)

notify == Connections(Log)   \* notify_user_joined, notify_user_status_change

update_inside == Connections(Log \o notify)   \* mutant: notifies under the lock

update_status == Connections(Log) \o notify

on_open == Connections(Log) \o Log \o Connections(Log) \o Log \o notify
on_close == Connections(Log) \o notify

list_or_info == Connections(Log)
change_status == Connections(<<>>) \o Log \o update_status
get_history == Connections(<<>>) \o Log

send_inside == Connections(<<Spawn, Join>>)   \* mutant: waits under the lock

send_message == Connections(<<>>) \o <<Spawn, Join>>

(* No such recipient: error 4 is sent, and logged, inside the lock. *)
refuse_message == Connections(Log)

on_message ==
  {Log \o Connections(Log) \o reactivation \o Log \o work :
     reactivation \in {<<>>, update_status},
     work \in {list_or_info, change_status, send_message, refuse_message,
               get_history}}

Handlers == {on_open, on_close} \cup on_message

task == Log \o Connections(Log) \o Log
monitor == Connections(Log \o Flag) \o notify \o Flag
cleanup == Connections(Log)
log_consumer == Within("queueMutex", <<>>)

Programs(t) ==
  CASE t \in Handler -> Handlers
    [] t = Monitor -> {monitor}
    [] t = Cleanup -> {cleanup}
    [] t = Consumer -> {log_consumer}
    [] OTHER -> {}

-----------------------------------------------------------------------------
Init ==
  /\ owner = [l \in Lock |-> NoThread]
  /\ rest = [t \in Thread |-> <<>>]

At(t, do) == rest[t] # <<>> /\ Head(rest[t]).do = do

(* A callback is called, or a background thread begins its next pass. *)
Begin(t) ==
  /\ rest[t] = <<>>
  /\ \E p \in Programs(t) : rest' = [rest EXCEPT ![t] = p]
  /\ UNCHANGED owner

TakeLock(t) ==
  /\ At(t, "lock")
  /\ owner[Head(rest[t]).lock] = NoThread
  /\ owner' = [owner EXCEPT ![Head(rest[t]).lock] = t]
  /\ rest' = [rest EXCEPT ![t] = Tail(@)]

DropLock(t) ==
  /\ At(t, "unlock")
  /\ owner' = [owner EXCEPT ![Head(rest[t]).lock] = NoThread]
  /\ rest' = [rest EXCEPT ![t] = Tail(@)]

(* std::async(std::launch::async, ...) starts a thread. *)
StartTask(h) ==
  /\ At(h, "spawn")
  /\ rest' = [rest EXCEPT ![h] = Tail(@), ![[of |-> h]] = task]
  /\ UNCHANGED owner

(* send_task.wait() returns when the task has finished. *)
JoinTask(h) ==
  /\ At(h, "join")
  /\ rest[[of |-> h]] = <<>>
  /\ rest' = [rest EXCEPT ![h] = Tail(@)]
  /\ UNCHANGED owner

Advance(t) == TakeLock(t) \/ DropLock(t) \/ (t \in Handler /\ (StartTask(t) \/ JoinTask(t)))

Next == \E t \in Thread : Begin(t) \/ Advance(t)

Spec == Init /\ [][Next]_vars

(* Every thread is scheduled, and whoever keeps asking for a mutex gets it *)
(* in the end; nobody has to call a handler.                               *)
FairSpec == Spec /\ \A t \in Thread : WF_vars(Advance(t)) /\ SF_vars(TakeLock(t))

-----------------------------------------------------------------------------
Held(t) == {l \in Lock : owner[l] = t}

(* connections_mutex comes before the other two, which are never held      *)
(* together.                                                               *)
Rank(l) == IF l = "connections_mutex" THEN 1 ELSE 2

(* No cycle of threads can wait for each other's locks: whoever asks for a *)
(* lock holds only locks of a lower rank, so never the lock itself.        *)
LockOrder ==
  \A t \in Thread : At(t, "lock") =>
    \A l \in Held(t) : Rank(l) < Rank(Head(rest[t]).lock)

(* The delivery task needs connections_mutex and queueMutex: nobody waits  *)
(* for a task with a mutex in hand.                                        *)
WaitsEmptyHanded == \A h \in Handler : At(h, "join") \/ At(h, "spawn") => Held(h) = {}

(* Every handler that is called returns, whatever the other threads do. *)
HandlersReturn == \A h \in Handler : rest[h] # <<>> ~> rest[h] = <<>>

=============================================================================
