------------------------------- MODULE Logger -------------------------------
(***************************************************************************)
(* src/logger.cpp: any thread queues lines under queueMutex, one detached  *)
(* consumer thread writes them to server_logs.txt.                         *)
(*                                                                         *)
(* log() holds the mutex from beginning to end, and so does a pass of the  *)
(* consumer from its lock to the end of the loop body, except while it     *)
(* sleeps on the condition variable: those are single actions.  What is    *)
(* not protected is `running`: stopLogging sets it and notifies without    *)
(* the mutex.                                                              *)
(***************************************************************************)
EXTENDS Naturals, Sequences

CONSTANTS
  Line,       \* the lines threads log
  MaxLines    \* bound on the lines of a behaviour

ASSUME LoggerAssumption == MaxLines \in Nat

VARIABLES
  logQueue,
  file,       \* the lines written to logFile
  running,
  consumer,   \* where processLogs is
  stopper,    \* where stopLogging is (the destructor calls it once)
  logged      \* history: every line ever queued

logVars == <<logQueue, file, running, consumer, stopper, logged>>

(* "none": startLogging was not called; "test": evaluates `while (running)`;*)
(* "lock": wants queueMutex; "commit": holds it, has seen the predicate of  *)
(* the wait false, and is about to sleep; "asleep": on the condition; "done".*)
Place == {"none", "test", "lock", "commit", "asleep", "done"}

LogInit ==
  /\ logQueue = <<>>
  /\ file = <<>>
  /\ running = TRUE
  /\ consumer = "none"
  /\ stopper = "idle"
  /\ logged = <<>>

(* queueMutex is free: the only place where it is held between actions. *)
MutexFree == consumer # "commit"

(* condition.notify_one() wakes the consumer only if it is asleep. *)
Notified == IF consumer = "asleep" THEN "lock" ELSE consumer

logSilently(m) ==  \* mutant: does not notify
  /\ MutexFree
  /\ Len(logged) < MaxLines
  /\ logQueue' = Append(logQueue, m)
  /\ logged' = Append(logged, m)
  /\ UNCHANGED <<file, running, consumer, stopper>>

log(m) ==
  /\ MutexFree
  /\ Len(logged) < MaxLines
  /\ logQueue' = Append(logQueue, m)
  /\ logged' = Append(logged, m)
  /\ consumer' = Notified
  /\ UNCHANGED <<file, running, stopper>>

startLogging ==
  /\ consumer = "none"
  /\ consumer' = "test"
  /\ UNCHANGED <<logQueue, file, running, stopper, logged>>

(* stopLogging: the flag, then the notification. *)
StopFlag ==
  /\ stopper = "idle"
  /\ running' = FALSE
  /\ stopper' = "notify"
  /\ UNCHANGED <<logQueue, file, consumer, logged>>

StopNotify ==
  /\ stopper = "notify"
  /\ consumer' = Notified
  /\ stopper' = "done"
  /\ UNCHANGED <<logQueue, file, running, logged>>

-----------------------------------------------------------------------------
(* processLogs *)

TestRunning ==
  /\ consumer = "test"
  /\ consumer' = IF running THEN "lock" ELSE "done"
  /\ UNCHANGED <<logQueue, file, running, stopper, logged>>

Work == logQueue # <<>> \/ ~running

PassOnce ==  \* mutant: writes one line and drops the rest
  /\ consumer = "lock"
  /\ Work
  /\ file' = file \o (IF logQueue = <<>> THEN <<>> ELSE <<Head(logQueue)>>)
  /\ logQueue' = <<>>
  /\ consumer' = "test"
  /\ UNCHANGED <<running, stopper, logged>>

(* The predicate holds: the whole queue is written. *)
Pass ==
  /\ consumer = "lock"
  /\ Work
  /\ file' = file \o logQueue
  /\ logQueue' = <<>>
  /\ consumer' = "test"
  /\ UNCHANGED <<running, stopper, logged>>

CommitUnchecked ==  \* mutant: waits without the predicate
  /\ consumer = "lock"
  /\ consumer' = "commit"
  /\ UNCHANGED <<logQueue, file, running, stopper, logged>>

(* The predicate does not hold: the consumer will sleep. *)
Commit ==
  /\ consumer = "lock"
  /\ ~Work
  /\ consumer' = "commit"
  /\ UNCHANGED <<logQueue, file, running, stopper, logged>>

Sleep ==
  /\ consumer = "commit"
  /\ consumer' = "asleep"
  /\ UNCHANGED <<logQueue, file, running, stopper, logged>>

(* A condition variable may wake up for no reason. *)
SpuriousWakeup ==
  /\ consumer = "asleep"
  /\ consumer' = "lock"
  /\ UNCHANGED <<logQueue, file, running, stopper, logged>>

processLogs == TestRunning \/ Pass \/ Commit \/ Sleep

LogNext ==
  \/ \E m \in Line : log(m)
  \/ startLogging
  \/ StopFlag
  \/ StopNotify
  \/ processLogs
  \/ SpuriousWakeup

LogSpec == LogInit /\ [][LogNext]_logVars

(* The consumer thread is scheduled; setup_routes starts it.  Nobody has   *)
(* to log or to stop, and no spurious wakeup may be relied on.             *)
LogFairSpec == LogSpec /\ WF_logVars(processLogs) /\ WF_logVars(startLogging)

-----------------------------------------------------------------------------
(* The variables hold what the code can put there. *)
LoggerTypeOK ==
  /\ logQueue \in Seq(Line)
  /\ file \in Seq(Line)
  /\ running \in BOOLEAN
  /\ consumer \in Place
  /\ stopper \in {"idle", "notify", "done"}
  /\ logged \in Seq(Line)

(* Every line is in the file or still queued, once, in the order of the    *)
(* calls of log().                                                         *)
NothingLost == logged = file \o logQueue

(* The consumer never sleeps, or makes up its mind to, while lines wait:   *)
(* no notification of log() is lost.                                       *)
NoSleepOnWork == consumer \in {"commit", "asleep"} => logQueue = <<>>

(* As long as nobody stops the logger every queued line is written, also   *)
(* the lines queued before startLogging.                                   *)
QueueDrained == logQueue # <<>> ~> logQueue = <<>> \/ ~running

=============================================================================
