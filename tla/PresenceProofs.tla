--------------------------- MODULE PresenceProofs ---------------------------
(***************************************************************************)
(* Proofs about Presence, for any names, connections, thresholds and       *)
(* requests: the handlers and threads implement the registry, what they    *)
(* carry from one locked block to the next is still true when they use it, *)
(* and notifications that overtake each other leave the clients with what  *)
(* ViewsSettle allows.                                                     *)
(*                                                                         *)
(* All of it rests on two facts.  A connection that has a handler running  *)
(* is neither opened, closed nor deleted meanwhile, so that the entry it   *)
(* owns stays the same (Busy, OwnersKept).  And a handler only takes steps *)
(* off its queue or adds notifications: update_status is decided on in     *)
(* on_message alone (HandlerQueue).                                        *)
(***************************************************************************)
EXTENDS Presence, RegistryProofs

(* A running handler has its connection object. *)
Busy == \A c \in Conn : ~Ready(c) => phase[c] # "free"

PresInv ==
  /\ TypeOK
  /\ OwnershipAgrees
  /\ PresenceTypeOK
  /\ Busy
  /\ PendingUpdateIsOwn

(* Reactivating is the first thing a handler does, so it precedes a change *)
(* of the same handler.                                                    *)
ReactivatesFirst ==
  \A c \in Conn : \A i \in DOMAIN todo[c] : todo[c][i].op = "reactivate" => i = 1

-----------------------------------------------------------------------------
(* Queues of steps.                                                        *)

(* The steps that carry a name and a status. *)
LEMMA StepFields ==
  ASSUME NEW n \in Step, n.op \in {"joined", "status", "reactivate", "change"}
  PROVE  n.user \in Name /\ n.status \in Status
  BY DEF Step, CheckMonitors, StartMonitors, ReplyList, ReplyInfo

(* The head of a queue replaced by another step. *)
LEMMA HeadReplaced ==
  ASSUME NEW q \in Seq(Step), q # <<>>, NEW s \in Step
  PROVE  LET r == <<s>> \o Tail(q) IN
         /\ r \in Seq(Step)
         /\ Len(r) = Len(q)
         /\ r[1] = s
         /\ \A i \in 2 .. Len(q) : r[i] = q[i]
  OBVIOUS

(* The head of a queue removed. *)
LEMMA HeadRemoved ==
  ASSUME NEW q \in Seq(Step), q # <<>>
  PROVE  /\ Head(q) \in Step /\ Head(q) = q[1] /\ 1 \in DOMAIN q
         /\ Tail(q) \in Seq(Step)
         /\ DOMAIN Tail(q) = 1 .. Len(q) - 1
         /\ \A i \in DOMAIN Tail(q) : Tail(q)[i] = q[i + 1] /\ i + 1 \in 2 .. Len(q)
  OBVIOUS

(* What a step of c's handler does to the queues: c's loses its head, which*)
(* may be replaced by a step that updates nothing.                         *)
QueueWorked(c) ==
  /\ ~Ready(c)
  /\ todo' \in [Conn -> Seq(Step)]
  /\ \A d \in Conn \ {c} : todo'[d] = todo[d]
  /\ \A n \in Updates(c)' : \E i \in 2 .. Len(todo[c]) : n = todo[c][i]

(* Going on takes the first step off the queue.                            *)
LEMMA ContinueQueue ==
  ASSUME PresenceTypeOK, NEW c \in Conn, ~Ready(c), Continue(c)
  PROVE  QueueWorked(c)
<1>1. todo[c] \in Seq(Step) /\ todo[c] # <<>>
  BY DEF PresenceTypeOK, Ready
<1>2. todo'[c] = Tail(todo[c]) /\ \A d \in Conn \ {c} : todo'[d] = todo[d]
  BY DEF Continue, Then, PresenceTypeOK
<1>3. todo' \in [Conn -> Seq(Step)]
  BY <1>1, HeadRemoved DEF Continue, Then, PresenceTypeOK
<1>4. ASSUME NEW n \in Updates(c)' PROVE \E i \in 2 .. Len(todo[c]) : n = todo[c][i]
  <2>1. PICK i \in DOMAIN Tail(todo[c]) : n = Tail(todo[c])[i]
    BY <1>2 DEF Updates, Pending
  <2> QED
    BY <1>1, <2>1, HeadRemoved
<1> QED
  BY <1>2, <1>3, <1>4 DEF QueueWorked

(* A step that leaves a notification behind puts it in its own place.      *)
LEMMA ReplaceQueue ==
  ASSUME PresenceTypeOK, NEW c \in Conn, ~Ready(c), NEW s \in Step,
         s.op \notin {"change", "reactivate"}, Then(c, <<s>> \o Tail(todo[c]))
  PROVE  QueueWorked(c) /\ s \in Pending(c)'
<1>1. todo[c] \in Seq(Step) /\ todo[c] # <<>>
  BY DEF PresenceTypeOK, Ready
<1> DEFINE r == <<s>> \o Tail(todo[c])
<1>2. todo'[c] = r /\ \A d \in Conn \ {c} : todo'[d] = todo[d]
  BY DEF Then, PresenceTypeOK
<1>3. /\ r \in Seq(Step) /\ Len(r) = Len(todo[c]) /\ r[1] = s
      /\ \A i \in 2 .. Len(todo[c]) : r[i] = todo[c][i]
  BY <1>1, HeadReplaced
<1>4. todo' \in [Conn -> Seq(Step)]
  BY <1>3 DEF Then, PresenceTypeOK
<1>5. DOMAIN r = 1 .. Len(todo[c]) /\ 1 \in DOMAIN r
  BY <1>1, <1>3
<1> HIDE DEF r
<1>6. ASSUME NEW n \in Updates(c)' PROVE \E i \in 2 .. Len(todo[c]) : n = todo[c][i]
  <2>1. PICK i \in DOMAIN r : n = r[i] /\ n.op \in {"change", "reactivate"}
    BY <1>2 DEF Updates, Pending
  <2>2. i # 1
    BY <1>3, <2>1
  <2> QED
    BY <1>1, <1>3, <1>5, <2>1, <2>2
<1>7. s \in Pending(c)'
  BY <1>2, <1>3, <1>5 DEF Pending
<1> QED
  BY <1>2, <1>4, <1>6, <1>7 DEF QueueWorked

(* Every step of a handler works its queue off. *)
LEMMA HandlerQueue ==
  ASSUME PresenceTypeOK, NEW c \in Conn, HandlerStep(c)
  PROVE  QueueWorked(c)
<1>1. CASE TestMonitorStarted(c)
  <2>1. StartMonitors \in Step /\ StartMonitors.op \notin {"change", "reactivate"}
    BY DEF Step, StartMonitors
  <2> QED
    BY <1>1, <2>1, ContinueQueue, ReplaceQueue DEF TestMonitorStarted, At
<1>2. CASE StartThreads(c) \/ SendJoined(c) \/ SendStatus(c) \/ SendReply(c)
  BY <1>2, ContinueQueue DEF StartThreads, SendJoined, SendStatus, SendReply, At
<1>3. CASE RunUpdate(c)
  <2> DEFINE n == Head(todo[c])
  <2>1. ~Ready(c) /\ n.op \in {"reactivate", "change"}
    BY <1>3 DEF RunUpdate, At
  <2>2. n \in Step
    BY <2>1, HeadRemoved DEF PresenceTypeOK, Ready
  <2>3. n.user \in Name /\ n.status \in Status
    BY <2>1, <2>2, StepFields
  <2>4. /\ NotifyStatus(n.user, n.status) \in Step
        /\ NotifyStatus(n.user, n.status).op \notin {"change", "reactivate"}
    BY <2>3 DEF NotifyStatus, Step
  <2> QED
    BY <1>3, <2>1, <2>4, ContinueQueue, ReplaceQueue DEF RunUpdate
<1> QED
  BY <1>1, <1>2, <1>3 DEF HandlerStep

-----------------------------------------------------------------------------
(* Owners.                                                                 *)

(* What a connection with a running handler owns, it still owns afterwards.*)
OwnersKept == \A d \in Conn : ~Ready(d) => Owned(d)' = Owned(d)

-----------------------------------------------------------------------------
(* Every step is one of the registry's, or leaves the registry alone.  The *)
(* step that needs the invariant is update_status, which is given a name:  *)
(* it is the connection's own.                                             *)
LEMMA RunUpdateIsOwn ==
  ASSUME PresInv, NEW c \in Conn, RunUpdate(c)
  PROVE  UpdateStatus(c, Head(todo[c]).status) /\ Head(todo[c]).status \in Status
<1> DEFINE n == Head(todo[c])
<1>1. ~Ready(c) /\ n.op \in {"reactivate", "change"}
  BY DEF RunUpdate, At
<1>2. n \in Step /\ n = todo[c][1] /\ 1 \in DOMAIN todo[c]
  BY <1>1, HeadRemoved DEF PresInv, PresenceTypeOK, Ready
<1>3. n \in Updates(c)
  BY <1>1, <1>2 DEF Updates, Pending
<1>4. n.user = Sender(c)
  BY <1>3 DEF PresInv, PendingUpdateIsOwn
<1>5. phase[c] # "free"
  BY <1>1 DEF PresInv, Busy
<1>6. n.status \in Status
  BY <1>1, <1>2, StepFields
<1> QED
  BY <1>4, <1>5, <1>6 DEF RunUpdate, UpdateStatus

LEMMA RegistryStep == PresInv /\ [Next]_vars => [RegNext]_regvars
<1> SUFFICES ASSUME PresInv, [Next]_vars PROVE RegNext \/ UNCHANGED regvars
  OBVIOUS
<1>1. ASSUME NEW c \in Conn, NEW u \in User \cup {BadName}, OnOpen(c, u) PROVE RegNext
  BY <1>1 DEF OnOpen, RegNext
<1>2. ASSUME NEW c \in Conn, NEW r \in Request, OnMessage(c, r) PROVE RegNext
  BY <1>2 DEF OnMessage, RegNext
<1>3. ASSUME NEW c \in Conn, HandlerStep(c) PROVE RegNext \/ UNCHANGED regvars
  <2>1. CASE RunUpdate(c)
    BY <2>1, RunUpdateIsOwn DEF RegNext
  <2> QED
    BY <1>3, <2>1
    DEF HandlerStep, TestMonitorStarted, StartThreads, SendJoined, SendStatus, SendReply
<1>4. ASSUME NEW c \in Conn, OnClose(c) PROVE RegNext
  BY <1>4 DEF OnClose, RegNext
<1>5. ASSUME NEW c \in Conn, Delete(c) PROVE RegNext
  BY <1>5 DEF Delete, RegNext
<1>6. ASSUME NEW m \in Conn, MonitorPass(m) PROVE RegNext
  BY <1>6 DEF MonitorPass, RegNext
<1>7. ASSUME NEW m \in Conn, NEW u \in User, MonitorNotify(m, u) PROVE UNCHANGED regvars
  BY <1>7 DEF MonitorNotify
<1>8. CASE CleanupPass
  BY <1>8 DEF CleanupPass, RegNext
<1>9. ASSUME NEW u \in User, MinutePasses(u) PROVE RegNext
  BY <1>9 DEF MinutePasses, RegNext
<1>10. CASE UNCHANGED vars
  BY <1>10 DEF vars
<1> QED
  BY <1>1, <1>2, <1>3, <1>4, <1>5, <1>6, <1>7, <1>8, <1>9, <1>10 DEF Next

(* A connection's callbacks do not overlap: whatever opens, closes or frees*)
(* one finds it without a running handler.                                 *)
LEMMA OwnersStep == PresInv /\ [Next]_vars => OwnersKept
<1> SUFFICES ASSUME PresInv, [Next]_vars, NEW d \in Conn, ~Ready(d)
             PROVE  Owned(d)' = Owned(d)
  BY DEF OwnersKept
<1>0. TypeOK
  BY DEF PresInv
<1>1. ASSUME NEW c \in Conn, NEW u \in User \cup {BadName}, OnOpen(c, u)
      PROVE  Owned(d)' = Owned(d)
  <2>1. CASE Reject(c, u)
    BY <2>1 DEF Reject, Owned, Owns, Registered
  <2>2. CASE u \in User /\ Join(c, u)
    BY <1>0, <1>1, <2>2, JoinOwned DEF OnOpen
  <2> QED
    BY <1>1, <2>1, <2>2 DEF OnOpen
<1>2. ASSUME NEW c \in Conn, NEW r \in Request, OnMessage(c, r)
      PROVE  Owned(d)' = Owned(d)
  BY <1>0, <1>2, TouchKeepsOwners, SameOwned DEF OnMessage
<1>3. ASSUME NEW c \in Conn, HandlerStep(c) PROVE Owned(d)' = Owned(d)
  <2>1. CASE RunUpdate(c)
    BY <1>0, <2>1, RunUpdateIsOwn, UpdateKeepsOwners, SameOwned
  <2>2. CASE UNCHANGED connections
    BY <2>2 DEF Owned, Owns, Registered
  <2> QED
    BY <1>3, <2>1, <2>2
    DEF HandlerStep, TestMonitorStarted, StartThreads, SendJoined, SendStatus, SendReply,
        regvars
<1>4. ASSUME NEW c \in Conn, OnClose(c) PROVE Owned(d)' = Owned(d)
  BY <1>0, <1>4, CloseOwned DEF OnClose
<1>5. ASSUME NEW m \in Conn, MonitorPass(m) PROVE Owned(d)' = Owned(d)
  BY <1>0, <1>5, MarkKeepsOwners, SameOwned DEF MonitorPass
<1>6. CASE CleanupPass
  BY <1>0, <1>6, CleanupOwned DEF CleanupPass
<1>7. ASSUME NEW u \in User, MinutePasses(u) PROVE Owned(d)' = Owned(d)
  BY <1>0, <1>7, MinuteKeepsOwners, SameOwned DEF MinutePasses
<1>8. CASE UNCHANGED connections
  BY <1>8 DEF Owned, Owns, Registered
<1> QED
  BY <1>1, <1>2, <1>3, <1>4, <1>5, <1>6, <1>7, <1>8
  DEF Next, Delete, Destroy, MonitorNotify, vars, regvars

-----------------------------------------------------------------------------
(* The locals of the handlers and threads keep their types.                *)

(* What on_message decides on: at most one reactivation, ahead of the rest. *)
LEMMA WorkType ==
  ASSUME TypeOK, NEW c \in Conn, NEW r \in Request
  PROVE  /\ Reactivation(c, r) \o Work(c, r) \in Seq(Step)
         /\ \A i \in DOMAIN (Reactivation(c, r) \o Work(c, r)) :
              LET n == (Reactivation(c, r) \o Work(c, r))[i] IN
              /\ n.op \in {"change", "reactivate"} => n.user = Sender(c)
              /\ n.op = "reactivate" =>
                   i = 1 /\ \E u \in Owned(c) : connections[u].status = "INACTIVO"
<1>1. Sender(c) \in Name
  BY DEF Sender, Owned, Name
<1>2. r \in AnyRequest
  BY RequestAssumption
<1>3. /\ Reactivation(c, r) = <<>> \/ Reactivation(c, r) = <<Reactivate(Sender(c))>>
      /\ Reactivation(c, r) # <<>> =>
           r.op = "message" /\ \E u \in Owned(c) : connections[u].status = "INACTIVO"
  BY DEF Reactivation
<1>4. Reactivate(Sender(c)) \in Step
  BY <1>1 DEF Reactivate, Step, Status
<1>5. \/ Work(c, r) = <<>>
      \/ /\ r.op = "change" /\ r.user = Sender(c) /\ r.status # InvalidStatus
         /\ Work(c, r) = <<Change(r.user, r.status)>>
      \/ r.op \in {"list", "info"} /\ Work(c, r) = <<r>>
  BY DEF Work
<1>6. ASSUME r.op = "change", r.status # InvalidStatus
      PROVE  Change(r.user, r.status) \in Step
  <2>1. r.user \in Name /\ r.status \in Status
    BY <1>2, <1>6 DEF AnyRequest, ReplyList, ReplyInfo, InvalidStatus
  <2> QED
    BY <2>1 DEF Change, Step
<1>7. ASSUME r.op \in {"list", "info"} PROVE r \in Step
  BY <1>2, <1>7 DEF AnyRequest, Step, ReplyList, ReplyInfo
<1>8. CASE Reactivation(c, r) = <<>>
  <2>1. CASE Work(c, r) = <<>>
    BY <1>8, <2>1
  <2>2. CASE /\ r.op = "change" /\ r.user = Sender(c) /\ r.status # InvalidStatus
             /\ Work(c, r) = <<Change(r.user, r.status)>>
    BY <1>6, <1>8, <2>2 DEF Change
  <2>3. CASE r.op \in {"list", "info"} /\ Work(c, r) = <<r>>
    BY <1>7, <1>8, <2>3
  <2> QED
    BY <1>5, <2>1, <2>2, <2>3
<1>9. CASE Reactivation(c, r) = <<Reactivate(Sender(c))>>
  <2>1. r.op = "message" /\ \E u \in Owned(c) : connections[u].status = "INACTIVO"
    BY <1>3, <1>9
  <2>2. Work(c, r) = <<>>
    BY <1>5, <2>1
  <2> QED
    BY <1>4, <1>9, <2>1, <2>2 DEF Reactivate
<1> QED
  BY <1>3, <1>8, <1>9

(* What an on_open or on_close leaves to be done. *)
LEMMA OpenedSteps ==
  ASSUME TypeOK, NEW u \in User
  PROVE  LET q == <<CheckMonitors, NotifyJoined(u, JoinStatus(u))>> IN
         /\ q \in Seq(Step)
         /\ \A i \in DOMAIN q : q[i].op \notin {"change", "reactivate"}
         /\ NotifyJoined(u, JoinStatus(u)) \in {q[i] : i \in DOMAIN q}
<1> DEFINE joined == NotifyJoined(u, JoinStatus(u))
<1>1. JoinStatus(u) \in Status
  BY JoinStatusType
<1>2. joined \in Step /\ joined.op = "joined"
  BY <1>1 DEF NotifyJoined, Step, Name
<1>3. CheckMonitors \in Step /\ CheckMonitors.op = "check"
  BY DEF CheckMonitors, Step
<1> HIDE DEF joined
<1> DEFINE q == <<CheckMonitors, joined>>
<1>4. q[1] = CheckMonitors /\ q[2] = joined /\ DOMAIN q = {1, 2} /\ q \in Seq(Step)
  BY <1>2, <1>3
<1> HIDE DEF q
<1>5. /\ q \in Seq(Step)
      /\ \A i \in DOMAIN q : q[i].op \notin {"change", "reactivate"}
      /\ joined \in {q[i] : i \in DOMAIN q}
  BY <1>2, <1>3, <1>4
<1> QED
  BY <1>5 DEF q, joined

(* What on_close has left to do.                                           *)
LEMMA ClosedSteps ==
  ASSUME NEW c \in Conn
  PROVE  LET n == NotifyStatus(Sender(c), "DISCONNECTED")
             q == IF Owned(c) = {} THEN <<>> ELSE <<n>> IN
         /\ q \in Seq(Step)
         /\ \A i \in DOMAIN q : q[i].op \notin {"change", "reactivate"}
         /\ Owned(c) # {} => n \in {q[i] : i \in DOMAIN q}
<1> DEFINE n == NotifyStatus(Sender(c), "DISCONNECTED")
<1>1. n \in Step /\ n.op = "status"
  BY DEF NotifyStatus, Step, Name, Status, Sender, Owned
<1> HIDE DEF n
<1>2. <<n>> \in Seq(Step) /\ DOMAIN <<n>> = {1} /\ <<n>>[1] = n
  BY <1>1
<1>3. <<>> \in Seq(Step) /\ DOMAIN <<>> = {}
  OBVIOUS
<1>4. LET q == IF Owned(c) = {} THEN <<>> ELSE <<n>> IN
      /\ q \in Seq(Step)
      /\ \A i \in DOMAIN q : q[i].op \notin {"change", "reactivate"}
      /\ Owned(c) # {} => n \in {q[i] : i \in DOMAIN q}
  BY <1>1, <1>2, <1>3
<1> QED
  BY <1>4 DEF n

(* Frames post a status to those who listen. *)
LEMMA TellType ==
  ASSUME PresenceTypeOK, NEW listeners, NEW u \in Name, NEW s \in Status,
         Tell(listeners, u, s)
  PROVE  told' \in [Conn -> [User -> Status \cup {Absent}]]
  BY DEF PresenceTypeOK, Tell

(* How the queue of one connection changes when a callback begins: it had  *)
(* none running.                                                           *)
Begins(c, q) ==
  /\ Ready(c)
  /\ q \in Seq(Step)
  /\ todo' = [todo EXCEPT ![c] = q]

(* The queues after any step: as before, or one handler has worked, or a   *)
(* callback has begun.                                                     *)
LEMMA QueuesStep ==
  ASSUME PresInv, [Next]_vars
  PROVE  \/ UNCHANGED todo
         \/ \E c \in Conn : QueueWorked(c)
         \/ \E c \in Conn, r \in Request :
              OnMessage(c, r) /\ Begins(c, Reactivation(c, r) \o Work(c, r))
         \/ \E c \in Conn, q \in Seq(Step) :
              /\ Begins(c, q) /\ phase'[c] # "free"
              /\ \A i \in DOMAIN q : q[i].op \notin {"change", "reactivate"}
<1>0. TypeOK /\ PresenceTypeOK
  BY DEF PresInv
<1> DEFINE Goal == \E c \in Conn, q \in Seq(Step) :
              /\ Begins(c, q) /\ phase'[c] # "free"
              /\ \A i \in DOMAIN q : q[i].op \notin {"change", "reactivate"}
<1>1. ASSUME NEW c \in Conn, NEW u \in User \cup {BadName}, OnOpen(c, u)
      PROVE  UNCHANGED todo \/ Goal
  <2>1. CASE UNCHANGED todo
    BY <2>1
  <2>2. CASE /\ u \in User /\ Join(c, u)
             /\ Then(c, <<CheckMonitors, NotifyJoined(u, JoinStatus(u))>>)
    <3> DEFINE q == <<CheckMonitors, NotifyJoined(u, JoinStatus(u))>>
    <3>1. q \in Seq(Step) /\ \A i \in DOMAIN q : q[i].op \notin {"change", "reactivate"}
      BY <1>0, <2>2, OpenedSteps
    <3>2. phase'[c] = "open"
      BY <1>0, <2>2 DEF Join, TypeOK
    <3>3. Begins(c, q)
      BY <1>1, <2>2, <3>1 DEF OnOpen, Then, Begins
    <3> HIDE DEF q
    <3> QED
      BY <3>1, <3>2, <3>3
  <2> QED
    BY <1>1, <2>1, <2>2 DEF OnOpen
<1>2. ASSUME NEW c \in Conn, NEW r \in Request, OnMessage(c, r)
      PROVE  Begins(c, Reactivation(c, r) \o Work(c, r))
  BY <1>0, <1>2, WorkType DEF OnMessage, Begins, Then
<1>3. ASSUME NEW c \in Conn, HandlerStep(c) PROVE QueueWorked(c)
  BY <1>0, <1>3, HandlerQueue
<1>4. ASSUME NEW c \in Conn, OnClose(c) PROVE Goal
  <2> DEFINE q == IF Owned(c) = {} THEN <<>> ELSE <<NotifyStatus(Sender(c), "DISCONNECTED")>>
  <2>1. q \in Seq(Step) /\ \A i \in DOMAIN q : q[i].op \notin {"change", "reactivate"}
    BY ClosedSteps
  <2>2. phase'[c] = "closed"
    BY <1>0, <1>4 DEF OnClose, Close, TypeOK
  <2>3. Begins(c, q)
    BY <1>4, <2>1 DEF OnClose, Then, Begins
  <2> HIDE DEF q
  <2> QED
    BY <2>1, <2>2, <2>3
<1> QED
  BY <1>1, <1>2, <1>3, <1>4
  DEF Next, Delete, MonitorPass, MonitorNotify, CleanupPass, MinutePasses, threadvars, vars

LEMMA PresenceTypeStep == PresInv /\ [Next]_vars => PresenceTypeOK'
<1> SUFFICES ASSUME PresInv, [Next]_vars PROVE PresenceTypeOK'
  OBVIOUS
<1>0. TypeOK /\ PresenceTypeOK
  BY DEF PresInv
<1>1. todo' \in [Conn -> Seq(Step)]
  BY <1>0, QueuesStep DEF QueueWorked, Begins, PresenceTypeOK
<1> DEFINE Threads(r, m, s) == /\ r \subseteq Conn
                               /\ m \in [Conn -> SUBSET User]
                               /\ \A d \in Conn \ r : m[d] = {}
                               /\ s \in BOOLEAN
<1>2. Threads(running', marked', monitor_started')
  <2>1. CASE UNCHANGED <<marked, running, monitor_started>>
    BY <1>0, <2>1 DEF PresenceTypeOK
  <2>2. ASSUME NEW c \in Conn, StartThreads(c) PROVE Threads(running', marked', monitor_started')
    BY <1>0, <2>2 DEF PresenceTypeOK, StartThreads
  <2>3. ASSUME NEW m \in Conn, MonitorPass(m) PROVE Threads(running', marked', monitor_started')
    <3>1. {u \in User : Idle(u)} \in SUBSET User
      OBVIOUS
    <3> QED
      BY <1>0, <2>3, <3>1 DEF PresenceTypeOK, MonitorPass
  <2>4. ASSUME NEW m \in Conn, NEW u \in User, MonitorNotify(m, u) PROVE Threads(running', marked', monitor_started')
    BY <1>0, <2>4 DEF PresenceTypeOK, MonitorNotify
  <2> QED
    BY <2>1, <2>2, <2>3, <2>4
    DEF Next, OnOpen, OnMessage, HandlerStep, TestMonitorStarted, SendJoined, SendStatus,
        RunUpdate, SendReply, OnClose, Delete, CleanupPass, MinutePasses, threadvars, vars
<1> DEFINE ToldTyped == told' \in [Conn -> [User -> Status \cup {Absent}]]
<1>3. ToldTyped
  <2>1. CASE UNCHANGED told
    BY <1>0, <2>1 DEF PresenceTypeOK
  <2>2. ASSUME NEW c \in Conn, SendJoined(c) \/ SendStatus(c) PROVE ToldTyped
    <3>1. Head(todo[c]) \in Step /\ Head(todo[c]).op \in {"joined", "status"}
      BY <1>0, <2>2, HeadRemoved DEF SendJoined, SendStatus, At, Ready, PresenceTypeOK
    <3>2. Head(todo[c]).user \in Name /\ Head(todo[c]).status \in Status
      BY <3>1, StepFields
    <3> QED
      BY <1>0, <2>2, <3>2, TellType DEF SendJoined, SendStatus
  <2>3. ASSUME NEW c \in Conn, SendReply(c) PROVE ToldTyped
    <3>1. \A u \in User : Registered(u) => connections[u].status \in Status
      BY <1>0 DEF TypeOK, Registered, Entry
    <3>2. PICK shown \in SUBSET {u \in User : Registered(u)} :
            told' = [told EXCEPT ![c] = [u \in User |->
              IF phase[c] = "open" /\ u \in shown THEN connections[u].status ELSE @[u]]]
      BY <2>3 DEF SendReply
    <3> QED
      BY <1>0, <3>1, <3>2 DEF PresenceTypeOK
  <2>4. ASSUME NEW c \in Conn, OnClose(c) PROVE ToldTyped
    BY <1>0, <2>4 DEF PresenceTypeOK, OnClose, NobodyTold
  <2>5. ASSUME NEW m \in Conn, NEW u \in User, MonitorNotify(m, u) PROVE ToldTyped
    BY <1>0, <2>5, TellType DEF MonitorNotify, Name, Status
  <2> QED
    BY <2>1, <2>2, <2>3, <2>4, <2>5
    DEF Next, OnOpen, OnMessage, HandlerStep, TestMonitorStarted, StartThreads, RunUpdate,
        Delete, MonitorPass, CleanupPass, MinutePasses, vars
<1> QED
  BY <1>1, <1>2, <1>3 DEF PresenceTypeOK

-----------------------------------------------------------------------------
(* The invariant.                                                          *)

(* An object goes away only between two callbacks. *)
LEMMA BusyStep == PresInv /\ [Next]_vars => Busy'
<1> SUFFICES ASSUME PresInv, [Next]_vars, NEW d \in Conn, ~Ready(d)'
             PROVE  phase'[d] # "free"
  BY DEF Busy
<1>0. TypeOK /\ PresenceTypeOK
  BY DEF PresInv
<1>1. ASSUME NEW c \in Conn, QueueWorked(c) PROVE ~Ready(d)
  BY <1>1 DEF QueueWorked, Ready
<1>2. CASE ~Ready(d)
  <2>1. phase[d] # "free"
    BY <1>2 DEF PresInv, Busy
  <2>2. ASSUME NEW c \in Conn, NEW u \in User \cup {BadName}, OnOpen(c, u) PROVE phase'[d] = phase[d]
    BY <1>0, <1>2, <2>2 DEF OnOpen, Join, Reject, TypeOK
  <2>3. ASSUME NEW c \in Conn, OnClose(c) PROVE phase'[d] = phase[d]
    BY <1>0, <1>2, <2>3 DEF OnClose, Close, TypeOK
  <2>4. ASSUME NEW c \in Conn, Delete(c) PROVE phase'[d] = phase[d]
    BY <1>0, <1>2, <2>4 DEF Delete, Destroy, TypeOK
  <2>5. CASE UNCHANGED phase
    BY <2>1, <2>5
  <2> QED
    BY <2>1, <2>2, <2>3, <2>4, <2>5
    DEF Next, OnMessage, Touch, HandlerStep, TestMonitorStarted, StartThreads, SendJoined,
        SendStatus, RunUpdate, SendReply, MonitorPass, MarkInactive, MonitorNotify,
        CleanupPass, Cleanup, MinutePasses, Minute, regvars, vars
<1>3. CASE Ready(d)
  <2>1. CASE UNCHANGED todo
    BY <1>3, <2>1 DEF Ready
  <2>2. ASSUME NEW c \in Conn, NEW r \in Request, OnMessage(c, r),
               Begins(c, Reactivation(c, r) \o Work(c, r))
        PROVE  phase'[d] # "free"
    BY <1>0, <1>3, <2>2 DEF OnMessage, Touch, Begins, Ready, PresenceTypeOK
  <2>3. ASSUME NEW c \in Conn, NEW q \in Seq(Step), Begins(c, q), phase'[c] # "free"
        PROVE  phase'[d] # "free"
    BY <1>0, <1>3, <2>3 DEF Begins, Ready, PresenceTypeOK
  <2> QED
    BY <1>1, <1>3, <2>1, <2>2, <2>3, QueuesStep
<1> QED
  BY <1>2, <1>3

(* A queue that is worked off holds no update it did not hold before. *)
LEMMA WorkedUpdates ==
  ASSUME PresenceTypeOK, NEW c \in Conn, QueueWorked(c),
         NEW d \in Conn, NEW n \in Updates(d)'
  PROVE  n \in Updates(d) /\ ~Ready(d)
<1>1. CASE d = c
  <2>1. PICK i \in 2 .. Len(todo[c]) : n = todo[c][i]
    BY <1>1 DEF QueueWorked
  <2>2. n.op \in {"change", "reactivate"}
    BY DEF Updates
  <2>3. i \in DOMAIN todo[c]
    BY <2>1 DEF PresenceTypeOK
  <2> QED
    BY <1>1, <2>1, <2>2, <2>3 DEF Updates, Pending, QueueWorked
<1>2. CASE d # c
  BY <1>2 DEF QueueWorked, Updates, Pending, Ready
<1> QED
  BY <1>1, <1>2

(* The updates that are pending after a step were pending before, or are   *)
(* decided on in it, by an on_message.                                     *)
LEMMA UpdatesStep ==
  ASSUME PresInv, [Next]_vars, NEW d \in Conn, NEW n \in Updates(d)'
  PROVE  \/ n \in Updates(d) /\ ~Ready(d)
         \/ /\ \E r \in Request : OnMessage(d, r)
            /\ n.user = Sender(d)
            /\ n.op = "reactivate" => \E u \in Owned(d) : connections[u].status = "INACTIVO"
<1>0. TypeOK /\ PresenceTypeOK
  BY DEF PresInv
<1>1. ASSUME n \in Updates(d) PROVE ~Ready(d)
  BY <1>0, <1>1 DEF Updates, Pending, Ready, PresenceTypeOK
<1>2. ASSUME NEW c \in Conn \ {d}, NEW q, Begins(c, q) PROVE n \in Updates(d)
  BY <1>0, <1>2 DEF Begins, Updates, Pending, PresenceTypeOK
<1>3. ASSUME NEW q, Begins(d, q) PROVE \E i \in DOMAIN q : n = q[i] /\ n.op \in {"change", "reactivate"}
  <2>1. todo'[d] = q
    BY <1>0, <1>3 DEF Begins, PresenceTypeOK
  <2> QED
    BY <2>1 DEF Updates, Pending
<1>4. CASE UNCHANGED todo
  BY <1>1, <1>4 DEF Updates, Pending
<1>5. CASE \E c \in Conn : QueueWorked(c)
  BY <1>0, <1>5, WorkedUpdates
<1>6. ASSUME NEW c \in Conn, NEW r \in Request, OnMessage(c, r),
             Begins(c, Reactivation(c, r) \o Work(c, r))
      PROVE  \/ n \in Updates(d)
             \/ /\ OnMessage(d, r)
                /\ n.user = Sender(d)
                /\ n.op = "reactivate" => \E u \in Owned(d) : connections[u].status = "INACTIVO"
  <2>1. CASE c = d
    <3> DEFINE q == Reactivation(c, r) \o Work(c, r)
    <3>1. \A i \in DOMAIN q :
            /\ q[i].op \in {"change", "reactivate"} => q[i].user = Sender(c)
            /\ q[i].op = "reactivate" =>
                 \E u \in Owned(c) : connections[u].status = "INACTIVO"
      BY <1>0, WorkType
    <3>2. Begins(d, q)
      BY <1>6, <2>1
    <3> HIDE DEF q
    <3>3. PICK i \in DOMAIN q : n = q[i] /\ n.op \in {"change", "reactivate"}
      BY <1>3, <3>2
    <3> QED
      BY <1>6, <2>1, <3>1, <3>3
  <2> QED
    BY <1>2, <1>6, <2>1
<1>7. ASSUME NEW c \in Conn, NEW q \in Seq(Step), Begins(c, q),
             \A i \in DOMAIN q : q[i].op \notin {"change", "reactivate"}
      PROVE  n \in Updates(d)
  BY <1>2, <1>3, <1>7
<1> QED
  BY <1>1, <1>4, <1>5, <1>6, <1>7, QueuesStep

LEMMA PendingUpdateStep == PresInv /\ [Next]_vars => PendingUpdateIsOwn'
<1> SUFFICES ASSUME PresInv, [Next]_vars, NEW d \in Conn, NEW n \in Updates(d)'
             PROVE  n.user = Sender(d)'
  BY DEF PendingUpdateIsOwn
<1>0. TypeOK
  BY DEF PresInv
<1>1. CASE n \in Updates(d) /\ ~Ready(d)
  <2>1. n.user = Sender(d) /\ Owned(d)' = Owned(d)
    BY <1>1, OwnersStep DEF PresInv, PendingUpdateIsOwn, OwnersKept
  <2> QED
    BY <2>1 DEF Sender
<1>2. CASE n.user = Sender(d) /\ \E r \in Request : OnMessage(d, r)
  <2>1. Owned(d)' = Owned(d)
    BY <1>0, <1>2, TouchKeepsOwners, SameOwned DEF OnMessage
  <2> QED
    BY <1>2, <2>1 DEF Sender
<1> QED
  BY <1>1, <1>2, UpdatesStep

LEMMA PresInit == Init => PresInv
<1> SUFFICES ASSUME Init PROVE PresInv
  OBVIOUS
<1>1. TypeOK /\ OwnershipAgrees
  BY TypeInit, OwnershipInit DEF Init
<1>2. PresenceTypeOK
  <2>1. <<>> \in Seq(Step) /\ NobodyTold \in [User -> Status \cup {Absent}]
    BY DEF NobodyTold
  <2>2. /\ todo \in [Conn -> Seq(Step)]
        /\ told \in [Conn -> [User -> Status \cup {Absent}]]
    BY <2>1 DEF Init
  <2>3. /\ running \subseteq Conn
        /\ marked \in [Conn -> SUBSET User]
        /\ \A m \in Conn \ running : marked[m] = {}
    BY DEF Init
  <2>4. monitor_started \in BOOLEAN
    BY DEF Init
  <2> QED
    BY <2>2, <2>3, <2>4 DEF PresenceTypeOK
<1>3. Busy /\ PendingUpdateIsOwn
  BY DEF Init, Busy, Ready, PendingUpdateIsOwn, Updates, Pending
<1> QED
  BY <1>1, <1>2, <1>3 DEF PresInv

LEMMA PresStep == PresInv /\ [Next]_vars => PresInv'
<1> SUFFICES ASSUME PresInv, [Next]_vars PROVE PresInv'
  OBVIOUS
<1>1. TypeOK' /\ OwnershipAgrees'
  BY RegistryStep, TypeStep, OwnershipStep DEF PresInv
<1> QED
  BY <1>1, PresenceTypeStep, BusyStep, PendingUpdateStep DEF PresInv

-----------------------------------------------------------------------------
(* The handlers and threads, whatever their order, keep the types of their *)
(* locals.                                                                 *)
THEOREM PresenceTypeCorrect == Spec => []PresenceTypeOK
<1>1. PresInv => PresenceTypeOK
  BY DEF PresInv
<1> QED
  BY <1>1, PresInit, PresStep, PTL DEF Spec

(* The name a handler read under the lock is the owner of its connection   *)
(* when it is used: no client changes another one's status.                *)
THEOREM UpdatesCorrect == Spec => []PendingUpdateIsOwn
<1>1. PresInv => PendingUpdateIsOwn
  BY DEF PresInv
<1> QED
  BY <1>1, PresInit, PresStep, PTL DEF Spec

(* The interleaved handlers and threads implement the registry.            *)
THEOREM RefinementCorrect == Spec => ImplementsRegistry
<1>1. Init => RegInit
  BY DEF Init
<1> QED
  BY <1>1, PresInit, PresStep, RegistryStep, PTL DEF Spec, ImplementsRegistry, RegSpec

-----------------------------------------------------------------------------
(* The reactivation.  It is decided on when its user is INACTIVO, is the   *)
(* first thing its handler does, and nobody else changes the status of     *)
(* that user meanwhile: the monitor passes over it, its connection cannot  *)
(* close, and the other handlers change their own users.                   *)

ReactInv == PresInv /\ ReactivatesFirst /\ ReactivationStillNeeded

LEMMA FirstStep == ReactInv /\ [Next]_vars => ReactivatesFirst'
<1> SUFFICES ASSUME ReactInv, [Next]_vars, NEW d \in Conn, NEW i \in DOMAIN todo'[d],
                    todo'[d][i].op = "reactivate"
             PROVE  i = 1
  BY DEF ReactivatesFirst
<1>0. PresInv /\ TypeOK /\ PresenceTypeOK /\ ReactivatesFirst
  BY DEF ReactInv, PresInv
<1>1. todo'[d] = todo[d] => i = 1
  BY <1>0 DEF ReactivatesFirst
<1>2. ASSUME NEW c \in Conn, QueueWorked(c) PROVE i = 1
  <2>1. CASE c = d
    <3>1. todo'[d][i] \in Updates(d)'
      BY DEF Updates, Pending
    <3>2. PICK j \in 2 .. Len(todo[d]) : todo'[d][i] = todo[d][j]
      BY <1>2, <2>1, <3>1 DEF QueueWorked
    <3>3. j \in DOMAIN todo[d]
      BY <1>0, <3>2 DEF PresenceTypeOK
    <3>4. j = 1
      BY <1>0, <3>2, <3>3 DEF ReactivatesFirst
    <3> QED
      BY <3>4
  <2> QED
    BY <1>1, <1>2, <2>1 DEF QueueWorked
<1>3. ASSUME NEW c \in Conn, NEW r \in Request, OnMessage(c, r),
             Begins(c, Reactivation(c, r) \o Work(c, r))
      PROVE  i = 1
  <2> DEFINE q == Reactivation(c, r) \o Work(c, r)
  <2>1. \A k \in DOMAIN q : q[k].op = "reactivate" => k = 1
    BY <1>0, WorkType
  <2>2. Begins(c, q)
    BY <1>3
  <2> HIDE DEF q
  <2> QED
    BY <1>0, <1>1, <2>1, <2>2 DEF Begins, PresenceTypeOK
<1>4. ASSUME NEW c \in Conn, NEW q \in Seq(Step), Begins(c, q),
             \A k \in DOMAIN q : q[k].op \notin {"change", "reactivate"}
      PROVE  i = 1
  BY <1>0, <1>1, <1>4 DEF Begins, PresenceTypeOK
<1> QED
  BY <1>0, <1>1, <1>2, <1>3, <1>4, QueuesStep

(* What another handler updates is not this owner's entry.                 *)
LEMMA UpdateElsewhere ==
  ASSUME PresInv, NEW d \in Conn, NEW u \in Owned(d) \ {Desconocido},
         NEW c \in Conn \ {d}, RunUpdate(c)
  PROVE  connections'[u] = connections[u]
<1>1. SetStatus(Sender(c), Head(todo[c]).status)
  BY RunUpdateIsOwn DEF UpdateStatus
<1>2. u # Sender(c)
  <2>1. SUFFICES ASSUME u = Sender(c) PROVE FALSE
    OBVIOUS
  <2>2. Sender(c) \in Owned(c)
    BY <2>1 DEF Sender, Owned
  <2> QED
    BY <2>1, <2>2 DEF Owned, Owns
<1> QED
  BY <1>1, <1>2 DEF SetStatus, Owned

(* An owner keeps its entry until its connection closes, and its status is *)
(* changed by its own handler, or to INACTIVO.                             *)
LEMMA EntryKept ==
  ASSUME PresInv, [Next]_vars, NEW d \in Conn, NEW u \in Owned(d) \ {Desconocido},
         ~RunUpdate(d), ~OnClose(d)
  PROVE  Owns(d, u)' /\ connections'[u].status \in {connections[u].status, "INACTIVO"}
<1>0. TypeOK /\ PresenceTypeOK /\ OwnershipAgrees
  BY DEF PresInv
<1>1. u \in User /\ Owns(d, u) /\ connections[u] \in Entry /\ Connected(u)
  BY <1>0, RegistryAssumption DEF Owned, Owns, TypeOK, Registered, Connected
<1> DEFINE Same == connections'[u] = connections[u]
           SameStatus == connections'[u].status \in {connections[u].status, "INACTIVO"}
<1>2. ASSUME NEW c \in Conn, NEW v \in User \cup {BadName}, OnOpen(c, v) PROVE Same
  BY <1>0, <1>1, <1>2 DEF OnOpen, Reject, Join, TypeOK
<1>3. ASSUME NEW c \in Conn, NEW r \in Request, OnMessage(c, r)
      PROVE  SameOwners /\ SameStatus
  <2>1. SameOwners
    BY <1>0, <1>3, TouchKeepsOwners DEF OnMessage
  <2> QED
    BY <1>1, <1>3, <2>1 DEF OnMessage, Touch, Entry
<1>4. ASSUME NEW c \in Conn, HandlerStep(c) PROVE Same
  BY <1>4, UpdateElsewhere
  DEF HandlerStep, TestMonitorStarted, StartThreads, SendJoined, SendStatus, SendReply, regvars
<1>5. ASSUME NEW c \in Conn, OnClose(c) PROVE Same
  <2>1. u \notin Owned(c)
    BY <1>1, <1>5 DEF Owned, Owns
  <2> QED
    BY <1>0, <1>1, <1>5, <2>1 DEF OnClose, Close, TypeOK, Owned
<1>6. ASSUME NEW m \in Conn, MonitorPass(m) PROVE SameOwners /\ SameStatus
  <2>1. SameOwners
    BY <1>0, <1>6, MarkKeepsOwners DEF MonitorPass
  <2>2. SameStatus
    BY <1>1, <1>6 DEF MonitorPass, MarkInactive, Entry
  <2> QED
    BY <2>1, <2>2
<1>7. ASSUME NEW v \in User, MinutePasses(v) PROVE SameOwners /\ SameStatus
  <2>1. SameOwners
    BY <1>0, <1>7, MinuteKeepsOwners DEF MinutePasses
  <2>2. SameStatus
    BY <1>0, <1>1, <1>7 DEF MinutePasses, Minute, TypeOK, Entry
  <2> QED
    BY <2>1, <2>2
<1>8. ASSUME Same PROVE Owns(d, u)' /\ SameStatus
  BY <1>1, <1>8 DEF Owns, Registered
<1>9. ASSUME SameOwners PROVE Owns(d, u)'
  BY <1>1, <1>9 DEF Owns, SameOwners
<1>10. Same \/ (SameOwners /\ SameStatus)
  <2>1. CASE CleanupPass
    BY <1>1, <2>1 DEF CleanupPass, Cleanup, Expired
  <2>2. CASE UNCHANGED connections
    BY <2>2
  <2> QED
    BY <1>2, <1>3, <1>4, <1>5, <1>6, <1>7, <2>1, <2>2
    DEF Next, Delete, Destroy, MonitorNotify, regvars, vars
<1> QED
  BY <1>8, <1>9, <1>10

LEMMA ReactivationStep ==
  ASSUME ReactInv, [Next]_vars
  PROVE  ReactivationStillNeeded'
<1>0. PresInv /\ TypeOK /\ PresenceTypeOK /\ OwnershipAgrees
  BY DEF ReactInv, PresInv
<1> SUFFICES ASSUME NEW d \in Conn, NEW n \in Updates(d)',
                    n.op = "reactivate", n.user # Desconocido
             PROVE  n.user \in Owned(d)' /\ connections'[n.user].status = "INACTIVO"
  BY DEF ReactivationStillNeeded
<1>1. CASE n \in Updates(d) /\ ~Ready(d)
  <2>1. n.user \in Owned(d) /\ connections[n.user].status = "INACTIVO"
    BY <1>1 DEF ReactInv, ReactivationStillNeeded
  <2>2. ~RunUpdate(d)
    <3>1. SUFFICES ASSUME RunUpdate(d) PROVE FALSE
      OBVIOUS
    <3>2. QueueWorked(d)
      BY <1>0, <3>1, HandlerQueue DEF HandlerStep
    <3>3. PICK j \in 2 .. Len(todo[d]) : n = todo[d][j]
      BY <3>2 DEF QueueWorked
    <3>4. j \in DOMAIN todo[d]
      BY <1>0, <3>3 DEF PresenceTypeOK
    <3>5. j = 1
      BY <3>3, <3>4 DEF ReactInv, ReactivatesFirst
    <3> QED
      BY <3>5
  <2>3. ~OnClose(d)
    BY <1>1 DEF OnClose
  <2>4. connections'[n.user].status = "INACTIVO"
    BY <1>0, <2>1, <2>2, <2>3, EntryKept
  <2>5. n.user \in Owned(d)'
    BY <1>0, <1>1, <2>1, OwnersStep DEF OwnersKept
  <2> QED
    BY <2>4, <2>5
<1>2. ASSUME NEW r \in Request, OnMessage(d, r), n.user = Sender(d),
             NEW u \in Owned(d), connections[u].status = "INACTIVO"
      PROVE  n.user \in Owned(d)' /\ connections'[n.user].status = "INACTIVO"
  <2>1. u = n.user
    BY <1>0, <1>2, OnlyOwner
  <2>2. Owned(d)' = Owned(d)
    BY <1>0, <1>2, TouchKeepsOwners, SameOwned DEF OnMessage
  <2>3. u \in User /\ connections[u] \in Entry
    BY <1>0 DEF Owned, Owns, TypeOK, Registered
  <2>4. connections'[u].status = connections[u].status
    BY <1>2, <2>3 DEF OnMessage, Touch, Entry
  <2> QED
    BY <1>2, <2>1, <2>2, <2>4
<1> QED
  BY <1>0, <1>1, <1>2, UpdatesStep

(* Between the test for INACTIVO and update_status(ACTIVO) nothing makes   *)
(* the user something else, whatever the users are called: only the status *)
(* of one called Desconocido can a connection without an entry change.     *)
THEOREM ReactivationCorrect == Spec => []ReactivationStillNeeded
<1>1. Init => ReactInv
  BY PresInit
  DEF ReactInv, Init, ReactivatesFirst, ReactivationStillNeeded, Updates, Pending
<1>2. ReactInv /\ [Next]_vars => ReactInv'
  <2>1. ReactInv /\ [Next]_vars => PresInv'
    BY PresStep DEF ReactInv
  <2> QED
    BY <2>1, FirstStep, ReactivationStep DEF ReactInv
<1>3. ReactInv => ReactivationStillNeeded
  BY DEF ReactInv
<1> QED
  BY <1>1, <1>2, <1>3, PTL DEF Spec

-----------------------------------------------------------------------------
(* What the clients are left with.  A handler that has changed a status    *)
(* has the notification ahead of it, and while it has, nobody else changes *)
(* that status, but for the monitor.  So a client shows the status a user  *)
(* has, or will be told of it, or has been told DISCONNECTED by the user's *)
(* last session or INACTIVO by a monitor.                                  *)

Notices(c) == {n \in Pending(c) : n.op \in {"joined", "status"}}

UpdatesAlone == \A c \in Conn : Updates(c) # {} => Len(todo[c]) = 1

(* A pending notification is not outdated but by the monitor. *)
Fresh(c, n) ==
  \/ n.status = "DISCONNECTED"
  \/ n.user \in Owned(c) /\ connections[n.user].status \in {n.status, "INACTIVO"}

NoticesFresh ==
  \A c \in Conn : \A n \in Notices(c) : n.user # Desconocido => Fresh(c, n)

NobodyToldEarly == \A d \in Conn : phase[d] # "open" => told[d] = NobodyTold

Settled(d, u) ==
  \/ told[d][u] \in {Absent, "DISCONNECTED", connections[u].status}
  \/ "INACTIVO" \in {told[d][u], connections[u].status}

NoticeAhead(u) ==
  \E n \in Notices(connections[u].conn) :
    n.user = u /\ n.status = connections[u].status

ViewsKept ==
  \A d \in Conn, u \in User \ {Desconocido} :
    phase[d] = "open" /\ Connected(u) /\ ~Owns(d, u) => Settled(d, u) \/ NoticeAhead(u)

ViewsInv == PresInv /\ UpdatesAlone /\ NoticesFresh /\ NobodyToldEarly /\ ViewsKept

(* A message leaves at most one thing to do, and no notification.          *)
LEMMA WorkShort ==
  ASSUME NEW c \in Conn, NEW r \in Request
  PROVE  LET q == Reactivation(c, r) \o Work(c, r) IN
         /\ Len(q) <= 1
         /\ \A i \in DOMAIN q : q[i].op \notin {"joined", "status"}
<1>1. \/ Reactivation(c, r) = <<>>
      \/ r.op = "message" /\ Reactivation(c, r) = <<Reactivate(Sender(c))>>
  BY DEF Reactivation
<1>2. \/ Work(c, r) = <<>>
      \/ r.op = "change" /\ Work(c, r) = <<Change(r.user, r.status)>>
      \/ r.op \in {"list", "info"} /\ Work(c, r) = <<r>>
  BY DEF Work
<1>3. CASE Reactivation(c, r) = <<>>
  <2>1. CASE Work(c, r) = <<>>
    BY <1>3, <2>1
  <2>2. ASSUME NEW s, s.op \notin {"joined", "status"}, Work(c, r) = <<s>>
        PROVE  LET q == Reactivation(c, r) \o Work(c, r) IN
               /\ Len(q) <= 1
               /\ \A i \in DOMAIN q : q[i].op \notin {"joined", "status"}
    <3>1. <<>> \o <<s>> = <<s>> /\ Len(<<s>>) = 1 /\ DOMAIN <<s>> = {1} /\ <<s>>[1] = s
      OBVIOUS
    <3> QED
      BY <1>3, <2>2, <3>1
  <2> QED
    BY <1>2, <2>1, <2>2 DEF Change
<1>4. CASE r.op = "message" /\ Reactivation(c, r) = <<Reactivate(Sender(c))>>
  BY <1>2, <1>4 DEF Reactivate
<1> QED
  BY <1>1, <1>3, <1>4

LEMMA AloneStep == ViewsInv /\ [Next]_vars => UpdatesAlone'
<1> SUFFICES ASSUME ViewsInv, [Next]_vars, NEW d \in Conn, NEW n \in Updates(d)'
             PROVE  Len(todo'[d]) = 1
  BY DEF UpdatesAlone
<1>0. PresInv /\ PresenceTypeOK /\ UpdatesAlone
  BY DEF ViewsInv, PresInv
<1>1. CASE todo'[d] = todo[d]
  BY <1>0, <1>1 DEF UpdatesAlone, Updates, Pending
<1>2. ASSUME NEW c \in Conn, QueueWorked(c) PROVE Len(todo'[d]) = 1
  <2>1. CASE c = d
    <3>1. PICK i \in 2 .. Len(todo[d]) : n = todo[d][i]
      BY <1>2, <2>1 DEF QueueWorked
    <3>2. n \in Updates(d)
      BY <1>0, <1>2, <2>1, WorkedUpdates
    <3>3. Len(todo[d]) = 1
      BY <1>0, <3>2 DEF UpdatesAlone
    <3> QED
      BY <3>1, <3>3
  <2> QED
    BY <1>1, <1>2, <2>1 DEF QueueWorked
<1>3. ASSUME NEW c \in Conn, NEW r \in Request,
             Begins(c, Reactivation(c, r) \o Work(c, r))
      PROVE  Len(todo'[d]) = 1
  <2> DEFINE q == Reactivation(c, r) \o Work(c, r)
  <2>1. Len(q) <= 1 /\ q \in Seq(Step) /\ Begins(c, q)
    BY <1>3, WorkShort DEF Begins
  <2> HIDE DEF q
  <2>2. CASE c = d
    <3>1. todo'[d] = q
      BY <1>0, <2>1, <2>2 DEF Begins, PresenceTypeOK
    <3>2. PICK i \in DOMAIN q : n = q[i]
      BY <3>1 DEF Updates, Pending
    <3>3. Len(q) \in Nat /\ i \in 1 .. Len(q) /\ Len(q) <= 1
      BY <2>1
    <3>4. \A k \in Nat : \A j \in 1 .. k : k <= 1 => k = 1
      OBVIOUS
    <3> QED
      BY <3>1, <3>3, <3>4
  <2> QED
    BY <1>0, <1>1, <2>1, <2>2 DEF Begins, PresenceTypeOK
<1>4. ASSUME NEW c \in Conn, NEW q \in Seq(Step), Begins(c, q),
             \A k \in DOMAIN q : q[k].op \notin {"change", "reactivate"}
      PROVE  Len(todo'[d]) = 1
  <2>1. CASE c = d
    BY <1>0, <1>4, <2>1 DEF Begins, PresenceTypeOK, Updates, Pending
  <2> QED
    BY <1>0, <1>1, <1>4, <2>1 DEF Begins, PresenceTypeOK
<1> QED
  BY <1>0, <1>1, <1>2, <1>3, <1>4, QueuesStep

(* Going on takes at most the head off the notifications.                  *)
LEMMA ContinueNotices ==
  ASSUME PresenceTypeOK, NEW c \in Conn, ~Ready(c), Continue(c)
  PROVE  /\ Notices(c)' \subseteq Notices(c)
         /\ Notices(c) \ {Head(todo[c])} \subseteq Notices(c)'
<1>1. todo[c] \in Seq(Step) /\ todo[c] # <<>> /\ todo'[c] = Tail(todo[c])
  BY DEF PresenceTypeOK, Ready, Continue, Then
<1>2. ASSUME NEW i \in DOMAIN todo'[c] PROVE todo'[c][i] \in Pending(c)
  <2>1. todo'[c][i] = todo[c][i + 1] /\ i + 1 \in DOMAIN todo[c]
    BY <1>1
  <2> QED
    BY <2>1 DEF Pending
<1>3. ASSUME NEW i \in DOMAIN todo[c], todo[c][i] # Head(todo[c])
      PROVE  todo[c][i] \in Pending(c)'
  <2>1. i # 1
    BY <1>1, <1>3
  <2>2. i - 1 \in DOMAIN todo'[c] /\ todo'[c][i - 1] = todo[c][i]
    BY <1>1, <2>1
  <2> QED
    BY <2>2 DEF Pending
<1> QED
  BY <1>2, <1>3 DEF Notices, Pending

(* The notifications of a connection are new or old, and an old one goes   *)
(* only by being sent, or with the handler's update.                       *)
LEMMA NoticesStep ==
  ASSUME ViewsInv, [Next]_vars, NEW d \in Conn, NEW n
  PROVE  /\ n \in Notices(d)' /\ n \notin Notices(d) =>
              \/ \E u \in User : Join(d, u) /\ n = NotifyJoined(u, JoinStatus(u))
              \/ OnClose(d) /\ n = NotifyStatus(Sender(d), "DISCONNECTED")
              \/ RunUpdate(d) /\ n = NotifyStatus(Head(todo[d]).user, Head(todo[d]).status)
         /\ n \in Notices(d) /\ n \notin Notices(d)' =>
              \/ RunUpdate(d)
              \/ (SendJoined(d) \/ SendStatus(d)) /\ n = Head(todo[d])
<1>0. PresInv /\ TypeOK /\ PresenceTypeOK /\ UpdatesAlone
  BY DEF ViewsInv, PresInv
<1>1. ASSUME todo'[d] = todo[d] PROVE Notices(d)' = Notices(d)
  BY <1>1 DEF Notices, Pending
<1>2. ASSUME Ready(d) PROVE Notices(d) = {}
  BY <1>2 DEF Ready, Notices, Pending
<1>3. ASSUME NEW q, Then(d, q) PROVE todo'[d] = q
  BY <1>0, <1>3 DEF Then, PresenceTypeOK
<1>4. ASSUME NEW c \in Conn \ {d}, NEW q, Then(c, q) PROVE todo'[d] = todo[d]
  BY <1>0, <1>4 DEF Then, PresenceTypeOK
<1>5. ASSUME NEW u \in User \cup {BadName}, OnOpen(d, u),
             n \in Notices(d)', n \notin Notices(d)
      PROVE  \E v \in User : Join(d, v) /\ n = NotifyJoined(v, JoinStatus(v))
  <2>1. u \in User /\ Join(d, u) /\ todo'[d] = <<CheckMonitors, NotifyJoined(u, JoinStatus(u))>>
    BY <1>1, <1>3, <1>5 DEF OnOpen
  <2> QED
    BY <1>5, <2>1 DEF Notices, Pending, CheckMonitors
<1>6. ASSUME NEW r \in Request, OnMessage(d, r) PROVE Notices(d)' = {}
  <2> DEFINE q == Reactivation(d, r) \o Work(d, r)
  <2>1. todo'[d] = q /\ \A i \in DOMAIN q : q[i].op \notin {"joined", "status"}
    BY <1>3, <1>6, WorkShort DEF OnMessage
  <2> HIDE DEF q
  <2> QED
    BY <2>1 DEF Notices, Pending
<1>7. ASSUME OnClose(d), n \in Notices(d)'
      PROVE  n = NotifyStatus(Sender(d), "DISCONNECTED")
  BY <1>3, <1>7 DEF OnClose, Notices, Pending
<1>8. ASSUME HandlerStep(d), ~RunUpdate(d)
      PROVE  /\ n \in Notices(d)' => n \in Notices(d)
             /\ n \in Notices(d) /\ n \notin Notices(d)' =>
                  (SendJoined(d) \/ SendStatus(d)) /\ n = Head(todo[d])
  <2>1. ~Ready(d) /\ todo[d] \in Seq(Step) /\ todo[d] # <<>>
    BY <1>0, <1>8
    DEF HandlerStep, TestMonitorStarted, StartThreads, SendJoined, SendStatus, SendReply,
        At, Ready, PresenceTypeOK
  <2>2. CASE Continue(d)
    <3>1. CASE SendJoined(d) \/ SendStatus(d)
      BY <1>0, <2>1, <2>2, <3>1, ContinueNotices
    <3>2. CASE Head(todo[d]).op \in {"check", "start", "list", "info"}
      BY <1>0, <2>1, <2>2, <3>2, ContinueNotices DEF Notices
    <3> QED
      BY <1>8, <3>1, <3>2 DEF HandlerStep, TestMonitorStarted, StartThreads, SendReply, At
  <2>3. CASE At(d, "check") /\ Then(d, <<StartMonitors>> \o Tail(todo[d]))
    <3> DEFINE r == <<StartMonitors>> \o Tail(todo[d])
    <3>1. StartMonitors \in Step /\ StartMonitors.op = "start" /\ todo[d][1].op = "check"
      BY <2>1, <2>3 DEF Step, StartMonitors, At
    <3>2. /\ todo'[d] = r /\ r \in Seq(Step) /\ Len(r) = Len(todo[d]) /\ r[1].op = "start"
          /\ \A i \in 2 .. Len(todo[d]) : r[i] = todo[d][i]
      BY <1>3, <2>1, <2>3, <3>1, HeadReplaced
    <3> HIDE DEF r
    <3>3. DOMAIN r = DOMAIN todo[d] /\ \A i \in DOMAIN r : i = 1 \/ i \in 2 .. Len(todo[d])
      BY <2>1, <3>2
    <3> QED
      BY <3>1, <3>2, <3>3 DEF Notices, Pending
  <2> QED
    BY <1>8, <2>2, <2>3
    DEF HandlerStep, TestMonitorStarted, StartThreads, SendJoined, SendStatus, SendReply
<1>9. ASSUME RunUpdate(d), n \in Notices(d)'
      PROVE  n = NotifyStatus(Head(todo[d]).user, Head(todo[d]).status)
  <2> DEFINE h == Head(todo[d])
  <2>1. ~Ready(d) /\ h.op \in {"reactivate", "change"}
    BY <1>9 DEF RunUpdate, At
  <2>2. h \in Step /\ h = todo[d][1] /\ 1 \in DOMAIN todo[d] /\ todo[d] \in Seq(Step)
    BY <1>0, <2>1, HeadRemoved DEF PresenceTypeOK, Ready
  <2>3. Len(todo[d]) = 1
    BY <1>0, <2>1, <2>2 DEF UpdatesAlone, Updates, Pending
  <2>4. CASE Continue(d)
    <3>1. todo'[d] = Tail(todo[d])
      BY <1>3, <2>4 DEF Continue
    <3>2. DOMAIN Tail(todo[d]) = 1 .. Len(todo[d]) - 1
      BY <2>1, <2>2, HeadRemoved DEF Ready
    <3>3. DOMAIN todo'[d] = {}
      BY <2>3, <3>1, <3>2
    <3> QED
      BY <1>9, <3>3 DEF Notices, Pending
  <2>5. CASE Then(d, <<NotifyStatus(h.user, h.status)>> \o Tail(todo[d]))
    <3> DEFINE s == NotifyStatus(h.user, h.status)
               q == <<s>> \o Tail(todo[d])
    <3>0. s \in Step
      BY <2>1, <2>2, StepFields DEF NotifyStatus, Step
    <3>1. todo'[d] = q /\ DOMAIN q = {1} /\ q[1] = s
      <4> HIDE DEF s
      <4>1. q \in Seq(Step) /\ Len(q) = 1 /\ q[1] = s
        BY <2>1, <2>2, <2>3, <3>0, HeadReplaced DEF Ready
      <4>2. todo'[d] = q
        BY <1>3, <2>5 DEF s
      <4> QED
        BY <4>1, <4>2
    <3> HIDE DEF q
    <3> QED
      BY <1>9, <3>1 DEF Notices, Pending
  <2> QED
    BY <1>9, <2>4, <2>5 DEF RunUpdate
<1>10. CASE todo'[d] = todo[d]
  BY <1>1, <1>10
<1>11. CASE \E u \in User \cup {BadName} : OnOpen(d, u)
  BY <1>2, <1>5, <1>11 DEF OnOpen
<1>12. CASE \E r \in Request : OnMessage(d, r)
  BY <1>2, <1>6, <1>12 DEF OnMessage
<1>13. CASE OnClose(d)
  BY <1>2, <1>7, <1>13 DEF OnClose
<1>14. CASE HandlerStep(d)
  BY <1>8, <1>9, <1>14
<1>15. ASSUME NEW c \in Conn \ {d}, HandlerStep(c) PROVE todo'[d] = todo[d]
  BY <1>0, <1>15, HandlerQueue DEF QueueWorked
<1>16. ASSUME NEW c \in Conn \ {d},
              \/ \E u \in User \cup {BadName} : OnOpen(c, u)
              \/ \E r \in Request : OnMessage(c, r)
              \/ OnClose(c)
       PROVE  todo'[d] = todo[d]
  BY <1>4, <1>16 DEF OnOpen, OnMessage, OnClose
<1>17. CASE UNCHANGED todo
  BY <1>10, <1>17
<1> QED
  BY <1>10, <1>11, <1>12, <1>13, <1>14, <1>15, <1>16, <1>17
  DEF Next, Delete, MonitorPass, MonitorNotify, CleanupPass, MinutePasses, threadvars, vars

(* A handler that works owns its notifications' user, or sends its goodbye.*)
LEMMA FreshStep == ViewsInv /\ [Next]_vars => NoticesFresh'
<1> SUFFICES ASSUME ViewsInv, [Next]_vars, NEW c \in Conn, NEW n \in Notices(c)',
                    n.user # Desconocido
             PROVE  Fresh(c, n)'
  BY DEF NoticesFresh
<1>0. PresInv /\ TypeOK /\ PresenceTypeOK /\ OwnershipAgrees /\ NoticesFresh
  BY DEF ViewsInv, PresInv
<1>1. CASE n \in Notices(c) /\ ~RunUpdate(c)
  <2>1. ~Ready(c)
    BY <1>1 DEF Notices, Pending, Ready
  <2>2. ~OnClose(c)
    BY <2>1 DEF OnClose
  <2>3. Fresh(c, n)
    BY <1>0, <1>1 DEF NoticesFresh
  <2>4. CASE n.user \in Owned(c) /\ connections[n.user].status \in {n.status, "INACTIVO"}
    <3>1. /\ Owns(c, n.user)'
          /\ connections'[n.user].status \in {connections[n.user].status, "INACTIVO"}
      BY <1>0, <1>1, <2>2, <2>4, EntryKept
    <3> QED
      BY <2>4, <3>1 DEF Fresh, Owned
  <2> QED
    BY <2>3, <2>4 DEF Fresh
<1>2. ASSUME NEW u \in User, Join(c, u), n = NotifyJoined(u, JoinStatus(u))
      PROVE  Fresh(c, n)'
  <2>1. connections'[u] = [conn |-> c, status |-> JoinStatus(u), age |-> 0]
    BY <1>0, <1>2 DEF Join, TypeOK
  <2>2. connections'[u] \in Entry
    BY <1>0, <2>1, JoinStatusType, RegistryAssumption DEF Entry
  <2>3. u \in Owned(c)'
    BY <2>1, <2>2, RegistryAssumption DEF Owned, Owns, Registered
  <2> QED
    BY <1>2, <2>1, <2>3 DEF Fresh, NotifyJoined
<1>3. CASE n = NotifyStatus(Sender(c), "DISCONNECTED")
  BY <1>3 DEF Fresh, NotifyStatus
<1>4. ASSUME RunUpdate(c), n = NotifyStatus(Head(todo[c]).user, Head(todo[c]).status)
      PROVE  Fresh(c, n)'
  <2>1. n.user = Sender(c) /\ n.status = Head(todo[c]).status
    <3>1. Head(todo[c]) \in Updates(c)
      BY <1>0, <1>4, HeadRemoved DEF RunUpdate, At, Ready, PresenceTypeOK, Updates, Pending
    <3> QED
      BY <1>0, <1>4, <3>1 DEF PresInv, PendingUpdateIsOwn, NotifyStatus
  <2>2. n.user \in Owned(c)
    BY <2>1 DEF Sender
  <2>3. Owned(c)' = Owned(c)
    BY <1>0, <1>4, OwnersStep DEF OwnersKept, RunUpdate, At
  <2>4. connections'[n.user].status = n.status
    BY <1>4, <2>1, <2>2 DEF RunUpdate, SetStatus, Owned, Owns, NotifyStatus
  <2> QED
    BY <2>2, <2>3, <2>4 DEF Fresh
<1>5. CASE RunUpdate(c)
  <2>1. n \notin Notices(c)
    <3>1. SUFFICES ASSUME n \in Notices(c) PROVE FALSE
      OBVIOUS
    <3>2. Head(todo[c]) \in Updates(c) /\ todo[c] \in Seq(Step) /\ Head(todo[c]) = todo[c][1]
      BY <1>0, <1>5, HeadRemoved DEF RunUpdate, At, Ready, PresenceTypeOK, Updates, Pending
    <3>3. Len(todo[c]) = 1
      BY <3>2 DEF ViewsInv, UpdatesAlone
    <3>4. n = Head(todo[c])
      BY <3>1, <3>2, <3>3 DEF Notices, Pending
    <3> QED
      BY <3>1, <3>2, <3>4 DEF Notices, Updates
  <2> QED
    BY <1>2, <1>3, <1>4, <2>1, NoticesStep
<1> QED
  BY <1>1, <1>2, <1>3, <1>4, <1>5, NoticesStep

(* Notifications go to the users who are connected, replies to one.        *)
LEMMA ListenersOpen ==
  ASSUME PresInv, NEW names \in SUBSET User
  PROVE  \A d \in Listeners(names) : phase[d] = "open"
  BY DEF PresInv, OwnershipAgrees, Listeners

LEMMA EarlyStep == ViewsInv /\ [Next]_vars => NobodyToldEarly'
<1> SUFFICES ASSUME ViewsInv, [Next]_vars, NEW d \in Conn, phase'[d] # "open"
             PROVE  told'[d] = NobodyTold
  BY DEF NobodyToldEarly, NobodyTold
<1>0. PresInv /\ TypeOK /\ PresenceTypeOK /\ NobodyToldEarly
  BY DEF ViewsInv, PresInv
<1>1. ASSUME OnClose(d) PROVE told'[d] = NobodyTold
  BY <1>0, <1>1 DEF OnClose, PresenceTypeOK
<1>2. ASSUME ~OnClose(d) PROVE phase[d] # "open"
  <2>1. ASSUME NEW c \in Conn, NEW u \in User \cup {BadName}, OnOpen(c, u) PROVE phase[d] # "open"
    BY <1>0, <2>1 DEF OnOpen, Join, Reject, TypeOK
  <2>2. ASSUME NEW c \in Conn, OnClose(c) PROVE phase[d] # "open"
    BY <1>0, <1>2, <2>2 DEF OnClose, Close, TypeOK
  <2>3. ASSUME NEW c \in Conn, Delete(c) PROVE phase[d] # "open"
    BY <1>0, <2>3 DEF Delete, Destroy, TypeOK
  <2>4. CASE UNCHANGED phase
    BY <2>4
  <2> QED
    BY <2>1, <2>2, <2>3, <2>4
    DEF Next, OnMessage, Touch, HandlerStep, TestMonitorStarted, StartThreads, SendJoined,
        SendStatus, RunUpdate, SendReply, MonitorPass, MarkInactive, MonitorNotify,
        CleanupPass, Cleanup, MinutePasses, Minute, regvars, vars
<1>3. ASSUME told'[d] = told[d], ~OnClose(d) PROVE told'[d] = NobodyTold
  BY <1>0, <1>2, <1>3 DEF NobodyToldEarly
<1>4. ASSUME NEW names \in SUBSET User, NEW u, NEW s, Tell(Listeners(names), u, s), ~OnClose(d)
      PROVE  told'[d] = told[d]
  BY <1>0, <1>2, <1>4, ListenersOpen DEF Tell
<1>5. ASSUME NEW c \in Conn, SendReply(c), ~OnClose(d) PROVE told'[d] = told[d]
  <2>1. CASE c = d
    <3>1. told'[d] = [u \in User |-> told[d][u]]
      BY <1>0, <1>2, <1>5, <2>1 DEF SendReply, PresenceTypeOK
    <3> QED
      BY <1>0, <3>1 DEF PresenceTypeOK
  <2> QED
    BY <1>0, <1>5, <2>1 DEF SendReply, PresenceTypeOK
<1>6. ASSUME NEW c \in Conn, OnClose(c), ~OnClose(d) PROVE told'[d] = told[d]
  BY <1>0, <1>6 DEF OnClose, PresenceTypeOK
<1>7. ASSUME NEW c \in Conn, SendJoined(c) \/ SendStatus(c), ~OnClose(d)
      PROVE  told'[d] = told[d]
  BY <1>4, <1>7 DEF SendJoined, SendStatus
<1>8. ASSUME NEW m \in Conn, NEW u \in User, MonitorNotify(m, u), ~OnClose(d)
      PROVE  told'[d] = told[d]
  BY <1>4, <1>8 DEF MonitorNotify
<1>9. CASE UNCHANGED told
  BY <1>1, <1>3, <1>9
<1> QED
  BY <1>1, <1>3, <1>5, <1>6, <1>7, <1>8, <1>9
  DEF Next, OnOpen, OnMessage, HandlerStep, TestMonitorStarted, StartThreads, RunUpdate,
      Delete, MonitorPass, CleanupPass, MinutePasses, vars

(* What a client shows for a user after a step: as before, INACTIVO, the   *)
(* status the user has, or what a handler just sent.                       *)
LEMMA ToldStep ==
  ASSUME PresInv, [Next]_vars, NEW d \in Conn, NEW u \in User, phase'[d] = "open"
  PROVE  \/ told'[d][u] \in {told[d][u], "INACTIVO", connections[u].status}
         \/ \E c \in Conn : /\ SendJoined(c) \/ SendStatus(c)
                            /\ Head(todo[c]).user = u
                            /\ told'[d][u] = Head(todo[c]).status
<1>0. TypeOK /\ PresenceTypeOK
  BY DEF PresInv
<1>1. ASSUME NEW listeners, NEW v, NEW s, Tell(listeners, v, s)
      PROVE  told'[d][u] = told[d][u] \/ (v = u /\ told'[d][u] = s)
  BY <1>0, <1>1 DEF Tell, PresenceTypeOK
<1>2. ASSUME NEW c \in Conn, SendJoined(c) \/ SendStatus(c)
      PROVE  \/ told'[d][u] = told[d][u]
             \/ Head(todo[c]).user = u /\ told'[d][u] = Head(todo[c]).status
  BY <1>1, <1>2 DEF SendJoined, SendStatus
<1>3. ASSUME NEW m \in Conn, NEW v \in User, MonitorNotify(m, v)
      PROVE  told'[d][u] \in {told[d][u], "INACTIVO"}
  BY <1>1, <1>3 DEF MonitorNotify
<1>4. ASSUME NEW c \in Conn, SendReply(c)
      PROVE  told'[d][u] \in {told[d][u], connections[u].status}
  BY <1>0, <1>4 DEF SendReply, PresenceTypeOK
<1>5. ASSUME NEW c \in Conn, OnClose(c) PROVE told'[d][u] = told[d][u]
  <2>1. c # d
    BY <1>0, <1>5 DEF OnClose, Close, TypeOK
  <2> QED
    BY <1>0, <1>5, <2>1 DEF OnClose, PresenceTypeOK
<1>6. CASE UNCHANGED told
  BY <1>6
<1> QED
  BY <1>2, <1>3, <1>4, <1>5, <1>6
  DEF Next, OnOpen, OnMessage, HandlerStep, TestMonitorStarted, StartThreads, RunUpdate,
      Delete, MonitorPass, CleanupPass, MinutePasses, vars

(* A notification about one user reaches the clients of all the others.    *)
LEMMA SentToOthers ==
  ASSUME PresInv, NEW c \in Conn, SendJoined(c) \/ SendStatus(c),
         NEW d \in Conn, NEW u \in User, phase[d] = "open", ~Owns(d, u),
         Head(todo[c]).user = u
  PROVE  told'[d][u] = Head(todo[c]).status
<1>0. PresenceTypeOK /\ OwnershipAgrees
  BY DEF PresInv
<1>1. PICK v \in User : Owns(d, v)
  BY <1>0 DEF OwnershipAgrees
<1>2. v # u /\ Connected(v) /\ connections[v].conn = d
  BY <1>1, RegistryAssumption DEF Owns, Connected
<1>3. d \in Listeners(User) /\ d \in Listeners(User \ {u})
  BY <1>2 DEF Listeners
<1>4. PICK names \in {User, User \ {u}} : Tell(Listeners(names), u, Head(todo[c]).status)
  BY DEF SendJoined, SendStatus
<1>5. told'[d] = [told[d] EXCEPT ![u] = Head(todo[c]).status]
  BY <1>3, <1>4 DEF Tell
<1> QED
  BY <1>0, <1>5 DEF PresenceTypeOK

(* A user becomes connected by an on_open. *)
LEMMA ConnectedByJoin ==
  ASSUME PresInv, [Next]_vars, NEW u \in User, ~Connected(u), Connected(u)'
  PROVE  \E c \in Conn : OnOpen(c, u) /\ Join(c, u)
<1>0. TypeOK
  BY DEF PresInv
<1>1. ASSUME NEW c \in Conn, NEW v \in User \cup {BadName}, OnOpen(c, v)
      PROVE  v = u /\ Join(c, u)
  BY <1>0, <1>1 DEF OnOpen, Reject, Join, TypeOK, Connected, Registered
<1>2. ASSUME SameOwners PROVE FALSE
  BY <1>2 DEF SameOwners, Connected, Registered
<1>3. ASSUME NEW c \in Conn, NEW r \in Request, OnMessage(c, r) PROVE FALSE
  BY <1>0, <1>2, <1>3, TouchKeepsOwners DEF OnMessage
<1>4. ASSUME NEW c \in Conn, RunUpdate(c) PROVE FALSE
  BY <1>0, <1>2, <1>4, RunUpdateIsOwn, UpdateKeepsOwners
<1>5. ASSUME NEW m \in Conn, MonitorPass(m) PROVE FALSE
  BY <1>0, <1>2, <1>5, MarkKeepsOwners DEF MonitorPass
<1>6. ASSUME NEW v \in User, MinutePasses(v) PROVE FALSE
  BY <1>0, <1>2, <1>6, MinuteKeepsOwners DEF MinutePasses
<1>7. ASSUME NEW c \in Conn, OnClose(c) PROVE FALSE
  <2>1. CASE UNCHANGED connections
    BY <2>1 DEF Connected, Registered
  <2>2. ASSUME NEW v \in Owned(c),
               connections' = [connections EXCEPT ![v].status = "DISCONNECTED",
                                                  ![v].conn = NoConn]
        PROVE  FALSE
    <3>1. u = v => connections'[u].conn = NoConn
      BY <1>0, <2>2 DEF TypeOK, Owned, Owns, Registered, Entry
    <3> QED
      BY <1>0, <2>2, <3>1 DEF TypeOK, Connected, Registered
  <2> QED
    BY <1>7, <2>1, <2>2 DEF OnClose, Close
<1>8. CASE CleanupPass
  BY <1>8 DEF CleanupPass, Cleanup, Connected, Registered
<1>9. ~UNCHANGED connections
  BY DEF Connected, Registered
<1> QED
  BY <1>1, <1>3, <1>4, <1>5, <1>6, <1>7, <1>8, <1>9
  DEF Next, HandlerStep, TestMonitorStarted, StartThreads, SendJoined, SendStatus, SendReply,
      Delete, Destroy, MonitorNotify, regvars, vars

(* No step leaves a client with something untrue and nothing to come.      *)
LEMMA ViewsStep == ViewsInv /\ [Next]_vars => ViewsKept'
<1> SUFFICES ASSUME ViewsInv, [Next]_vars, NEW d \in Conn, NEW u \in User \ {Desconocido},
                    phase'[d] = "open", Connected(u)', ~Owns(d, u)'
             PROVE  Settled(d, u)' \/ NoticeAhead(u)'
  BY DEF ViewsKept
<1>0. /\ PresInv /\ TypeOK /\ PresenceTypeOK /\ OwnershipAgrees
      /\ UpdatesAlone /\ NoticesFresh /\ NobodyToldEarly /\ ViewsKept
  BY DEF ViewsInv, PresInv
<1>1. CASE ~Connected(u)
  <2>1. PICK c \in Conn : OnOpen(c, u) /\ Join(c, u)
    BY <1>0, <1>1, ConnectedByJoin
  <2>2. connections'[u] = [conn |-> c, status |-> JoinStatus(u), age |-> 0]
    BY <1>0, <2>1 DEF Join, TypeOK
  <2>3. Then(c, <<CheckMonitors, NotifyJoined(u, JoinStatus(u))>>)
    BY <1>0, <1>1, <2>1, RegistryAssumption DEF OnOpen, Reject, Join, TypeOK
  <2>4. todo'[c] = <<CheckMonitors, NotifyJoined(u, JoinStatus(u))>>
    BY <1>0, <2>3 DEF Then, PresenceTypeOK
  <2>5. NotifyJoined(u, JoinStatus(u)) \in Notices(c)'
    <3> DEFINE joined == NotifyJoined(u, JoinStatus(u))
               q == <<CheckMonitors, joined>>
    <3>1. joined \in {q[i] : i \in DOMAIN q}
      BY <1>0, OpenedSteps
    <3>2. joined.op = "joined" /\ todo'[c] = q
      BY <2>4 DEF NotifyJoined
    <3> HIDE DEF q, joined
    <3>3. joined \in Notices(c)'
      BY <3>1, <3>2 DEF Notices, Pending
    <3> QED
      BY <3>3 DEF joined
  <2> QED
    BY <2>2, <2>5 DEF NoticeAhead, NotifyJoined
<1>2. CASE Connected(u)
  <2> DEFINE st == connections[u].status
  <2>0. PICK e \in Conn : e = connections[u].conn
    BY <1>0, <1>2 DEF TypeOK, Connected, Registered, Entry
  <2>1. u \in Owned(e) \ {Desconocido} /\ connections[u].conn = e
    BY <1>2, <2>0 DEF Connected, Owned, Owns
  <2>2. ~OnClose(e)
    <3>1. SUFFICES ASSUME OnClose(e) PROVE FALSE
      OBVIOUS
    <3>2. PICK v \in Owned(e) :
            connections' = [connections EXCEPT ![v].status = "DISCONNECTED", ![v].conn = NoConn]
      BY <2>1, <3>1 DEF OnClose, Close
    <3>3. u = v /\ connections[u] \in Entry
      BY <1>0, <1>2, <2>1, <3>2, OnlyOwner DEF TypeOK, Connected, Registered
    <3> QED
      BY <1>0, <3>2, <3>3 DEF TypeOK, Entry, Connected
  <2>3. CASE RunUpdate(e)
    <3> DEFINE n == NotifyStatus(Head(todo[e]).user, Head(todo[e]).status)
    <3>1. Head(todo[e]) \in Updates(e)
      BY <1>0, <2>1, <2>3, HeadRemoved DEF RunUpdate, At, Ready, PresenceTypeOK, Updates, Pending
    <3>2. Head(todo[e]).user = u
      BY <1>0, <2>1, <3>1, OnlyOwner DEF PresInv, PendingUpdateIsOwn
    <3>3. /\ connections'[u].status = Head(todo[e]).status
          /\ connections'[u].conn = e
          /\ Then(e, <<n>> \o Tail(todo[e]))
      BY <1>2, <2>1, <2>3, <3>2 DEF RunUpdate, SetStatus, Connected
    <3>4. n \in Step /\ n.op = "status" /\ n.user = u /\ n.status = Head(todo[e]).status
      BY <1>0, <2>1, <2>3, <3>2, RunUpdateIsOwn DEF NotifyStatus, Step, Name
    <3>5. n \in Pending(e)'
      BY <1>0, <2>1, <2>3, <3>3, <3>4, ReplaceQueue DEF RunUpdate, At
    <3> QED
      BY <3>3, <3>4, <3>5 DEF NoticeAhead, Notices
  <2>4. CASE ~RunUpdate(e)
    <3>1. Owns(e, u)' /\ connections'[u].status \in {st, "INACTIVO"}
      BY <1>0, <2>1, <2>2, <2>4, EntryKept
    <3>2. connections'[u].conn = e /\ d # e /\ ~Owns(d, u)
      BY <2>1, <3>1 DEF Owns, Owned
    <3>3. CASE connections'[u].status = "INACTIVO"
      BY <3>3 DEF Settled
    <3>4. CASE connections'[u].status = st /\ st # "INACTIVO"
      <4>1. ASSUME told'[d][u] \in {Absent, "DISCONNECTED", "INACTIVO", st} PROVE Settled(d, u)'
        BY <3>4, <4>1 DEF Settled
      <4>2. ASSUME NEW c \in Conn, SendJoined(c) \/ SendStatus(c), Head(todo[c]).user = u
            PROVE  Head(todo[c]).status \in {"DISCONNECTED", "INACTIVO", st}
        <5>1. Head(todo[c]) \in Notices(c)
          BY <1>0, <4>2, HeadRemoved
          DEF SendJoined, SendStatus, At, Ready, PresenceTypeOK, Notices, Pending
        <5>2. Fresh(c, Head(todo[c]))
          BY <1>0, <4>2, <5>1 DEF NoticesFresh
        <5> QED
          BY <3>4, <4>2, <5>2 DEF Fresh
      <4>3. CASE phase[d] # "open"
        <5>1. told[d][u] = Absent
          BY <1>0, <4>3 DEF NobodyToldEarly, NobodyTold
        <5> QED
          BY <1>0, <4>1, <4>2, <5>1, ToldStep
      <4>4. CASE phase[d] = "open" /\ Settled(d, u)
        <5>1. told[d][u] \in {Absent, "DISCONNECTED", "INACTIVO", st}
          BY <3>4, <4>4 DEF Settled
        <5> QED
          BY <1>0, <4>1, <4>2, <5>1, ToldStep
      <4>5. CASE phase[d] = "open" /\ NoticeAhead(u)
        <5>1. PICK n \in Notices(e) : n.user = u /\ n.status = st
          BY <2>1, <4>5 DEF NoticeAhead
        <5>2. CASE n \in Notices(e)'
          BY <3>2, <3>4, <5>1, <5>2 DEF NoticeAhead
        <5>3. CASE n \notin Notices(e)'
          <6>1. (SendJoined(e) \/ SendStatus(e)) /\ n = Head(todo[e])
            BY <2>1, <2>4, <5>1, <5>3, NoticesStep
          <6>2. told'[d][u] = st
            BY <1>0, <2>1, <3>2, <4>5, <5>1, <6>1, SentToOthers
          <6> QED
            BY <4>1, <6>2
        <5> QED
          BY <5>2, <5>3
      <4> QED
        BY <1>0, <1>2, <3>2, <4>3, <4>4, <4>5 DEF ViewsKept
    <3> QED
      BY <3>1, <3>3, <3>4
  <2> QED
    BY <2>3, <2>4
<1> QED
  BY <1>1, <1>2

(* Whatever the order in which the notifications are sent, and whoever     *)
(* joins, leaves and changes status meanwhile: once a user's handler is    *)
(* done, no client shows that user as ACTIVO or OCUPADO when it is not,    *)
(* unless the monitor has just marked it.                                  *)
THEOREM ViewsCorrect == Spec => []ViewsSettle
<1>1. Init => ViewsInv
  <2>1. Init => UpdatesAlone /\ NoticesFresh
    BY DEF Init, UpdatesAlone, NoticesFresh, Notices, Updates, Pending
  <2>2. Init => NobodyToldEarly /\ ViewsKept
    BY DEF Init, RegInit, NobodyToldEarly, ViewsKept
  <2> QED
    BY <2>1, <2>2, PresInit DEF ViewsInv
<1>2. ViewsInv /\ [Next]_vars => ViewsInv'
  <2>1. ViewsInv /\ [Next]_vars => PresInv'
    BY PresStep DEF ViewsInv
  <2> QED
    BY <2>1, AloneStep, FreshStep, EarlyStep, ViewsStep DEF ViewsInv
<1>3. ViewsInv => ViewsSettle
  <2> SUFFICES ASSUME ViewsInv, NEW d \in Conn, NEW u \in User \ {Desconocido},
                      phase[d] = "open", Connected(u), ~Owns(d, u),
                      Ready(connections[u].conn)
               PROVE  Settled(d, u)
    BY DEF ViewsSettle, Settled
  <2>1. ~NoticeAhead(u)
    BY DEF NoticeAhead, Notices, Pending, Ready
  <2> QED
    BY <2>1 DEF ViewsInv, ViewsKept
<1> QED
  BY <1>1, <1>2, <1>3, PTL DEF Spec

-----------------------------------------------------------------------------
(* Announcements.                                                          *)

LEMMA AnnouncedStep ==
  ASSUME PresInv, Next, NEW u \in User, Registered(u), Registered(u)',
         connections[u].status # connections'[u].status
  PROVE  Announced(u, connections[u].status)'
<1>0. TypeOK /\ PresenceTypeOK /\ OwnershipAgrees
  BY DEF PresInv
<1>1. ASSUME NEW c \in Conn, NEW v \in User \cup {BadName}, OnOpen(c, v)
      PROVE  Announced(u, connections[u].status)'
  <2>1. /\ v \in User /\ Join(c, v)
        /\ Then(c, <<CheckMonitors, NotifyJoined(v, JoinStatus(v))>>)
    BY <1>1 DEF OnOpen, Reject
  <2>2. v = u /\ connections'[u].status = JoinStatus(u)
    BY <1>0, <2>1 DEF Join, TypeOK
  <2> DEFINE q == <<CheckMonitors, NotifyJoined(u, JoinStatus(u))>>
  <2>3. NotifyJoined(u, JoinStatus(u)) \in {q[i] : i \in DOMAIN q}
    BY <1>0, OpenedSteps
  <2>4. todo'[c] = q
    BY <1>0, <2>1, <2>2 DEF Then, PresenceTypeOK
  <2> HIDE DEF q
  <2>5. NotifyJoined(u, connections'[u].status) \in Pending(c)'
    BY <2>2, <2>3, <2>4 DEF Pending
  <2> QED
    BY <2>5 DEF Announced, NotifyJoined, NotifyStatus
<1>2. ASSUME NEW c \in Conn, NEW r \in Request, OnMessage(c, r) PROVE FALSE
  BY <1>0, <1>2 DEF OnMessage, Touch, TypeOK, Registered, Entry
<1>3. ASSUME NEW c \in Conn, HandlerStep(c)
      PROVE  Announced(u, connections[u].status)'
  <2> DEFINE n == Head(todo[c])
  <2>1. RunUpdate(c)
    BY <1>3
    DEF HandlerStep, TestMonitorStarted, StartThreads, SendJoined, SendStatus, SendReply,
        regvars
  <2>2. /\ u = n.user /\ connections'[u].status = n.status
        /\ Then(c, <<NotifyStatus(n.user, n.status)>> \o Tail(todo[c]))
    BY <2>1 DEF RunUpdate, SetStatus
  <2>3. NotifyStatus(u, n.status) \in Step /\ NotifyStatus(u, n.status).op = "status"
    BY <2>1, RunUpdateIsOwn DEF NotifyStatus, Step, Name
  <2>4. NotifyStatus(u, n.status) \in Pending(c)'
    BY <1>0, <2>1, <2>2, <2>3, ReplaceQueue DEF RunUpdate, At
  <2> QED
    BY <2>2, <2>4 DEF Announced
<1>4. ASSUME NEW c \in Conn, OnClose(c)
      PROVE  Announced(u, connections[u].status)'
  <2>1. PICK v \in Owned(c) :
          connections' = [connections EXCEPT ![v].status = "DISCONNECTED", ![v].conn = NoConn]
    BY <1>4 DEF OnClose, Close
  <2>2. u = v /\ connections'[u].status = "DISCONNECTED"
    BY <1>0, <2>1 DEF TypeOK, Registered, Entry, Owned
  <2>3. u = Sender(c)
    BY <1>0, <2>2, OnlyOwner
  <2> DEFINE q == IF Owned(c) = {} THEN <<>> ELSE <<NotifyStatus(Sender(c), "DISCONNECTED")>>
  <2>4. NotifyStatus(u, "DISCONNECTED") \in {q[i] : i \in DOMAIN q}
    BY <2>1, <2>3, ClosedSteps
  <2>5. todo'[c] = q
    BY <1>0, <1>4 DEF OnClose, Then, PresenceTypeOK
  <2> HIDE DEF q
  <2>6. NotifyStatus(u, connections'[u].status) \in Pending(c)'
    BY <2>2, <2>4, <2>5 DEF Pending
  <2> QED
    BY <2>6 DEF Announced
<1>5. ASSUME NEW m \in Conn, MonitorPass(m)
      PROVE  Announced(u, connections[u].status)'
  <2>1. Idle(u) /\ connections'[u].status = "INACTIVO"
    BY <1>0, <1>5 DEF MonitorPass, MarkInactive, TypeOK, Registered, Entry
  <2>2. u \in marked'[m]
    BY <1>0, <1>5, <2>1 DEF MonitorPass, PresenceTypeOK
  <2> QED
    BY <2>1, <2>2 DEF Announced
<1>6. CASE CleanupPass
  BY <1>6 DEF CleanupPass, Cleanup, Registered
<1>7. ASSUME NEW v \in User, MinutePasses(v) PROVE FALSE
  BY <1>0, <1>7 DEF MinutePasses, Minute, TypeOK, Registered, Entry
<1>8. CASE UNCHANGED connections
  BY <1>8
<1> QED
  BY <1>1, <1>2, <1>3, <1>4, <1>5, <1>6, <1>7, <1>8
  DEF Next, Delete, Destroy, MonitorNotify, regvars

(* In the step that changes a status somebody takes over the duty to tell  *)
(* the clients: no change is silent, whoever makes it.                     *)
THEOREM AnnouncementCorrect == Spec => StatusChangeAnnounced
<1>1. ASSUME PresInv, [Next]_vars
      PROVE  [\A u \in User :
                Registered(u) /\ Registered(u)' /\ connections[u].status # connections'[u].status
                  => Announced(u, connections[u].status)']_vars
  BY <1>1, AnnouncedStep
<1> QED
  BY <1>1, PresInit, PresStep, PTL DEF Spec, StatusChangeAnnounced
=============================================================================
