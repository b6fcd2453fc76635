--------------------------- MODULE MessagingProofs ---------------------------
(***************************************************************************)
(* Proofs about Messaging, for any names, connections, messages, requests  *)
(* and any length of a history reply.                                      *)
(*                                                                         *)
(* A chat message is on its way from on_message, which gives it a number   *)
(* and an author, through the history to the thread that delivers it.      *)
(* Meanwhile its connection is neither opened, closed nor deleted (Busy),  *)
(* so its author still owns it (Authors), nobody has seen its number       *)
(* (Unseen), and whoever delivers it finds it stored (TasksStored).        *)
(***************************************************************************)
EXTENDS Messaging, RegistryProofs

(* A running handler has its connection object. *)
Busy == \A c \in Conn : ~Ready(c) => phase[c] # "free"

(* The name on_message read is still the sender of the connection. *)
Authors ==
  \A c \in Conn :
    /\ job[c].at \in {"reactivate", "store", "wait"} => job[c].msg.author = Sender(c)
    /\ job[c].at \in {"read", "copy"} => job[c].author = Sender(c)

MsgBase == TypeOK /\ OwnershipAgrees /\ MessagingTypeOK /\ Busy /\ Authors

-----------------------------------------------------------------------------
(* Jobs.                                                                   *)

(* The fields a job has at each place. *)
LEMMA JobFields ==
  ASSUME NEW j \in Job
  PROVE  /\ j.at = "idle" => j = NoJob
         /\ j.at \in {"reactivate", "store", "wait"} =>
              /\ j.msg \in Message
              /\ j = [at |-> j.at, msg |-> j.msg]
         /\ j.at = "read" =>
              /\ j.author \in Name /\ j.to \in User \cup {Everyone} /\ j.asked \in Nat
         /\ j.at = "copy" =>
              /\ j.author \in Name /\ j.to \in User /\ j.asked \in Nat
              /\ [j EXCEPT !.torn = TRUE] \in Job
              /\ [j EXCEPT !.torn = TRUE].at = "copy"
              /\ [j EXCEPT !.torn = TRUE].author = j.author
              /\ [j EXCEPT !.torn = TRUE].to = j.to
              /\ [j EXCEPT !.torn = TRUE].asked = j.asked
         /\ j.at = "reply" =>
              /\ j.to \in User \cup {Everyone} /\ j.asked \in Nat
              /\ j.list \in Seq(Message) \cup {Torn}
         /\ j.at \in {"idle", "reactivate", "store", "wait", "read", "copy", "reply"}
<1>1. CASE j = NoJob
  BY <1>1 DEF NoJob
<1>2. CASE j \in [at : {"reactivate", "store", "wait"}, msg : Message]
  BY <1>2
<1>3. CASE j \in [at : {"read"}, author : Name, to : User \cup {Everyone}, asked : Nat]
  BY <1>3
<1>4. CASE j \in [at : {"copy"}, author : Name, to : User, asked : Nat, torn : BOOLEAN]
  BY <1>4 DEF Job
<1>5. CASE j \in [at : {"reply"}, to : User \cup {Everyone}, asked : Nat,
                  list : Seq(Message) \cup {Torn}]
  BY <1>5
<1> QED
  BY <1>1, <1>2, <1>3, <1>4, <1>5 DEF Job

(* What Messaging does to the jobs of the other connections. *)
OthersKept(c) ==
  \A d \in Conn \ {c} :
    \/ job'[d] = job[d]
    \/ job[d].at = "copy" /\ job'[d] = [job[d] EXCEPT !.torn = TRUE]

LEMMA SenderType ==
  ASSUME NEW c \in Conn PROVE Sender(c) \in Name
  BY DEF Sender, Name, Owned

(* Going on: the handler's own job, and nobody else's. *)
LEMMA GoesJob ==
  ASSUME job \in [Conn -> Job], NEW c \in Conn, NEW j, Goes(c, j)
  PROVE  OthersKept(c) /\ job'[c] = j /\ job' = [d \in Conn |-> job'[d]]
  BY DEF Goes, OthersKept

(* std::async starts the task the handler then waits for, or throws. *)
LEMMA Launching ==
  ASSUME MessagingTypeOK, NEW c \in Conn, job[c].at = "store", Launch(c) \/ LaunchTearing(c)
  PROVE  /\ OthersKept(c)
         /\ \/ /\ tasks' = tasks \cup {[by |-> c, msg |-> job[c].msg]}
               /\ job'[c] = [at |-> "wait", msg |-> job[c].msg]
            \/ tasks' = tasks /\ job'[c] = NoJob
         /\ job' = [d \in Conn |-> job'[d]]
<1>1. job[c] = [at |-> "store", msg |-> job[c].msg]
  BY JobFields DEF MessagingTypeOK
<1>2. [job[c] EXCEPT !.at = "wait"] = [at |-> "wait", msg |-> job[c].msg]
  BY <1>1
<1>3. PICK l \in Launched(c) :
        /\ tasks' = l.tasks /\ job'[c] = l.next
        /\ OthersKept(c) /\ job' = [d \in Conn |-> job'[d]]
  <2>1. CASE Launch(c)
    BY <2>1 DEF Launch, Goes, OthersKept, MessagingTypeOK
  <2>2. CASE LaunchTearing(c)
    BY <2>2 DEF LaunchTearing, OthersKept
  <2> QED
    BY <2>1, <2>2
<1> QED
  BY <1>2, <1>3 DEF Launched

-----------------------------------------------------------------------------
(* The registry.                                                           *)

(* Every step is one of the registry's, or leaves the registry alone: the  *)
(* name that is reactivated is the connection's own.                       *)
LEMMA ReactivatesOwn ==
  ASSUME MsgBase, NEW c \in Conn, RunReactivation(c) PROVE UpdateStatus(c, "ACTIVO")
  BY DEF RunReactivation, UpdateStatus, MsgBase, Busy, Authors, Ready

LEMMA RegistryStep == MsgBase /\ [MsgNext]_vars => [RegNext]_regvars
<1> SUFFICES ASSUME MsgBase, [MsgNext]_vars PROVE RegNext \/ UNCHANGED regvars
  OBVIOUS
<1>1. ASSUME NEW c \in Conn, NEW to \in User \cup {Everyone},
             OnChatMessage(c, to) \/ OnGetHistory(c, to)
      PROVE  RegNext
  BY <1>1 DEF OnChatMessage, OnGetHistory, RegNext
<1>2. ASSUME NEW c \in Conn, HandlerStep(c) PROVE RegNext \/ UNCHANGED regvars
  <2>1. CASE RunReactivation(c)
    BY <2>1, ReactivatesOwn DEF RegNext, Status
  <2> QED
    BY <1>2, <2>1
    DEF HandlerStep, StoreBroadcast, StorePrivate, RefusePrivate, Resume, CopyGeneral,
        CopyPrivate, CopyDone, PostHistory
<1>3. ASSUME NEW t \in tasks, Deliver(t) PROVE UNCHANGED regvars
  BY <1>3 DEF Deliver
<1>4. ASSUME NEW c \in Conn, OnClose(c) \/ OtherHandler(c) PROVE RegNext
  BY <1>4 DEF OnClose, OtherHandler, RegNext
<1>5. CASE Background
  BY <1>5 DEF Background, RegNext
<1>6. CASE UNCHANGED vars
  BY <1>6 DEF vars
<1> QED
  BY <1>1, <1>2, <1>3, <1>4, <1>5, <1>6 DEF MsgNext

(* What a connection with a running handler owns, it still owns afterwards:*)
(* its callbacks do not overlap.  Its sender stays the same.               *)
OwnersKept ==
  \A d \in Conn : ~Ready(d) => Owned(d)' = Owned(d) /\ Sender(d)' = Sender(d)

(* Nor does a handler change what its own connection owns. *)
LEMMA HandlerOwned ==
  ASSUME MsgBase, NEW d \in Conn,
         \/ \E c \in Conn, to \in User \cup {Everyone} : OnChatMessage(c, to)
         \/ \E c \in Conn, to \in User \cup {Everyone} : OnGetHistory(c, to)
         \/ \E c \in Conn : HandlerStep(c)
         \/ \E t \in tasks : Deliver(t)
         \/ UNCHANGED regvars
  PROVE  Owned(d)' = Owned(d) /\ Sender(d)' = Sender(d)
<1>0. TypeOK
  BY DEF MsgBase
<1>1. ASSUME NEW c \in Conn, NEW to \in User \cup {Everyone},
             OnChatMessage(c, to) \/ OnGetHistory(c, to)
      PROVE  Owned(d)' = Owned(d)
  BY <1>0, <1>1, TouchKeepsOwners, SameOwned DEF OnChatMessage, OnGetHistory
<1>2. ASSUME NEW c \in Conn, HandlerStep(c) PROVE Owned(d)' = Owned(d)
  <2>1. CASE RunReactivation(c)
    BY <1>0, <2>1, ReactivatesOwn, UpdateKeepsOwners, SameOwned DEF Status
  <2>2. CASE UNCHANGED connections
    BY <2>2 DEF Owned, Owns, Registered
  <2> QED
    BY <1>2, <2>1, <2>2
    DEF HandlerStep, StoreBroadcast, StorePrivate, RefusePrivate, Resume, CopyGeneral,
        CopyPrivate, CopyDone, PostHistory, regvars
<1>3. ASSUME UNCHANGED connections PROVE Owned(d)' = Owned(d)
  BY <1>3 DEF Owned, Owns, Registered
<1>4. Owned(d)' = Owned(d)
  BY <1>1, <1>2, <1>3 DEF Deliver, regvars
<1> QED
  BY <1>4 DEF Sender

(* What a connection owns changes when it is opened, which finds it owning *)
(* nothing, and when it is closed, which ends what its client is sent.     *)
LEMMA OwnedStep ==
  ASSUME MsgBase, [MsgNext]_vars, NEW d \in Conn
  PROVE  \/ Owned(d)' = Owned(d)
         \/ Ready(d) /\ Owned(d) = {}
         \/ Ready(d) /\ outbox'[d] = <<>>
<1>0. TypeOK /\ OwnershipAgrees /\ MessagingTypeOK
  BY DEF MsgBase
<1> DEFINE Goal == \/ Owned(d)' = Owned(d)
                   \/ Ready(d) /\ Owned(d) = {}
                   \/ Ready(d) /\ outbox'[d] = <<>>
<1>1. ASSUME NEW c \in Conn, OnClose(c) PROVE Goal
  <2>1. CASE c = d
    BY <1>0, <1>1, <2>1 DEF OnClose, MessagingTypeOK
  <2> QED
    BY <1>0, <1>1, <2>1, CloseOwned DEF OnClose
<1>2. ASSUME NEW c \in Conn, OtherHandler(c) PROVE Goal
  <2>1. ASSUME NEW u \in User, Join(c, u) PROVE Goal
    <3>1. CASE c = d
      <4>1. phase[d] = "free" /\ Ready(d)
        BY <1>2, <2>1, <3>1 DEF Join, OtherHandler
      <4>2. Owned(d) = {}
        BY <1>0, <4>1, RegistryAssumption DEF OwnershipAgrees, Owned, Owns, Connected
      <4> QED
        BY <4>1, <4>2
    <3> QED
      BY <1>0, <2>1, <3>1, JoinOwned
  <2>2. ASSUME Touch(c) PROVE Owned(d)' = Owned(d)
    BY <1>0, <2>2, TouchKeepsOwners, SameOwned
  <2>3. ASSUME NEW s \in Status, UpdateStatus(c, s) PROVE Owned(d)' = Owned(d)
    BY <1>0, <2>3, UpdateKeepsOwners, SameOwned
  <2>4. ASSUME UNCHANGED connections PROVE Owned(d)' = Owned(d)
    BY <2>4 DEF Owned, Owns, Registered
  <2> QED
    BY <1>2, <2>1, <2>2, <2>3, <2>4 DEF OtherHandler, Reject, Destroy
<1>3. ASSUME Background PROVE Owned(d)' = Owned(d)
  BY <1>0, <1>3, MarkKeepsOwners, MinuteKeepsOwners, CleanupOwned, SameOwned DEF Background
<1>4. ASSUME UNCHANGED vars \/ ~(Background \/ \E c \in Conn : OnClose(c) \/ OtherHandler(c))
      PROVE  Owned(d)' = Owned(d)
  BY <1>4, HandlerOwned DEF MsgNext, vars
<1> QED
  BY <1>1, <1>2, <1>3, <1>4

LEMMA OwnersStep == MsgBase /\ [MsgNext]_vars => OwnersKept
<1> SUFFICES ASSUME MsgBase, [MsgNext]_vars, NEW d \in Conn, ~Ready(d)
             PROVE  Owned(d)' = Owned(d) /\ Sender(d)' = Sender(d)
  BY DEF OwnersKept
<1>1. Owned(d)' = Owned(d)
  BY OwnedStep
<1> QED
  BY <1>1 DEF Sender

-----------------------------------------------------------------------------
(* Types.                                                                  *)

LEMMA HistoryType ==
  ASSUME MessagingTypeOK, NEW a \in Name, NEW to \in User \cup {Everyone}
  PROVE  HistoryOf(a, to) \in Seq(Message)
  BY DEF MessagingTypeOK, HistoryOf, Chat

(* A task belongs to a handler that waits: no other handler has one. *)
LEMMA WaitsForOwn ==
  ASSUME MessagingTypeOK, NEW c \in Conn, job[c].at # "wait"
  PROVE  \A t \in tasks : t.by # c
<1> SUFFICES ASSUME NEW t \in tasks, t.by = c PROVE FALSE
  OBVIOUS
<1>1. job[c] = [at |-> "wait", msg |-> t.msg]
  BY DEF MessagingTypeOK
<1> QED
  BY <1>1

(* A new job, and with it at most the task that it waits for. *)
LEMMA JobsTyped ==
  ASSUME MessagingTypeOK, NEW c \in Conn, job' = [d \in Conn |-> job'[d]],
         OthersKept(c), job'[c] \in Job, \A t \in tasks : t.by # c,
         tasks' \subseteq tasks \cup {[by |-> c, msg |-> job'[c].msg]},
         tasks' \subseteq tasks \/ job'[c].at = "wait"
  PROVE  /\ job' \in [Conn -> Job]
         /\ tasks' \subseteq [by : Conn, msg : Message]
         /\ \A t \in tasks' : job'[t.by] = [at |-> "wait", msg |-> t.msg]
<1>1. ASSUME NEW d \in Conn PROVE job'[d] \in Job
  <2>1. job[d] \in Job
    BY DEF MessagingTypeOK
  <2>2. CASE job[d].at = "copy" /\ job'[d] = [job[d] EXCEPT !.torn = TRUE]
    BY <2>1, <2>2, JobFields
  <2> QED
    BY <2>1, <2>2 DEF OthersKept
<1>2. job' \in [Conn -> Job]
  BY <1>1
<1>3. ASSUME NEW t \in tasks PROVE job'[t.by] = [at |-> "wait", msg |-> t.msg]
  <2>1. t.by \in Conn \ {c} /\ job[t.by] = [at |-> "wait", msg |-> t.msg]
    BY DEF MessagingTypeOK
  <2> QED
    BY <2>1 DEF OthersKept
<1>4. CASE job'[c].at = "wait"
  <2>1. job'[c].msg \in Message /\ job'[c] = [at |-> "wait", msg |-> job'[c].msg]
    BY <1>4, JobFields
  <2> QED
    BY <1>2, <1>3, <2>1 DEF MessagingTypeOK
<1>5. CASE tasks' \subseteq tasks
  BY <1>2, <1>3, <1>5 DEF MessagingTypeOK
<1> QED
  BY <1>4, <1>5

LEMMA MessagingTypeStep == MsgBase /\ [MsgNext]_vars => MessagingTypeOK'
<1> SUFFICES ASSUME MsgBase, [MsgNext]_vars PROVE MessagingTypeOK'
  OBVIOUS
<1> USE MessagingAssumption
<1>0. MessagingTypeOK
  BY DEF MsgBase
<1> DEFINE JobsOK ==
             /\ job' \in [Conn -> Job]
             /\ tasks' \subseteq [by : Conn, msg : Message]
             /\ \A t \in tasks' : job'[t.by] = [at |-> "wait", msg |-> t.msg]
           HistoriesOK ==
             /\ general_chat_history' \in Seq(Message)
             /\ chat_history' \in [Chat -> Seq(Message)]
           BoxesOK == outbox' \in [Conn -> Seq(Message \cup {Error4})]
           CountOK == sent' \in 0 .. MaxMessages
<1>1. ASSUME NEW c \in Conn, NEW j \in Job, Goes(c, j), job[c].at # "wait", tasks' = tasks
      PROVE  JobsOK
  <2>1. /\ OthersKept(c) /\ job'[c] = j /\ job' = [d \in Conn |-> job'[d]]
        /\ \A t \in tasks : t.by # c
    BY <1>0, <1>1, GoesJob, WaitsForOwn DEF MessagingTypeOK
  <2> QED
    BY <1>0, <1>1, <2>1, JobsTyped
<1>2. UNCHANGED <<general_chat_history, chat_history>> => HistoriesOK
  BY <1>0 DEF MessagingTypeOK
<1>3. UNCHANGED outbox => BoxesOK
  BY <1>0 DEF MessagingTypeOK
<1>4. UNCHANGED sent => CountOK
  BY <1>0 DEF MessagingTypeOK
<1>5. UNCHANGED <<job, tasks>> => JobsOK
  BY <1>0 DEF MessagingTypeOK
<1>6. ASSUME NEW c \in Conn, NEW to \in User \cup {Everyone}, OnChatMessage(c, to)
      PROVE  JobsOK /\ HistoriesOK /\ BoxesOK /\ CountOK
  <2>1. sent' \in 1 .. MaxMessages /\ sent' = sent + 1
    BY <1>0, <1>6 DEF OnChatMessage, MessagingTypeOK
  <2>2. [author |-> Sender(c), text |-> sent + 1, to |-> to] \in Message
    BY <2>1, SenderType DEF Message
  <2>3. PICK j \in Job : Goes(c, j)
    BY <1>6, <2>2 DEF OnChatMessage, Job
  <2> QED
    BY <1>1, <1>2, <1>3, <1>6, <2>1, <2>3 DEF OnChatMessage, Ready
<1>7. ASSUME NEW c \in Conn, NEW to \in User \cup {Everyone}, OnGetHistory(c, to)
      PROVE  JobsOK /\ HistoriesOK /\ BoxesOK /\ CountOK
  <2>1. Len(outbox[c]) \in Nat
    BY <1>0 DEF MessagingTypeOK
  <2>2. [at |-> "read", author |-> Sender(c), to |-> to, asked |-> Len(outbox[c])] \in Job
    BY <2>1, SenderType DEF Job
  <2> QED
    BY <1>1, <1>2, <1>3, <1>4, <1>7, <2>2 DEF OnGetHistory, Ready
<1>8. ASSUME NEW c \in Conn, RunReactivation(c)
      PROVE  JobsOK /\ HistoriesOK /\ BoxesOK /\ CountOK
  <2>1. [job[c] EXCEPT !.at = "store"] \in Job
    <3>1. job[c].msg \in Message /\ job[c] = [at |-> "reactivate", msg |-> job[c].msg]
      BY <1>0, <1>8, JobFields DEF RunReactivation, MessagingTypeOK
    <3>2. [job[c] EXCEPT !.at = "store"] = [at |-> "store", msg |-> job[c].msg]
      BY <3>1
    <3> QED
      BY <3>1, <3>2 DEF Job
  <2> QED
    BY <1>1, <1>2, <1>3, <1>4, <1>8, <2>1 DEF RunReactivation
<1>9. ASSUME NEW c \in Conn, job[c].at = "store", Launch(c) \/ LaunchTearing(c) PROVE JobsOK
  <2>1. job[c].msg \in Message /\ \A t \in tasks : t.by # c
    BY <1>0, <1>9, JobFields, WaitsForOwn DEF MessagingTypeOK
  <2>2. job'[c] \in Job
    <3>1. [at |-> "wait", msg |-> job[c].msg] \in Job /\ NoJob \in Job
      BY <2>1 DEF Job
    <3> QED
      BY <1>0, <1>9, <3>1, Launching
  <2>3. OthersKept(c) /\ job' = [d \in Conn |-> job'[d]]
    BY <1>0, <1>9, Launching
  <2>4. /\ tasks' \subseteq tasks \cup {[by |-> c, msg |-> job'[c].msg]}
        /\ tasks' \subseteq tasks \/ job'[c].at = "wait"
    <3>1. CASE /\ tasks' = tasks \cup {[by |-> c, msg |-> job[c].msg]}
               /\ job'[c] = [at |-> "wait", msg |-> job[c].msg]
      <4>1. job'[c].msg = job[c].msg /\ job'[c].at = "wait"
        BY <3>1
      <4> QED
        BY <3>1, <4>1
    <3>2. CASE tasks' = tasks
      BY <3>2
    <3> QED
      BY <1>0, <1>9, <3>1, <3>2, Launching
  <2> QED
    BY <1>0, <2>1, <2>2, <2>3, <2>4, JobsTyped
<1>10. ASSUME NEW c \in Conn, StoreBroadcast(c)
       PROVE  JobsOK /\ HistoriesOK /\ BoxesOK /\ CountOK
  <2>1. job[c].msg \in Message
    BY <1>0, <1>10, JobFields DEF StoreBroadcast, MessagingTypeOK
  <2>2. HistoriesOK
    BY <1>0, <1>10, <2>1 DEF StoreBroadcast, MessagingTypeOK
  <2> QED
    BY <1>3, <1>4, <1>9, <1>10, <2>2 DEF StoreBroadcast
<1>11. ASSUME NEW c \in Conn, StorePrivate(c)
       PROVE  JobsOK /\ HistoriesOK /\ BoxesOK /\ CountOK
  <2>1. job[c].msg \in Message
    BY <1>0, <1>11, JobFields DEF StorePrivate, MessagingTypeOK
  <2>2. HistoriesOK
    <3> DEFINE p == {job[c].msg.author, job[c].msg.to}
    <3>1. chat_history' = [chat_history EXCEPT ![p] = Append(@, job[c].msg)]
      BY <1>11 DEF StorePrivate
    <3> HIDE DEF p
    <3>2. \A q \in Chat : Append(chat_history[q], job[c].msg) \in Seq(Message)
      BY <1>0, <2>1 DEF MessagingTypeOK
    <3>3. chat_history' \in [Chat -> Seq(Message)]
      BY <1>0, <3>1, <3>2 DEF MessagingTypeOK
    <3> QED
      BY <1>0, <1>11, <3>3 DEF StorePrivate, MessagingTypeOK
  <2> QED
    BY <1>3, <1>4, <1>9, <1>11, <2>2 DEF StorePrivate
<1>12. ASSUME NEW c \in Conn, RefusePrivate(c)
       PROVE  JobsOK /\ HistoriesOK /\ BoxesOK /\ CountOK
  <2>1. NoJob \in Job
    BY DEF Job
  <2>2. BoxesOK
    BY <1>0, <1>12 DEF RefusePrivate, MessagingTypeOK
  <2> QED
    BY <1>1, <1>2, <1>4, <1>12, <2>1, <2>2 DEF RefusePrivate
<1>13. ASSUME NEW t \in tasks, Deliver(t)
       PROVE  JobsOK /\ HistoriesOK /\ BoxesOK /\ CountOK
  <2>1. JobsOK
    BY <1>0, <1>13 DEF Deliver, MessagingTypeOK
  <2>2. t.msg \in Message
    BY <1>0 DEF MessagingTypeOK
  <2>3. ASSUME NEW d \in Conn
        PROVE  outbox[d] \o [i \in 1 .. Copies(d, t.msg) |-> t.msg]
                 \in Seq(Message \cup {Error4})
    <3>1. Copies(d, t.msg) \in Nat
      BY DEF Copies
    <3>2. [i \in 1 .. Copies(d, t.msg) |-> t.msg] \in Seq(Message \cup {Error4})
      BY <2>2, <3>1
    <3> QED
      BY <1>0, <3>2 DEF MessagingTypeOK
  <2>4. BoxesOK
    BY <1>13, <2>3 DEF Deliver
  <2> QED
    BY <1>2, <1>4, <1>13, <2>1, <2>4 DEF Deliver
<1>14. ASSUME NEW c \in Conn, Resume(c)
       PROVE  JobsOK /\ HistoriesOK /\ BoxesOK /\ CountOK
  <2>1. OthersKept(c) /\ job'[c] = NoJob /\ job' = [d \in Conn |-> job'[d]]
    BY <1>0, <1>14, GoesJob DEF Resume, MessagingTypeOK
  <2>2. NoJob \in Job
    BY DEF Job
  <2>3. JobsOK
    BY <1>0, <1>14, <2>1, <2>2, JobsTyped DEF Resume
  <2> QED
    BY <1>2, <1>3, <1>4, <1>14, <2>3 DEF Resume
<1>15. ASSUME NEW c \in Conn, CopyGeneral(c) \/ CopyPrivate(c) \/ CopyDone(c) \/ PostHistory(c)
       PROVE  JobsOK /\ HistoriesOK /\ BoxesOK /\ CountOK
  <2>1. CASE CopyGeneral(c)
    <3>1. job[c].asked \in Nat /\ general_chat_history \in Seq(Message)
      BY <1>0, <2>1, JobFields DEF CopyGeneral, MessagingTypeOK
    <3>2. [at |-> "reply", to |-> Everyone, asked |-> job[c].asked,
           list |-> general_chat_history] \in Job
      BY <3>1 DEF Job
    <3> QED
      BY <1>1, <1>2, <1>3, <1>4, <2>1, <3>2 DEF CopyGeneral
  <2>2. CASE CopyPrivate(c)
    <3>1. job[c].asked \in Nat /\ job[c].author \in Name /\ job[c].to \in User
      BY <1>0, <2>2, JobFields DEF CopyPrivate, MessagingTypeOK
    <3>2. [at |-> "copy", author |-> job[c].author, to |-> job[c].to,
           asked |-> job[c].asked, torn |-> FALSE] \in Job
      BY <3>1 DEF Job
    <3> QED
      BY <1>1, <1>2, <1>3, <1>4, <2>2, <3>2 DEF CopyPrivate
  <2>3. CASE CopyDone(c)
    <3>1. job[c].asked \in Nat /\ job[c].author \in Name /\ job[c].to \in User
      BY <1>0, <2>3, JobFields DEF CopyDone, MessagingTypeOK
    <3>2. PICK list \in {HistoryOf(job[c].author, job[c].to)}
                          \cup (IF job[c].torn THEN {Torn} ELSE {}) :
            Goes(c, [at |-> "reply", to |-> job[c].to, asked |-> job[c].asked,
                     list |-> list])
      BY <2>3 DEF CopyDone
    <3>3. list \in Seq(Message) \cup {Torn}
      BY <1>0, <3>1, HistoryType
    <3>4. [at |-> "reply", to |-> job[c].to, asked |-> job[c].asked, list |-> list] \in Job
      BY <3>1, <3>3 DEF Job
    <3> QED
      BY <1>1, <1>2, <1>3, <1>4, <2>3, <3>2, <3>4 DEF CopyDone
  <2>4. CASE PostHistory(c)
    <3>1. NoJob \in Job
      BY DEF Job
    <3> QED
      BY <1>1, <1>2, <1>3, <1>4, <2>4, <3>1 DEF PostHistory
  <2> QED
    BY <1>15, <2>1, <2>2, <2>3, <2>4
<1>16. ASSUME NEW c \in Conn, OnClose(c)
       PROVE  JobsOK /\ HistoriesOK /\ BoxesOK /\ CountOK
  <2>1. BoxesOK
    BY <1>0, <1>16 DEF OnClose, MessagingTypeOK
  <2> QED
    BY <1>2, <1>4, <1>5, <1>16, <2>1 DEF OnClose
<1>17. ASSUME UNCHANGED msgvars PROVE JobsOK /\ HistoriesOK /\ BoxesOK /\ CountOK
  BY <1>2, <1>3, <1>4, <1>5, <1>17 DEF msgvars
<1>18. JobsOK /\ HistoriesOK /\ BoxesOK /\ CountOK
  BY <1>6, <1>7, <1>8, <1>10, <1>11, <1>12, <1>13, <1>14, <1>15, <1>16, <1>17
  DEF MsgNext, HandlerStep, OtherHandler, Background, vars
<1> QED
  BY <1>18 DEF MessagingTypeOK

-----------------------------------------------------------------------------
(* What a step does to the jobs.                                           *)

LEMMA OthersSame ==
  ASSUME MessagingTypeOK, NEW c \in Conn, OthersKept(c), NEW d \in Conn \ {c}
  PROVE  /\ job'[d].at = job[d].at
         /\ job[d].at # "copy" => job'[d] = job[d]
         /\ job[d].at = "copy" =>
              /\ job'[d].author = job[d].author
              /\ job'[d].to = job[d].to
              /\ job'[d].asked = job[d].asked
<1>1. job[d] \in Job
  BY DEF MessagingTypeOK
<1> QED
  BY <1>1, JobFields DEF OthersKept

(* A handler takes its message from place to place, and copies the history *)
(* it was asked for.                                                       *)
LEMMA HandlerJob ==
  ASSUME MessagingTypeOK, NEW c \in Conn, HandlerStep(c)
  PROVE  /\ OthersKept(c) /\ ~Ready(c)
         /\ job'[c].at \in {"idle", "store", "wait", "copy", "reply"}
         /\ job'[c].at = "store" => job[c].at = "reactivate" /\ job'[c].msg = job[c].msg
         /\ job'[c].at = "wait" => job[c].at = "store" /\ job'[c].msg = job[c].msg
         /\ job'[c].at = "copy" =>
              /\ job[c].at = "read"
              /\ job'[c].author = job[c].author
              /\ job'[c].to = job[c].to
              /\ job'[c].asked = job[c].asked
         /\ job'[c].at = "reply" =>
              /\ job[c].at \in {"read", "copy"}
              /\ job'[c].to = job[c].to
              /\ job'[c].asked = job[c].asked
              /\ job'[c].list \in {HistoryOf(job[c].author, job[c].to), Torn}
              /\ UNCHANGED outbox
<1>0. job[c] \in Job /\ job \in [Conn -> Job]
  BY DEF MessagingTypeOK
<1>1. CASE RunReactivation(c)
  <2>1. job[c] = [at |-> "reactivate", msg |-> job[c].msg]
    BY <1>0, <1>1, JobFields DEF RunReactivation
  <2>2. [job[c] EXCEPT !.at = "store"] = [at |-> "store", msg |-> job[c].msg]
    BY <2>1
  <2>3. OthersKept(c) /\ job'[c] = [at |-> "store", msg |-> job[c].msg]
    BY <1>0, <1>1, <2>2, GoesJob DEF RunReactivation
  <2> QED
    BY <1>1, <2>3 DEF RunReactivation, Ready
<1>2. CASE StoreBroadcast(c) \/ StorePrivate(c)
  <2>1. job[c].at = "store" /\ (Launch(c) \/ LaunchTearing(c))
    BY <1>2 DEF StoreBroadcast, StorePrivate
  <2>2. /\ OthersKept(c)
        /\ job'[c] = [at |-> "wait", msg |-> job[c].msg] \/ job'[c] = NoJob
    BY <2>1, Launching
  <2> QED
    BY <2>1, <2>2 DEF Ready, NoJob
<1>3. CASE RefusePrivate(c) \/ Resume(c) \/ PostHistory(c)
  <2>1. OthersKept(c) /\ job'[c] = NoJob
    BY <1>0, <1>3, GoesJob DEF RefusePrivate, Resume, PostHistory
  <2> QED
    BY <1>3, <2>1 DEF RefusePrivate, Resume, PostHistory, Ready, NoJob
<1>4. CASE CopyGeneral(c)
  <2>1. /\ OthersKept(c)
        /\ job'[c] = [at |-> "reply", to |-> Everyone, asked |-> job[c].asked,
                      list |-> general_chat_history]
    BY <1>0, <1>4, GoesJob DEF CopyGeneral
  <2> QED
    BY <1>4, <2>1 DEF CopyGeneral, HistoryOf, Ready
<1>5. CASE CopyPrivate(c)
  <2>1. /\ OthersKept(c)
        /\ job'[c] = [at |-> "copy", author |-> job[c].author, to |-> job[c].to,
                      asked |-> job[c].asked, torn |-> FALSE]
    BY <1>0, <1>5, GoesJob DEF CopyPrivate
  <2> QED
    BY <1>5, <2>1 DEF CopyPrivate, Ready
<1>6. CASE CopyDone(c)
  <2>1. PICK list \in {HistoryOf(job[c].author, job[c].to), Torn} :
          Goes(c, [at |-> "reply", to |-> job[c].to, asked |-> job[c].asked, list |-> list])
    BY <1>6 DEF CopyDone
  <2>2. /\ OthersKept(c)
        /\ job'[c] = [at |-> "reply", to |-> job[c].to, asked |-> job[c].asked,
                      list |-> list]
    BY <1>0, <2>1, GoesJob
  <2> QED
    BY <1>6, <2>2 DEF CopyDone, Ready
<1> QED
  BY <1>1, <1>2, <1>3, <1>4, <1>5, <1>6 DEF HandlerStep

(* A request begins a job, for the owner of the connection. *)
LEMMA BeginningJob ==
  ASSUME MessagingTypeOK, NEW c \in Conn, NEW to \in User \cup {Everyone}
  PROVE  /\ OnChatMessage(c, to) =>
              /\ OthersKept(c) /\ Ready(c) /\ phase[c] # "free"
              /\ job'[c].at \in {"reactivate", "store"}
              /\ job'[c].msg = [author |-> Sender(c), text |-> sent + 1, to |-> to]
         /\ OnGetHistory(c, to) =>
              /\ OthersKept(c) /\ Ready(c) /\ phase[c] # "free"
              /\ job'[c] = [at |-> "read", author |-> Sender(c), to |-> to,
                            asked |-> Len(outbox[c])]
<1>1. ASSUME NEW j, Goes(c, j) PROVE OthersKept(c) /\ job'[c] = j
  BY <1>1, GoesJob DEF MessagingTypeOK
<1>2. ASSUME OnChatMessage(c, to)
      PROVE  /\ OthersKept(c)
             /\ job'[c].at \in {"reactivate", "store"}
             /\ job'[c].msg = [author |-> Sender(c), text |-> sent + 1, to |-> to]
  BY <1>1, <1>2 DEF OnChatMessage
<1>3. ASSUME OnGetHistory(c, to)
      PROVE  /\ OthersKept(c)
             /\ job'[c] = [at |-> "read", author |-> Sender(c), to |-> to,
                           asked |-> Len(outbox[c])]
  BY <1>1, <1>3 DEF OnGetHistory
<1> QED
  BY <1>2, <1>3 DEF OnChatMessage, OnGetHistory, Touch

(* Whatever the step, a job is unchanged, or began, or went on. *)
LEMMA JobStep ==
  ASSUME MsgBase, [MsgNext]_vars, NEW d \in Conn
  PROVE  \/ \E to \in User \cup {Everyone} : OnChatMessage(d, to)
         \/ \E to \in User \cup {Everyone} : OnGetHistory(d, to)
         \/ HandlerStep(d)
         \/ \E c \in Conn \ {d} : OthersKept(c)
         \/ UNCHANGED job
<1>0. MessagingTypeOK
  BY DEF MsgBase
<1>1. ASSUME NEW c \in Conn \ {d}, HandlerStep(c) PROVE OthersKept(c)
  BY <1>0, <1>1, HandlerJob
<1>2. ASSUME NEW c \in Conn \ {d}, NEW to \in User \cup {Everyone},
             OnChatMessage(c, to) \/ OnGetHistory(c, to)
      PROVE  OthersKept(c)
  BY <1>0, <1>2, BeginningJob
<1> QED
  BY <1>1, <1>2 DEF MsgNext, Deliver, OnClose, OtherHandler, Background, msgvars, vars

LEMMA BusyStep == MsgBase /\ [MsgNext]_vars => Busy'
<1> SUFFICES ASSUME MsgBase, [MsgNext]_vars, NEW d \in Conn, ~Ready(d)'
             PROVE  phase'[d] # "free"
  BY DEF Busy
<1>0. TypeOK /\ MessagingTypeOK /\ Busy
  BY DEF MsgBase
<1>1. CASE \E to \in User \cup {Everyone} : OnChatMessage(d, to) \/ OnGetHistory(d, to)
  BY <1>1 DEF OnChatMessage, OnGetHistory, Touch
<1>2. CASE ~Ready(d)
  <2>1. phase[d] # "free"
    BY <1>0, <1>2 DEF Busy
  <2>2. ASSUME NEW c \in Conn, OnClose(c) \/ OtherHandler(c) PROVE phase'[d] # "free"
    BY <1>0, <1>2, <2>1, <2>2
    DEF OnClose, OtherHandler, Close, Reject, Join, Touch, UpdateStatus, Destroy, TypeOK
  <2>3. ASSUME ~\E c \in Conn : OnClose(c) \/ OtherHandler(c) PROVE UNCHANGED phase
    BY <2>3
    DEF MsgNext, HandlerStep, OnChatMessage, OnGetHistory, Touch, RunReactivation,
        StoreBroadcast, StorePrivate, RefusePrivate, Resume, CopyGeneral, CopyPrivate,
        CopyDone, PostHistory, Deliver, Background, MarkInactive, Cleanup, Minute,
        vars, regvars
  <2> QED
    BY <2>1, <2>2, <2>3
<1>3. CASE Ready(d) /\ ~\E to \in User \cup {Everyone} : OnChatMessage(d, to) \/ OnGetHistory(d, to)
  BY <1>0, <1>3, JobStep, HandlerJob, OthersSame DEF Ready
<1> QED
  BY <1>1, <1>2, <1>3

LEMMA AuthorsStep == MsgBase /\ [MsgNext]_vars => Authors'
<1> SUFFICES ASSUME MsgBase, [MsgNext]_vars, NEW d \in Conn
             PROVE  /\ job'[d].at \in {"reactivate", "store", "wait"}
                         => job'[d].msg.author = Sender(d)'
                    /\ job'[d].at \in {"read", "copy"} => job'[d].author = Sender(d)'
  BY DEF Authors
<1>0. TypeOK /\ MessagingTypeOK /\ Authors
  BY DEF MsgBase
<1>1. ~Ready(d) => Sender(d)' = Sender(d)
  BY OwnersStep DEF OwnersKept
<1>2. ASSUME NEW to \in User \cup {Everyone}, OnChatMessage(d, to) \/ OnGetHistory(d, to)
      PROVE  Sender(d)' = Sender(d)
  BY <1>2, HandlerOwned
<1> DEFINE Goal == /\ job'[d].at \in {"reactivate", "store", "wait"}
                        => job'[d].msg.author = Sender(d)'
                   /\ job'[d].at \in {"read", "copy"} => job'[d].author = Sender(d)'
<1>3. ASSUME NEW to \in User \cup {Everyone}, OnChatMessage(d, to) PROVE Goal
  <2>1. /\ job'[d].at \in {"reactivate", "store"}
        /\ job'[d].msg = [author |-> Sender(d), text |-> sent + 1, to |-> to]
    BY <1>0, <1>3, BeginningJob
  <2> QED
    BY <1>2, <1>3, <2>1
<1>4. ASSUME NEW to \in User \cup {Everyone}, OnGetHistory(d, to) PROVE Goal
  <2>1. job'[d] = [at |-> "read", author |-> Sender(d), to |-> to, asked |-> Len(outbox[d])]
    BY <1>0, <1>4, BeginningJob
  <2> QED
    BY <1>2, <1>4, <2>1
<1>5. CASE HandlerStep(d)
  BY <1>0, <1>1, <1>5, HandlerJob DEF Authors
<1>6. ASSUME NEW c \in Conn \ {d}, OthersKept(c) PROVE Goal
  BY <1>0, <1>1, <1>6, OthersSame DEF Authors, Ready
<1>7. CASE UNCHANGED job
  BY <1>0, <1>1, <1>7 DEF Authors, Ready
<1> QED
  BY <1>3, <1>4, <1>5, <1>6, <1>7, JobStep

LEMMA BaseInit == MsgInit => MsgBase
<1> SUFFICES ASSUME MsgInit PROVE MsgBase
  OBVIOUS
<1>1. TypeOK /\ OwnershipAgrees
  BY TypeInit, OwnershipInit DEF MsgInit
<1>2. MessagingTypeOK
  <2>1. NoJob \in Job /\ 0 \in 0 .. MaxMessages
    BY MessagingAssumption DEF Job
  <2>2. <<>> \in Seq(Message) /\ <<>> \in Seq(Message \cup {Error4})
    OBVIOUS
  <2> QED
    BY <2>1, <2>2 DEF MsgInit, MessagingTypeOK
<1>3. Busy /\ Authors
  BY DEF MsgInit, Busy, Authors, Ready, NoJob
<1> QED
  BY <1>1, <1>2, <1>3 DEF MsgBase

LEMMA BaseStep == MsgBase /\ [MsgNext]_vars => MsgBase'
<1> SUFFICES ASSUME MsgBase, [MsgNext]_vars PROVE MsgBase'
  OBVIOUS
<1>1. TypeOK' /\ OwnershipAgrees'
  BY RegistryStep, TypeStep, OwnershipStep DEF MsgBase
<1> QED
  BY <1>1, MessagingTypeStep, BusyStep, AuthorsStep DEF MsgBase

(* The handlers and delivery threads, whatever their order, keep the types *)
(* of jobs, histories and outboxes, and a handler waits for its own task.  *)
THEOREM MessagingTypeCorrect == MsgSpec => []MessagingTypeOK
<1>1. MsgBase => MessagingTypeOK
  BY DEF MsgBase
<1> QED
  BY <1>1, BaseInit, BaseStep, PTL DEF MsgSpec

(* The handlers of chat messages and history requests implement the        *)
(* registry, like those of Presence.                                       *)
THEOREM MessagingRefines == MsgSpec => RegSpec
<1>1. MsgInit => RegInit
  BY DEF MsgInit
<1> QED
  BY <1>1, BaseInit, BaseStep, RegistryStep, PTL DEF MsgSpec, RegSpec

-----------------------------------------------------------------------------
(* What a step does to what clients are sent.                              *)

(* What was posted stays, for as long as the session does. *)
BoxGrows(d) ==
  /\ Len(outbox[d]) <= Len(outbox'[d])
  /\ \A i \in 1 .. Len(outbox[d]) : outbox'[d][i] = outbox[d][i]

(* A message that is posted comes from a task and is for the owner of the  *)
(* connection.                                                             *)
Posted(t, d, i) ==
  /\ Deliver(t)
  /\ i > Len(outbox[d])
  /\ outbox'[d][i] = t.msg
  /\ Owned(d) # {}
  /\ t.msg.to # Everyone => Owned(d) \cap {t.msg.author, t.msg.to} # {}

LEMMA DeliveredBox ==
  ASSUME MessagingTypeOK, NEW t \in tasks, Deliver(t), NEW d \in Conn
  PROVE  /\ BoxGrows(d)
         /\ Len(outbox'[d]) = Len(outbox[d]) + Copies(d, t.msg)
         /\ \A i \in DOMAIN outbox'[d] : i \in DOMAIN outbox[d] \/ Posted(t, d, i)
<1> DEFINE s == [i \in 1 .. Copies(d, t.msg) |-> t.msg]
<1>1. Copies(d, t.msg) \in Nat
  BY DEF Copies
<1>2. outbox'[d] = outbox[d] \o s
  BY DEF Deliver
<1>3. outbox[d] \in Seq(Message \cup {Error4}) /\ t.msg \in Message
  BY DEF MessagingTypeOK
<1>4. s \in Seq(Message \cup {Error4}) /\ Len(s) = Copies(d, t.msg)
  BY <1>1, <1>3
<1>5. \A i \in 1 .. Len(s) : s[i] = t.msg
  BY <1>4
<1>6. Copies(d, t.msg) > 0 =>
        /\ Owned(d) # {}
        /\ t.msg.to # Everyone => Owned(d) \cap {t.msg.author, t.msg.to} # {}
  BY DEF Copies
<1> HIDE DEF s
<1>7. /\ outbox'[d] \in Seq(Message \cup {Error4})
      /\ Len(outbox'[d]) = Len(outbox[d]) + Len(s)
      /\ \A i \in 1 .. Len(outbox[d]) : outbox'[d][i] = outbox[d][i]
      /\ \A i \in 1 .. Len(s) : outbox'[d][Len(outbox[d]) + i] = s[i]
  <2>1. outbox[d] \o s \in Seq(Message \cup {Error4})
    BY <1>3, <1>4
  <2>2. Len(outbox[d] \o s) = Len(outbox[d]) + Len(s)
    BY <1>3, <1>4
  <2>3. ASSUME NEW i \in 1 .. Len(outbox[d]) PROVE (outbox[d] \o s)[i] = outbox[d][i]
    BY <1>3, <1>4
  <2>4. ASSUME NEW i \in 1 .. Len(s) PROVE (outbox[d] \o s)[Len(outbox[d]) + i] = s[i]
    BY <1>3, <1>4
  <2> QED
    BY <1>2, <2>1, <2>2, <2>3, <2>4
<1>8. ASSUME NEW i \in DOMAIN outbox'[d], i \notin DOMAIN outbox[d]
      PROVE  i > Len(outbox[d]) /\ outbox'[d][i] = t.msg /\ Len(s) > 0
  <2>1. i \in Nat /\ i > Len(outbox[d]) /\ i <= Len(outbox[d]) + Len(s)
    BY <1>3, <1>4, <1>7, <1>8
  <2>2. i - Len(outbox[d]) \in 1 .. Len(s) /\ i = Len(outbox[d]) + (i - Len(outbox[d]))
    BY <1>3, <1>4, <2>1
  <2>3. outbox'[d][i] = s[i - Len(outbox[d])]
    BY <1>7, <2>2
  <2> QED
    BY <1>4, <1>5, <2>1, <2>2, <2>3
<1> QED
  BY <1>1, <1>3, <1>4, <1>6, <1>7, <1>8 DEF BoxGrows, Posted

(* The other steps post error frames, or end the session. *)
LEMMA OtherBox ==
  ASSUME MsgBase, [MsgNext]_vars, ~\E t \in tasks : Deliver(t), NEW d \in Conn
  PROVE  \/ BoxGrows(d) /\ \A i \in Seen(d)' : i \in DOMAIN outbox[d]
         \/ Ready(d) /\ outbox'[d] = <<>>
<1>0. MessagingTypeOK
  BY DEF MsgBase
<1>1. outbox[d] \in Seq(Message \cup {Error4}) /\ outbox \in [Conn -> Seq(Message \cup {Error4})]
  BY <1>0 DEF MessagingTypeOK
<1> DEFINE Grown == BoxGrows(d) /\ \A i \in Seen(d)' : i \in DOMAIN outbox[d]
<1>2. ASSUME outbox'[d] = outbox[d] PROVE Grown
  BY <1>1, <1>2 DEF BoxGrows, Seen
<1>3. ASSUME outbox'[d] = Append(outbox[d], Error4) PROVE Grown
  <2>1. /\ Len(outbox'[d]) = Len(outbox[d]) + 1
        /\ DOMAIN outbox'[d] = 1 .. Len(outbox[d]) + 1
        /\ \A i \in 1 .. Len(outbox[d]) : outbox'[d][i] = outbox[d][i]
        /\ outbox'[d][Len(outbox[d]) + 1] = Error4
    BY <1>1, <1>3
  <2>2. DOMAIN outbox[d] = 1 .. Len(outbox[d]) /\ Len(outbox[d]) \in Nat
    BY <1>1
  <2> QED
    BY <2>1, <2>2 DEF BoxGrows, Seen
<1>4. ASSUME NEW c \in Conn, RefusePrivate(c) PROVE Grown
  BY <1>2, <1>3, <1>4 DEF RefusePrivate
<1>5. ASSUME NEW c \in Conn, OnClose(c) PROVE Grown \/ (Ready(d) /\ outbox'[d] = <<>>)
  BY <1>1, <1>2, <1>5 DEF OnClose
<1> QED
  BY <1>2, <1>4, <1>5
  DEF MsgNext, HandlerStep, OnChatMessage, OnGetHistory, RunReactivation, StoreBroadcast,
      StorePrivate, Resume, CopyGeneral, CopyPrivate, CopyDone, PostHistory, OtherHandler,
      Background, vars, msgvars

LEMMA BoxStep ==
  ASSUME MsgBase, [MsgNext]_vars, NEW d \in Conn
  PROVE  /\ ~Ready(d) => BoxGrows(d)
         /\ \A i \in Seen(d)' :
              \/ i \in Seen(d) /\ outbox'[d][i] = outbox[d][i]
              \/ \E t \in tasks : Posted(t, d, i)
<1>0. MessagingTypeOK /\ outbox[d] \in Seq(Message \cup {Error4})
  BY DEF MsgBase, MessagingTypeOK
<1>1. ASSUME BoxGrows(d), NEW i \in Seen(d)', i \in DOMAIN outbox[d]
      PROVE  i \in Seen(d) /\ outbox'[d][i] = outbox[d][i]
  BY <1>0, <1>1 DEF BoxGrows, Seen
<1>2. ASSUME NEW t \in tasks, Deliver(t), NEW i \in Seen(d)'
      PROVE  BoxGrows(d) /\ (i \in DOMAIN outbox[d] \/ Posted(t, d, i))
  BY <1>0, <1>2, DeliveredBox DEF Seen
<1>3. ASSUME NEW t \in tasks, Deliver(t) PROVE BoxGrows(d)
  BY <1>0, <1>3, DeliveredBox
<1>4. outbox'[d] = <<>> => Seen(d)' = {}
  BY DEF Seen
<1> QED
  BY <1>1, <1>2, <1>3, <1>4, OtherBox

(* A private message stays with its parties: when the connection changes   *)
(* hands nothing of the old session is left.                               *)
LEMMA PrivateStep == MsgBase /\ PrivateToParties /\ [MsgNext]_vars => PrivateToParties'
<1> SUFFICES ASSUME MsgBase, PrivateToParties, [MsgNext]_vars,
                    NEW d \in Conn, NEW i \in Seen(d)', outbox'[d][i].to # Everyone
             PROVE  Owned(d)' \cap {outbox'[d][i].author, outbox'[d][i].to} # {}
  BY DEF PrivateToParties
<1>1. CASE i \in Seen(d) /\ outbox'[d][i] = outbox[d][i]
  <2>1. Owned(d) \cap {outbox[d][i].author, outbox[d][i].to} # {}
    BY <1>1 DEF PrivateToParties
  <2>2. outbox'[d] # <<>>
    BY DEF Seen
  <2> QED
    BY <1>1, <2>1, <2>2, OwnedStep
<1>2. ASSUME NEW t \in tasks, Posted(t, d, i)
      PROVE  Owned(d)' \cap {outbox'[d][i].author, outbox'[d][i].to} # {}
  <2>1. Owned(d)' = Owned(d)
    BY <1>2, HandlerOwned DEF Posted
  <2> QED
    BY <1>2, <2>1 DEF Posted
<1> QED
  BY <1>1, <1>2, BoxStep

(* However names move between connections while a private message is being *)
(* stored and delivered, only its author and its recipient are sent it.    *)
THEOREM PrivacyCorrect == MsgSpec => []PrivateToParties
<1>1. MsgInit => PrivateToParties
  BY DEF MsgInit, PrivateToParties, Seen
<1> QED
  BY <1>1, BaseInit, BaseStep, PrivateStep, PTL DEF MsgSpec

-----------------------------------------------------------------------------
(* The histories.                                                          *)

(* What a delivery thread is about to post is in the history. *)
TasksStored == \A t \in tasks : t.msg \in ToSet(HistoryOf(t.msg.author, t.msg.to))

LEMMA AppendSet ==
  ASSUME NEW S, NEW s \in Seq(S), NEW m \in S
  PROVE  ToSet(Append(s, m)) = ToSet(s) \cup {m}
<1>1. /\ DOMAIN Append(s, m) = DOMAIN s \cup {Len(s) + 1}
      /\ Append(s, m)[Len(s) + 1] = m
      /\ \A i \in DOMAIN s : Append(s, m)[i] = s[i]
  OBVIOUS
<1> QED
  BY <1>1 DEF ToSet

(* Messages are stored behind the others of their chat. *)
LEMMA StoredStep ==
  ASSUME MessagingTypeOK, NEW c \in Conn, StoreBroadcast(c) \/ StorePrivate(c),
         NEW a \in Name, NEW to \in User \cup {Everyone}
  PROVE  /\ ToSet(HistoryOf(a, to)) \subseteq ToSet(HistoryOf(a, to))'
         /\ a = job[c].msg.author /\ to = job[c].msg.to
              => job[c].msg \in ToSet(HistoryOf(a, to))'
<1> USE MessagingAssumption
<1> DEFINE m == job[c].msg
<1>0. m \in Message
  BY JobFields DEF MessagingTypeOK, StoreBroadcast, StorePrivate
<1>1. HistoryOf(a, to) \in Seq(Message)
  BY HistoryType
<1>2. ToSet(Append(HistoryOf(a, to), m)) = ToSet(HistoryOf(a, to)) \cup {m}
  BY <1>0, <1>1, AppendSet
<1>3. \/ HistoryOf(a, to)' = HistoryOf(a, to) /\ ~(a = m.author /\ to = m.to)
      \/ HistoryOf(a, to)' = Append(HistoryOf(a, to), m)
  <2>1. CASE StoreBroadcast(c)
    BY <2>1 DEF StoreBroadcast, HistoryOf
  <2>2. CASE StorePrivate(c)
    <3>1. /\ m.to # Everyone
          /\ general_chat_history' = general_chat_history
          /\ chat_history' = [chat_history EXCEPT ![{m.author, m.to}] = Append(@, m)]
      BY <2>2 DEF StorePrivate
    <3>2. to # Everyone => {a, to} \in Chat /\ DOMAIN chat_history = Chat
      BY DEF Chat, MessagingTypeOK
    <3> HIDE DEF m
    <3>3. CASE to = Everyone
      BY <3>1, <3>3 DEF HistoryOf
    <3>4. CASE to # Everyone /\ {a, to} = {m.author, m.to}
      BY <3>1, <3>2, <3>4 DEF HistoryOf
    <3>5. CASE to # Everyone /\ {a, to} # {m.author, m.to}
      BY <3>1, <3>2, <3>5 DEF HistoryOf
    <3> QED
      BY <3>3, <3>4, <3>5
  <2> QED
    BY <2>1, <2>2
<1> HIDE DEF m
<1>4. CASE HistoryOf(a, to)' = HistoryOf(a, to) /\ ~(a = m.author /\ to = m.to)
  BY <1>4 DEF m, ToSet
<1>5. CASE HistoryOf(a, to)' = Append(HistoryOf(a, to), m)
  <2>1. ToSet(HistoryOf(a, to))' = ToSet(Append(HistoryOf(a, to), m))
    BY <1>5 DEF ToSet
  <2> QED
    BY <1>2, <2>1 DEF m
<1> QED
  BY <1>3, <1>4, <1>5

LEMMA HistoriesStep ==
  ASSUME MsgBase, [MsgNext]_vars, NEW a \in Name, NEW to \in User \cup {Everyone}
  PROVE  ToSet(HistoryOf(a, to)) \subseteq ToSet(HistoryOf(a, to))'
<1>0. MessagingTypeOK
  BY DEF MsgBase
<1>1. CASE \E c \in Conn : StoreBroadcast(c) \/ StorePrivate(c)
  BY <1>0, <1>1, StoredStep
<1>2. CASE UNCHANGED <<general_chat_history, chat_history>>
  BY <1>2 DEF HistoryOf, ToSet
<1> QED
  BY <1>1, <1>2
  DEF MsgNext, HandlerStep, OnChatMessage, OnGetHistory, RunReactivation, RefusePrivate,
      Resume, CopyGeneral, CopyPrivate, CopyDone, PostHistory, Deliver, OnClose,
      OtherHandler, Background, vars, msgvars

(* A task that was not there before has just been launched. *)
LEMMA NewTask ==
  ASSUME MsgBase, [MsgNext]_vars, NEW t \in tasks' \ tasks
  PROVE  \E c \in Conn : (StoreBroadcast(c) \/ StorePrivate(c)) /\ t.msg = job[c].msg
<1>0. MessagingTypeOK
  BY DEF MsgBase
<1>1. ASSUME NEW c \in Conn, StoreBroadcast(c) \/ StorePrivate(c) PROVE t.msg = job[c].msg
  <2>1. tasks' \subseteq tasks \cup {[by |-> c, msg |-> job[c].msg]}
    BY <1>0, <1>1, Launching DEF StoreBroadcast, StorePrivate
  <2> QED
    BY <2>1
<1>2. ~ (tasks' \subseteq tasks)
  OBVIOUS
<1> QED
  BY <1>1, <1>2
  DEF MsgNext, HandlerStep, OnChatMessage, OnGetHistory, RunReactivation, RefusePrivate,
      Resume, CopyGeneral, CopyPrivate, CopyDone, PostHistory, Deliver, OnClose,
      OtherHandler, Background, vars, msgvars

LEMMA TasksStoredStep == MsgBase /\ TasksStored /\ [MsgNext]_vars => TasksStored'
<1> SUFFICES ASSUME MsgBase, TasksStored, [MsgNext]_vars, NEW t \in tasks'
             PROVE  t.msg \in ToSet(HistoryOf(t.msg.author, t.msg.to))'
  BY DEF TasksStored
<1>0. MessagingTypeOK
  BY DEF MsgBase
<1>1. CASE t \in tasks
  <2>1. t.msg.author \in Name /\ t.msg.to \in User \cup {Everyone}
    BY <1>0, <1>1 DEF MessagingTypeOK, Message
  <2> QED
    BY <1>1, <2>1, HistoriesStep DEF TasksStored
<1>2. CASE t \notin tasks
  <2>1. PICK c \in Conn : (StoreBroadcast(c) \/ StorePrivate(c)) /\ t.msg = job[c].msg
    BY <1>2, NewTask
  <2>2. job[c].msg \in Message
    BY <1>0, <2>1, JobFields DEF MessagingTypeOK, StoreBroadcast, StorePrivate
  <2> QED
    BY <1>0, <2>1, <2>2, StoredStep DEF Message
<1> QED
  BY <1>1, <1>2

LEMMA MessageSeen ==
  ASSUME MessagingTypeOK, NEW d \in Conn, NEW i \in Seen(d)
  PROVE  outbox[d][i] \in Message
  BY DEF MessagingTypeOK, Seen

LEMMA StoredSeenStep ==
  MsgBase /\ TasksStored /\ DeliveredIsStored /\ [MsgNext]_vars => DeliveredIsStored'
<1> SUFFICES ASSUME MsgBase, TasksStored, DeliveredIsStored, [MsgNext]_vars,
                    NEW d \in Conn, NEW i \in Seen(d)'
             PROVE  (outbox[d][i]
                       \in ToSet(HistoryOf(outbox[d][i].author, outbox[d][i].to)))'
  BY DEF DeliveredIsStored
<1>0. MessagingTypeOK
  BY DEF MsgBase
<1> DEFINE m == outbox'[d][i]
<1>1. m \in Message /\ m \in ToSet(HistoryOf(m.author, m.to))
  <2>1. CASE i \in Seen(d) /\ outbox'[d][i] = outbox[d][i]
    BY <1>0, <2>1, MessageSeen DEF DeliveredIsStored
  <2>2. ASSUME NEW t \in tasks, Posted(t, d, i)
        PROVE  m \in Message /\ m \in ToSet(HistoryOf(m.author, m.to))
    BY <1>0, <2>2 DEF Posted, TasksStored, MessagingTypeOK
  <2> QED
    BY <2>1, <2>2, BoxStep
<1>2. PICK n : n = m
  OBVIOUS
<1>3. ToSet(HistoryOf(n.author, n.to)) \subseteq ToSet(HistoryOf(n.author, n.to))'
  BY <1>1, <1>2, HistoriesStep DEF Message
<1>4. n \in ToSet(HistoryOf(n.author, n.to))'
  BY <1>1, <1>2, <1>3
<1> QED
  BY <1>2, <1>4 DEF HistoryOf

(* Nobody sees a message before it is in the history of its chat, nor one  *)
(* that is in no history: not when a thread cannot be started, and not     *)
(* when names move meanwhile.                                              *)
THEOREM StoredCorrect == MsgSpec => []DeliveredIsStored
<1>1. MsgInit => TasksStored /\ DeliveredIsStored
  BY DEF MsgInit, TasksStored, DeliveredIsStored, Seen
<1> QED
  BY <1>1, BaseInit, BaseStep, TasksStoredStep, StoredSeenStep, PTL DEF MsgSpec

-----------------------------------------------------------------------------
(* The order of messages.                                                  *)

(* The handler of c has a message that has not been posted to anybody. *)
Undelivered(c) == job[c].at \in {"reactivate", "store"} \/ \E t \in tasks : t.by = c

(* It has a number of its own, and nobody has seen it. *)
Unseen ==
  /\ \A c \in Conn : Undelivered(c) =>
       /\ job[c].msg.text <= sent
       /\ \A d \in Conn \ {c} : Undelivered(d) => job[d].msg.text # job[c].msg.text
       /\ \A d \in Conn : \A i \in Seen(d) : outbox[d][i].text # job[c].msg.text
  /\ \A d \in Conn : \A i \in Seen(d) : outbox[d][i].text <= sent

(* What is seen of its author was sent before. *)
SeenIsOlder ==
  \A c, d \in Conn : \A i \in Seen(d) :
    /\ Undelivered(c)
    /\ outbox[d][i].author = job[c].msg.author
    /\ job[c].msg.author \in User \ {Desconocido}
    => outbox[d][i].text < job[c].msg.text

LEMMA TaskOf ==
  ASSUME MessagingTypeOK, NEW t \in tasks
  PROVE  /\ t.by \in Conn /\ t.msg \in Message
         /\ t = [by |-> t.by, msg |-> t.msg]
         /\ job[t.by].at = "wait" /\ job[t.by].msg = t.msg
<1>1. t \in [by : Conn, msg : Message] /\ job[t.by] = [at |-> "wait", msg |-> t.msg]
  BY DEF MessagingTypeOK
<1>2. [at |-> "wait", msg |-> t.msg].at = "wait" /\ [at |-> "wait", msg |-> t.msg].msg = t.msg
  OBVIOUS
<1> QED
  BY <1>1, <1>2

LEMMA UndeliveredMessage ==
  ASSUME MessagingTypeOK, NEW c \in Conn, Undelivered(c)
  PROVE  /\ job[c].at \in {"reactivate", "store", "wait"}
         /\ job[c].msg \in Message /\ job[c].msg.text \in Nat
         /\ \A t \in tasks : t.by = c => t = [by |-> c, msg |-> job[c].msg]
<1>1. \A t \in tasks : t.by = c => job[c].at = "wait" /\ t = [by |-> c, msg |-> job[c].msg]
  BY TaskOf
<1>2. job[c].at \in {"reactivate", "store", "wait"}
  BY <1>1 DEF Undelivered
<1>3. job[c] \in Job
  BY DEF MessagingTypeOK
<1>4. job[c].msg \in Message
  BY <1>2, <1>3, JobFields
<1>5. job[c].msg.text \in Nat
  BY <1>4, MessagingAssumption DEF Message
<1> QED
  BY <1>1, <1>2, <1>4, <1>5

(* Undelivered messages were undelivered before, or have just been sent. *)
LEMMA UndeliveredStep ==
  ASSUME MsgBase, [MsgNext]_vars, NEW c \in Conn, Undelivered(c)'
  PROVE  \/ /\ Undelivered(c) /\ job'[c].msg = job[c].msg
            /\ \A t \in tasks : Deliver(t) => t.by # c
         \/ \E to \in User \cup {Everyone} :
              /\ OnChatMessage(c, to)
              /\ job'[c].msg = [author |-> Sender(c), text |-> sent + 1, to |-> to]
<1>0. MessagingTypeOK /\ MessagingTypeOK'
  BY MessagingTypeStep DEF MsgBase
<1>1. ASSUME NEW t \in tasks', t.by = c PROVE job'[c].at = "wait" /\ job'[c].msg = t.msg
  <2>1. job'[c] = [at |-> "wait", msg |-> t.msg]
    BY <1>0, <1>1 DEF MessagingTypeOK
  <2> QED
    BY <2>1
<1>2. job'[c].at \in {"reactivate", "store", "wait"}
  BY <1>1 DEF Undelivered
<1>3. ASSUME NEW to \in User \cup {Everyone}, OnChatMessage(c, to)
      PROVE  job'[c].msg = [author |-> Sender(c), text |-> sent + 1, to |-> to]
  BY <1>0, <1>3, BeginningJob
<1>4. ASSUME NEW to \in User \cup {Everyone}, OnGetHistory(c, to) PROVE FALSE
  <2>1. job'[c] = [at |-> "read", author |-> Sender(c), to |-> to, asked |-> Len(outbox[c])]
    BY <1>0, <1>4, BeginningJob
  <2> QED
    BY <1>2, <2>1
<1>5. CASE HandlerStep(c)
  <2>1. /\ job'[c].msg = job[c].msg
        /\ job[c].at \in {"reactivate", "store"}
    BY <1>0, <1>2, <1>5, HandlerJob
  <2>2. ASSUME NEW t \in tasks, Deliver(t), t.by = c PROVE FALSE
    BY <1>0, <2>1, <2>2, WaitsForOwn
  <2> QED
    BY <2>1, <2>2 DEF Undelivered
<1>6. CASE job'[c] = job[c]
  <2>1. CASE job[c].at \in {"reactivate", "store"}
    <3>1. ASSUME NEW t \in tasks, t.by = c PROVE FALSE
      BY <1>0, <2>1, <3>1, WaitsForOwn
    <3> QED
      BY <1>6, <2>1, <3>1 DEF Undelivered
  <2>2. CASE job[c].at \notin {"reactivate", "store"}
    <3>1. PICK t \in tasks' : t.by = c
      BY <1>6, <2>2 DEF Undelivered
    <3>2. t.msg = job[c].msg /\ job[c].at = "wait"
      BY <1>1, <1>6, <3>1
    <3>3. t \in tasks
      <4>1. SUFFICES ASSUME t \notin tasks PROVE FALSE
        OBVIOUS
      <4>2. PICK d \in Conn : StoreBroadcast(d) \/ StorePrivate(d)
        BY <4>1, NewTask
      <4>3. tasks' \subseteq tasks \cup {[by |-> d, msg |-> job[d].msg]}
        BY <1>0, <4>2, Launching DEF StoreBroadcast, StorePrivate
      <4>4. t.by = d
        BY <4>1, <4>3
      <4> QED
        BY <3>1, <3>2, <4>2, <4>4 DEF StoreBroadcast, StorePrivate
    <3>4. Undelivered(c)
      BY <3>1, <3>3 DEF Undelivered
    <3>5. ASSUME NEW u \in tasks, Deliver(u), u.by = c PROVE FALSE
      <4>1. u = t
        BY <1>0, <3>1, <3>3, <3>4, <3>5, UndeliveredMessage
      <4> QED
        BY <3>1, <3>5, <4>1 DEF Deliver
    <3> QED
      BY <1>6, <3>4, <3>5
  <2> QED
    BY <2>1, <2>2
<1>7. ASSUME NEW d \in Conn \ {c}, OthersKept(d) PROVE job'[c] = job[c]
  <2>1. job'[c].at = job[c].at /\ (job[c].at # "copy" => job'[c] = job[c])
    BY <1>0, <1>7, OthersSame
  <2> QED
    BY <1>2, <2>1
<1> QED
  BY <1>3, <1>4, <1>5, <1>6, <1>7, JobStep

(* Only a new message is counted. *)
LEMMA SentStep ==
  ASSUME MsgBase, [MsgNext]_vars
  PROVE  /\ sent \in Nat /\ sent' \in Nat /\ sent <= sent'
         /\ sent' = sent \/ \E c \in Conn, to \in User \cup {Everyone} : OnChatMessage(c, to)
         /\ \A c \in Conn, to \in User \cup {Everyone} :
              OnChatMessage(c, to) => sent' = sent + 1
<1>1. sent \in Nat
  BY MessagingAssumption DEF MsgBase, MessagingTypeOK
<1>2. sent' = sent \/ \E c \in Conn, to \in User \cup {Everyone} : OnChatMessage(c, to)
  BY DEF MsgNext, HandlerStep, OnGetHistory, RunReactivation, StoreBroadcast, StorePrivate,
         RefusePrivate, Resume, CopyGeneral, CopyPrivate, CopyDone, PostHistory, Deliver,
         OnClose, OtherHandler, Background, vars, msgvars
<1>3. \A c \in Conn, to \in User \cup {Everyone} : OnChatMessage(c, to) => sent' = sent + 1
  BY DEF OnChatMessage
<1> QED
  BY <1>1, <1>2, <1>3

(* What is posted was undelivered, and is not any more. *)
LEMMA PostedMessage ==
  ASSUME MsgBase, NEW t \in tasks, NEW d \in Conn, NEW i \in Nat, Posted(t, d, i)
  PROVE  /\ t.by \in Conn /\ Undelivered(t.by) /\ outbox'[d][i] = job[t.by].msg
         /\ outbox'[d][i] \in Message /\ UNCHANGED sent
<1>1. MessagingTypeOK
  BY DEF MsgBase
<1> QED
  BY <1>1, TaskOf DEF Posted, Undelivered, Deliver

LEMMA UnseenStep == MsgBase /\ Unseen /\ [MsgNext]_vars => Unseen'
<1> SUFFICES ASSUME MsgBase, Unseen, [MsgNext]_vars PROVE Unseen'
  OBVIOUS
<1>0. MessagingTypeOK /\ MessagingTypeOK'
  BY MessagingTypeStep DEF MsgBase
<1> DEFINE Sends(c) == \E to \in User \cup {Everyone} :
             /\ OnChatMessage(c, to)
             /\ job'[c].msg = [author |-> Sender(c), text |-> sent + 1, to |-> to]
           Waits(c) == /\ Undelivered(c) /\ job'[c].msg = job[c].msg
                       /\ \A t \in tasks : Deliver(t) => t.by # c
<1>1. ASSUME NEW c \in Conn, Undelivered(c)' PROVE Waits(c) \/ Sends(c)
  BY <1>1, UndeliveredStep
<1>2. ASSUME NEW c \in Conn, Sends(c)
      PROVE  job'[c].msg.text = sent + 1 /\ sent' = sent + 1
  BY <1>2, SentStep
<1>3. ASSUME NEW c \in Conn, Waits(c)
      PROVE  /\ job'[c].msg.text = job[c].msg.text /\ job[c].msg.text <= sent
             /\ job[c].msg.text \in Nat
  BY <1>0, <1>3, UndeliveredMessage DEF Unseen
<1>4. ASSUME NEW c \in Conn, NEW d \in Conn \ {c}, Sends(c), Sends(d) PROVE FALSE
  <2>1. OthersKept(c) /\ Ready(d) /\ ~Ready(d)'
    BY <1>0, <1>4, BeginningJob DEF Ready
  <2> QED
    BY <1>0, <2>1, OthersSame DEF Ready
<1>5. ASSUME NEW c \in Conn, Undelivered(c)' PROVE job'[c].msg.text <= sent'
  BY <1>1, <1>2, <1>3, <1>5, SentStep
<1>6. ASSUME NEW c \in Conn, Undelivered(c)', NEW d \in Conn \ {c}, Undelivered(d)'
      PROVE  job'[d].msg.text # job'[c].msg.text
  <2>1. CASE Waits(c) /\ Waits(d)
    BY <1>3, <2>1 DEF Unseen
  <2>2. ASSUME NEW a \in Conn, NEW b \in Conn, Waits(a), Sends(b)
        PROVE  job'[b].msg.text # job'[a].msg.text
    <3>1. job'[b].msg.text = sent + 1
      BY <1>2, <2>2
    <3>2. job'[a].msg.text <= sent /\ job'[a].msg.text \in Nat
      BY <1>3, <2>2
    <3> QED
      BY <3>1, <3>2, SentStep
  <2> HIDE DEF Waits, Sends
  <2> QED
    BY <1>1, <1>4, <1>6, <2>1, <2>2
<1>7. ASSUME NEW d \in Conn, NEW i \in Seen(d)'
      PROVE  \/ i \in Seen(d) /\ outbox'[d][i] = outbox[d][i]
             \/ \E t \in tasks :
                  /\ Deliver(t) /\ t.by \in Conn /\ Undelivered(t.by)
                  /\ outbox'[d][i] = job[t.by].msg /\ UNCHANGED sent
  <2>1. i \in Nat
    BY <1>0 DEF Seen, MessagingTypeOK
  <2> QED
    BY <2>1, BoxStep, PostedMessage DEF Posted
<1>8. ASSUME NEW d \in Conn, NEW i \in Seen(d)'
      PROVE  outbox'[d][i].text <= sent
  <2>1. CASE i \in Seen(d) /\ outbox'[d][i] = outbox[d][i]
    BY <2>1 DEF Unseen
  <2> QED
    BY <1>7, <2>1 DEF Unseen
<1>9. ASSUME NEW d \in Conn, NEW i \in Seen(d)' PROVE outbox'[d][i].text \in Nat
  BY <1>0, MessageSeen, MessagingAssumption, BaseStep DEF Message, MessagingTypeOK, Seen
<1>10. ASSUME NEW c \in Conn, Undelivered(c)', NEW d \in Conn, NEW i \in Seen(d)'
       PROVE  outbox'[d][i].text # job'[c].msg.text
  <2>1. CASE Sends(c)
    BY <1>2, <1>8, <1>9, <2>1, SentStep
  <2>2. CASE Waits(c)
    <3>1. CASE i \in Seen(d) /\ outbox'[d][i] = outbox[d][i]
      BY <1>3, <2>2, <3>1 DEF Unseen
    <3>2. ASSUME NEW t \in tasks, Deliver(t), t.by \in Conn, Undelivered(t.by),
                 outbox'[d][i] = job[t.by].msg
          PROVE  outbox'[d][i].text # job'[c].msg.text
      <4>1. t.by # c
        BY <2>2, <3>2
      <4> QED
        BY <1>3, <2>2, <3>2, <4>1 DEF Unseen
    <3> QED
      BY <1>7, <3>1, <3>2
  <2> QED
    BY <1>1, <1>10, <2>1, <2>2
<1>11. ASSUME NEW d \in Conn, NEW i \in Seen(d)' PROVE outbox'[d][i].text <= sent'
  BY <1>8, <1>9, SentStep
<1> QED
  BY <1>5, <1>6, <1>10, <1>11 DEF Unseen

(* What a connection has been sent after a delivery: what it had, and the  *)
(* copies of the message behind it.                                        *)
LEMMA DeliveredSplit ==
  ASSUME MsgBase, [MsgNext]_vars, NEW t \in tasks, Deliver(t),
         NEW d \in Conn, NEW i \in Seen(d)'
  PROVE  /\ i \in Nat /\ Len(outbox[d]) \in Nat
         /\ \/ i \in Seen(d) /\ outbox'[d][i] = outbox[d][i] /\ i <= Len(outbox[d])
            \/ /\ i > Len(outbox[d]) /\ i <= Len(outbox[d]) + Copies(d, t.msg)
               /\ outbox'[d][i] = t.msg
<1>0. MessagingTypeOK
  BY DEF MsgBase
<1>1. /\ outbox[d] \in Seq(Message \cup {Error4})
      /\ outbox'[d] \in Seq(Message \cup {Error4})
  BY <1>0, MessagingTypeStep DEF MessagingTypeOK
<1>2. i \in 1 .. Len(outbox'[d]) /\ outbox'[d][i] # Error4
  BY <1>1 DEF Seen
<1>3. /\ BoxGrows(d)
      /\ Len(outbox'[d]) = Len(outbox[d]) + Copies(d, t.msg)
      /\ i \in DOMAIN outbox[d] \/ Posted(t, d, i)
  BY <1>0, <1>1, <1>2, DeliveredBox
<1>4. i \in Nat /\ Len(outbox[d]) \in Nat /\ DOMAIN outbox[d] = 1 .. Len(outbox[d])
  BY <1>1, <1>2
<1>5. CASE i \in 1 .. Len(outbox[d])
  BY <1>2, <1>3, <1>4, <1>5 DEF BoxGrows, Seen
<1>6. CASE Posted(t, d, i)
  BY <1>2, <1>3, <1>4, <1>6 DEF Posted
<1> QED
  BY <1>3, <1>4, <1>5, <1>6

(* What a task posts is new to everybody and comes last for everybody. *)
LEMMA SameOrderStep == MsgBase /\ Unseen /\ SameOrderForAll /\ [MsgNext]_vars => SameOrderForAll'
<1> SUFFICES ASSUME MsgBase, Unseen, SameOrderForAll, [MsgNext]_vars,
                    NEW c \in Conn, NEW d \in Conn,
                    NEW i \in Seen(c)', NEW j \in Seen(c)',
                    NEW k \in Seen(d)', NEW l \in Seen(d)',
                    i < j, k < l,
                    outbox'[c][i] = outbox'[d][l], outbox'[c][j] = outbox'[d][k]
             PROVE  outbox'[c][i] = outbox'[c][j]
  BY DEF SameOrderForAll
<1>0. MessagingTypeOK
  BY DEF MsgBase
<1> DEFINE Old(e, n) == n \in Seen(e) /\ outbox'[e][n] = outbox[e][n]
<1>1. CASE Old(c, i) /\ Old(c, j) /\ Old(d, k) /\ Old(d, l)
  <2>1. /\ i \in Seen(c) /\ j \in Seen(c) /\ k \in Seen(d) /\ l \in Seen(d)
        /\ outbox[c][i] = outbox[d][l] /\ outbox[c][j] = outbox[d][k]
        /\ i < j /\ k < l
    BY <1>1
  <2>2. outbox[c][i] = outbox[c][j]
    BY <2>1 DEF SameOrderForAll
  <2> QED
    BY <1>1, <2>2
<1>2. ASSUME NEW t \in tasks, Deliver(t) PROVE outbox'[c][i] = outbox'[c][j]
  <2>1. ASSUME NEW e \in Conn, NEW n \in Seen(e)'
        PROVE  \/ Old(e, n) /\ n <= Len(outbox[e]) /\ outbox'[e][n] # t.msg
               \/ n > Len(outbox[e]) /\ outbox'[e][n] = t.msg
    <3>1. t.by \in Conn /\ Undelivered(t.by) /\ job[t.by].msg = t.msg
      BY <1>0, TaskOf DEF Undelivered
    <3>2. Old(e, n) => outbox'[e][n] # t.msg
      BY <3>1 DEF Unseen
    <3> QED
      BY <1>2, <3>2, DeliveredSplit
  <2>2. /\ i \in Nat /\ j \in Nat /\ k \in Nat /\ l \in Nat
        /\ Len(outbox[c]) \in Nat /\ Len(outbox[d]) \in Nat
    BY <1>2, DeliveredSplit
  <2>3. CASE outbox'[c][i] = t.msg
    <3>1. i > Len(outbox[c])
      BY <2>1, <2>3
    <3>2. j > Len(outbox[c])
      BY <2>2, <3>1
    <3>3. outbox'[c][j] = t.msg
      BY <2>1, <2>2, <3>2
    <3> QED
      BY <2>3, <3>3
  <2>4. CASE outbox'[c][j] = t.msg
    <3>1. k > Len(outbox[d])
      BY <2>1, <2>4
    <3>2. l > Len(outbox[d])
      BY <2>2, <3>1
    <3>3. outbox'[d][l] = t.msg
      BY <2>1, <2>2, <3>2
    <3> QED
      BY <2>4, <3>3
  <2>5. CASE outbox'[c][i] # t.msg /\ outbox'[c][j] # t.msg
    <3>1. Old(c, i) /\ Old(c, j)
      BY <2>1, <2>5
    <3>2. Old(d, k) /\ Old(d, l)
      BY <2>1, <2>5
    <3> QED
      BY <1>1, <3>1, <3>2
  <2> QED
    BY <2>3, <2>4, <2>5
<1>3. CASE ~\E t \in tasks : Deliver(t)
  BY <1>1, <1>3, BoxStep DEF Posted
<1> QED
  BY <1>2, <1>3

(* Messages reach all clients in one order, whichever threads deliver them.*)
THEOREM OrderCorrect == MsgSpec => []SameOrderForAll
<1>1. MsgInit => Unseen /\ SameOrderForAll
  BY DEF MsgInit, Unseen, Undelivered, NoJob, SameOrderForAll, Seen
<1> QED
  BY <1>1, BaseInit, BaseStep, UnseenStep, SameOrderStep, PTL DEF MsgSpec

(* A user has one connection, whose handler has one message under way. *)
LEMMA SeenIsOlderStep ==
  ASSUME MsgBase, Unseen, SeenIsOlder, [MsgNext]_vars
  PROVE  SeenIsOlder'
<1> SUFFICES ASSUME NEW c \in Conn, NEW d \in Conn, NEW i \in Seen(d)', Undelivered(c)',
                    outbox'[d][i].author = job'[c].msg.author,
                    job'[c].msg.author \in User \ {Desconocido}
             PROVE  outbox'[d][i].text < job'[c].msg.text
  BY DEF SeenIsOlder
<1>0. MessagingTypeOK /\ MessagingTypeOK' /\ Unseen'
  BY MessagingTypeStep, UnseenStep DEF MsgBase
<1>1. ASSUME NEW to \in User \cup {Everyone}, OnChatMessage(c, to),
             job'[c].msg = [author |-> Sender(c), text |-> sent + 1, to |-> to]
      PROVE  outbox'[d][i].text < job'[c].msg.text
  <2>1. job'[c].msg.text = sent' /\ sent' \in Nat
    BY <1>1, SentStep
  <2>2. outbox'[d][i].text <= sent' /\ outbox'[d][i].text # job'[c].msg.text
    BY <1>0 DEF Unseen
  <2>3. outbox'[d][i].text \in Nat
    <3>1. outbox'[d][i] \in Message
      BY <1>0 DEF MessagingTypeOK, Seen
    <3> QED
      BY <3>1, MessagingAssumption DEF Message
  <2> QED
    BY <2>1, <2>2, <2>3
<1>2. ASSUME Undelivered(c), job'[c].msg = job[c].msg, \A t \in tasks : Deliver(t) => t.by # c
      PROVE  outbox'[d][i].text < job'[c].msg.text
  <2>1. CASE i \in Seen(d) /\ outbox'[d][i] = outbox[d][i]
    BY <1>2, <2>1 DEF SeenIsOlder
  <2>2. ASSUME NEW t \in tasks, Posted(t, d, i) PROVE FALSE
    <3>1. t.by \in Conn \ {c} /\ outbox'[d][i] = t.msg /\ job[t.by].msg = t.msg
      BY <1>0, <1>2, <2>2, TaskOf DEF Posted
    <3>2. job[t.by].at = "wait" /\ job[c].at \in {"reactivate", "store", "wait"}
      BY <1>0, <1>2, TaskOf, UndeliveredMessage
    <3>3. Sender(t.by) = job[c].msg.author /\ Sender(c) = job[c].msg.author
      BY <1>2, <3>1, <3>2 DEF MsgBase, Authors
    <3>4. Sender(c) \in Owned(c) /\ Sender(c) \in Owned(t.by)
      BY <1>2, <3>3 DEF Sender
    <3> QED
      BY <3>1, <3>4 DEF Owned, Owns
  <2> QED
    BY <2>1, <2>2, BoxStep
<1> QED
  BY <1>1, <1>2, UndeliveredStep

LEMMA SenderOrderStep ==
  ASSUME MsgBase, Unseen, SeenIsOlder, SenderOrderKept, [MsgNext]_vars
  PROVE  SenderOrderKept'
<1> SUFFICES ASSUME NEW c \in Conn, NEW i \in Seen(c)', NEW j \in Seen(c)', i < j,
                    outbox'[c][i].author = outbox'[c][j].author,
                    outbox'[c][i].author \in User \ {Desconocido}
             PROVE  \/ outbox'[c][i].text < outbox'[c][j].text
                    \/ /\ outbox'[c][i] = outbox'[c][j]
                       /\ outbox'[c][i].author = outbox'[c][i].to
  BY DEF SenderOrderKept
<1>0. MessagingTypeOK /\ OwnershipAgrees
  BY DEF MsgBase
<1> DEFINE Old(n) == n \in Seen(c) /\ outbox'[c][n] = outbox[c][n]
<1>1. CASE Old(i) /\ Old(j)
  BY <1>1 DEF SenderOrderKept
<1>2. ASSUME NEW t \in tasks, Deliver(t), ~Old(j)
      PROVE  \/ outbox'[c][i].text < outbox'[c][j].text
             \/ /\ outbox'[c][i] = outbox'[c][j]
                /\ outbox'[c][i].author = outbox'[c][i].to
  <2>1. /\ outbox'[c][j] = t.msg /\ j <= Len(outbox[c]) + Copies(c, t.msg)
        /\ i \in Nat /\ j \in Nat /\ Len(outbox[c]) \in Nat
    BY <1>2, DeliveredSplit
  <2>2. CASE Old(i)
    <3>1. t.by \in Conn /\ Undelivered(t.by) /\ job[t.by].msg = t.msg
      BY <1>0, TaskOf DEF Undelivered
    <3> QED
      BY <2>1, <2>2, <3>1 DEF SeenIsOlder
  <2>3. CASE ~Old(i)
    <3>1. i > Len(outbox[c]) /\ outbox'[c][i] = t.msg
      BY <1>2, <2>3, DeliveredSplit
    <3>2. Copies(c, t.msg) > 1
      <4>1. Copies(c, t.msg) \in Nat
        BY DEF Copies
      <4> QED
        BY <2>1, <3>1, <4>1
    <3>3. t.msg.author \in Owned(c) /\ t.msg.to \in Owned(c)
      BY <3>2 DEF Copies
    <3>4. t.msg.author = t.msg.to
      BY <1>0, <3>3, OnlyOwner
    <3> QED
      BY <2>1, <3>1, <3>4
  <2> QED
    BY <2>2, <2>3
<1>3. ASSUME NEW t \in tasks, Deliver(t), Old(j) PROVE Old(i)
  <2>1. Len(outbox[c]) \in Nat /\ i \in Nat /\ j \in Nat
    BY <1>3, DeliveredSplit
  <2>2. j <= Len(outbox[c])
    <3>1. outbox[c] \in Seq(Message \cup {Error4})
      BY <1>0 DEF MessagingTypeOK
    <3>2. j \in DOMAIN outbox[c]
      BY <1>3 DEF Seen
    <3> QED
      BY <3>1, <3>2
  <2> QED
    BY <1>3, <2>1, <2>2, DeliveredSplit
<1>4. CASE ~\E t \in tasks : Deliver(t)
  BY <1>1, <1>4, BoxStep DEF Posted
<1> QED
  BY <1>1, <1>2, <1>3, <1>4

(* The messages of a user arrive in the order they were sent, whatever the *)
(* users are called; only of one called Desconocido nothing is claimed, as *)
(* whom several connections may send at once.                              *)
THEOREM SenderOrderCorrect == MsgSpec => []SenderOrderKept
<1>1. MsgInit => Unseen /\ SeenIsOlder /\ SenderOrderKept
  BY DEF MsgInit, Unseen, SeenIsOlder, Undelivered, NoJob, SenderOrderKept, Seen
<1>2. MsgBase /\ Unseen /\ SeenIsOlder /\ [MsgNext]_vars => SeenIsOlder'
  BY SeenIsOlderStep
<1>3. MsgBase /\ Unseen /\ SeenIsOlder /\ SenderOrderKept /\ [MsgNext]_vars => SenderOrderKept'
  BY SenderOrderStep
<1> QED
  BY <1>1, <1>2, <1>3, BaseInit, BaseStep, UnseenStep, PTL DEF MsgSpec

-----------------------------------------------------------------------------
(* The replies to history requests.                                        *)

InChat(c, m) ==
  \/ m.to = Everyone /\ job[c].to = Everyone
  \/ m.to # Everyone /\ {m.author, m.to} = {Sender(c), job[c].to}

(* A handler that works on a history request still has what it had been    *)
(* sent when it was asked; and what it copied covers that.                 *)
RequestKept ==
  \A c \in Conn :
    /\ job[c].at \in {"read", "copy", "reply"} => job[c].asked <= Len(outbox[c])
    /\ job[c].at = "reply" /\ job[c].list # Torn =>
         \A i \in Seen(c) :
           i <= job[c].asked /\ InChat(c, outbox[c][i]) => outbox[c][i] \in ToSet(job[c].list)

LEMMA RepliedWhole ==
  ASSUME NEW list \in Seq(Message), Len(Replied(list)) < HistoryCap
  PROVE  Replied(list) = list
<1> USE MessagingAssumption
<1>1. CASE Len(list) > HistoryCap
  <2>1. Len(SubSeq(list, 1, HistoryCap)) = HistoryCap
    BY <1>1
  <2> QED
    BY <1>1, <2>1 DEF Replied
<1>2. CASE ~(Len(list) > HistoryCap)
  <2>1. SubSeq(list, 1, Len(list)) = list
    OBVIOUS
  <2> QED
    BY <1>2, <2>1 DEF Replied
<1> QED
  BY <1>1, <1>2

(* Two messages are in one chat when they are in one history. *)
LEMMA ChatHistory ==
  ASSUME MsgBase, NEW c \in Conn, job[c].at \in {"read", "copy"},
         NEW m \in Message, InChat(c, m)
  PROVE  HistoryOf(m.author, m.to) = HistoryOf(job[c].author, job[c].to)
<1>1. job[c] \in Job /\ job[c].author = Sender(c)
  BY DEF MsgBase, MessagingTypeOK, Authors
<1>2. job[c].author \in Name /\ m.author \in Name /\ Everyone \notin Name
  BY <1>1, SenderType, MessagingAssumption DEF Message, Name
<1>3. CASE m.to = Everyone /\ job[c].to = Everyone
  BY <1>3 DEF HistoryOf
<1>4. CASE m.to # Everyone /\ {m.author, m.to} = {job[c].author, job[c].to}
  <2>1. job[c].to # Everyone
    BY <1>2, <1>4
  <2> QED
    BY <1>4, <2>1 DEF HistoryOf
<1> QED
  BY <1>1, <1>3, <1>4 DEF InChat

LEMMA AskedStep == MsgBase /\ RequestKept /\ DeliveredIsStored /\ [MsgNext]_vars => RequestKept'
<1> SUFFICES ASSUME MsgBase, RequestKept, DeliveredIsStored, [MsgNext]_vars, NEW d \in Conn,
                    job'[d].at \in {"read", "copy", "reply"}
             PROVE  /\ job'[d].asked <= Len(outbox'[d])
                    /\ job'[d].at = "reply" /\ job'[d].list # Torn =>
                         \A i \in Seen(d)' :
                           i <= job'[d].asked /\ InChat(d, outbox[d][i])'
                             => outbox'[d][i] \in ToSet(job'[d].list)
  BY DEF RequestKept
<1>0. MessagingTypeOK /\ MessagingTypeOK'
  BY MessagingTypeStep DEF MsgBase
<1>1. job[d] \in Job /\ job'[d] \in Job
  BY <1>0 DEF MessagingTypeOK
<1>2. /\ outbox[d] \in Seq(Message \cup {Error4}) /\ outbox'[d] \in Seq(Message \cup {Error4})
      /\ Len(outbox[d]) \in Nat /\ Len(outbox'[d]) \in Nat
  <2>1. /\ outbox[d] \in Seq(Message \cup {Error4})
        /\ outbox'[d] \in Seq(Message \cup {Error4})
    BY <1>0 DEF MessagingTypeOK
  <2> QED
    BY <2>1
<1>3. job'[d].asked \in Nat
  BY <1>1, JobFields
<1>4. ~Ready(d) => BoxGrows(d) /\ Sender(d)' = Sender(d)
  BY BoxStep, OwnersStep DEF OwnersKept
<1> DEFINE Goal == /\ job'[d].asked <= Len(outbox'[d])
                   /\ job'[d].at = "reply" /\ job'[d].list # Torn =>
                        \A i \in Seen(d)' :
                          i <= job'[d].asked /\ InChat(d, outbox[d][i])'
                            => outbox'[d][i] \in ToSet(job'[d].list)
<1>5. ASSUME NEW to \in User \cup {Everyone}, OnChatMessage(d, to) PROVE FALSE
  BY <1>0, <1>5, BeginningJob
<1>6. ASSUME NEW to \in User \cup {Everyone}, OnGetHistory(d, to) PROVE Goal
  <2>1. job'[d] = [at |-> "read", author |-> Sender(d), to |-> to, asked |-> Len(outbox[d])]
    BY <1>0, <1>6, BeginningJob
  <2>2. outbox' = outbox
    BY <1>6 DEF OnGetHistory
  <2> QED
    BY <1>2, <2>1, <2>2
<1>7. CASE HandlerStep(d)
  <2>1. /\ ~Ready(d) /\ job'[d].at \in {"copy", "reply"}
        /\ job[d].at \in {"read", "copy"}
        /\ job'[d].asked = job[d].asked /\ job'[d].to = job[d].to
    BY <1>0, <1>7, HandlerJob
  <2>2. job'[d].asked <= Len(outbox'[d])
    BY <1>2, <1>3, <1>4, <2>1 DEF RequestKept, BoxGrows
  <2>3. ASSUME job'[d].at = "reply", job'[d].list # Torn, NEW i \in Seen(d)',
               InChat(d, outbox[d][i])'
        PROVE  outbox'[d][i] \in ToSet(job'[d].list)
    <3>1. job'[d].list = HistoryOf(job[d].author, job[d].to) /\ outbox' = outbox
      BY <1>0, <1>7, <2>3, HandlerJob
    <3>2. i \in Seen(d) /\ InChat(d, outbox[d][i])
      BY <1>4, <2>1, <2>3, <3>1 DEF Seen, InChat
    <3>3. outbox[d][i] \in Message
      BY <1>0, <3>2, MessageSeen
    <3>4. outbox[d][i] \in ToSet(HistoryOf(outbox[d][i].author, outbox[d][i].to))
      BY <3>2 DEF DeliveredIsStored
    <3>5. HistoryOf(outbox[d][i].author, outbox[d][i].to) = HistoryOf(job[d].author, job[d].to)
      BY <2>1, <3>2, <3>3, ChatHistory
    <3> QED
      BY <3>1, <3>4, <3>5
  <2> QED
    BY <2>2, <2>3
<1>8. ASSUME ~Ready(d), job'[d].at = job[d].at, job'[d].asked = job[d].asked,
             job[d].at = "reply" => job'[d] = job[d]
      PROVE  Goal
  <2>1. job[d].asked <= Len(outbox[d])
    BY <1>8 DEF RequestKept
  <2>2. job'[d].asked <= Len(outbox'[d])
    BY <1>2, <1>3, <1>4, <1>8, <2>1 DEF BoxGrows
  <2>3. ASSUME job'[d].at = "reply", job'[d].list # Torn, NEW i \in Seen(d)',
               i <= job'[d].asked, InChat(d, outbox[d][i])'
        PROVE  outbox'[d][i] \in ToSet(job'[d].list)
    <3>1. job'[d] = job[d]
      BY <1>8, <2>3
    <3>2. i \in 1 .. Len(outbox[d])
      <4>1. i \in 1 .. Len(outbox'[d])
        BY <1>2 DEF Seen
      <4> QED
        BY <1>2, <1>3, <1>8, <2>1, <2>3, <4>1
    <3>3. outbox'[d][i] = outbox[d][i]
      BY <1>4, <1>8, <3>2 DEF BoxGrows
    <3>4. i \in Seen(d)
      BY <1>2, <3>2, <3>3 DEF Seen
    <3>5. InChat(d, outbox[d][i])
      BY <1>4, <1>8, <2>3, <3>1, <3>3 DEF InChat
    <3> QED
      BY <2>3, <3>1, <3>3, <3>4, <3>5 DEF RequestKept
  <2> QED
    BY <2>2, <2>3
<1>9. ASSUME NEW c \in Conn \ {d}, OthersKept(c) PROVE Goal
  <2>1. /\ job'[d].at = job[d].at
        /\ job[d].at # "copy" => job'[d] = job[d]
        /\ job[d].at = "copy" => job'[d].asked = job[d].asked
    BY <1>0, <1>9, OthersSame
  <2>2. ~Ready(d)
    BY <2>1 DEF Ready
  <2> QED
    BY <1>8, <2>1, <2>2
<1>10. CASE UNCHANGED job
  BY <1>8, <1>10 DEF Ready
<1> QED
  BY <1>5, <1>6, <1>7, <1>9, <1>10, JobStep

(* A client that asks for a history gets all it had been sent of the chat, *)
(* whatever was stored or delivered while it was copied.                   *)
THEOREM HistoryCorrect == MsgSpec => []HistoryCoversSeen
<1>1. MsgInit => TasksStored /\ DeliveredIsStored /\ RequestKept
  BY DEF MsgInit, TasksStored, DeliveredIsStored, RequestKept, NoJob, Seen
<1>2. MsgBase /\ RequestKept => HistoryCoversSeen
  <2> SUFFICES ASSUME MsgBase, RequestKept, NEW c \in Conn,
                      job[c].at = "reply", job[c].list # Torn,
                      Len(Replied(job[c].list)) < HistoryCap,
                      NEW i \in Seen(c), i <= job[c].asked, InChat(c, outbox[c][i])
               PROVE  outbox[c][i] \in ToSet(Replied(job[c].list))
    BY DEF HistoryCoversSeen, InChat
  <2>1. job[c] \in Job
    BY DEF MsgBase, MessagingTypeOK
  <2>2. job[c].list \in Seq(Message)
    BY <2>1, JobFields
  <2>3. Replied(job[c].list) = job[c].list
    BY <2>2, RepliedWhole
  <2> QED
    BY <2>3 DEF RequestKept
<1> QED
  BY <1>1, <1>2, BaseInit, BaseStep, TasksStoredStep, StoredSeenStep, AskedStep, PTL
  DEF MsgSpec
=============================================================================
