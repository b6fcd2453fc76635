------------------------------ MODULE Messaging ------------------------------
(***************************************************************************)
(* Chat messages and their history: the opcodes 4 and 5 of on_message in   *)
(* src/websocket_handler.cpp, the std::async task that delivers a message, *)
(* and the two histories, on top of the registry they look names up in.    *)
(*                                                                         *)
(* A connection that handles a chat message or a history request is at one *)
(* of the places below (its job); everything else the server does, i.e.    *)
(* the handlers and threads of Presence, appears as the registry steps     *)
(* they were shown to implement.                                           *)
(***************************************************************************)
EXTENDS Registry, Sequences, SequencesExt

CONSTANTS
  Everyone,     \* GENERAL_CHAT, "~"
  Error4,       \* the error frame "recipient disconnected"
  Torn,         \* a copy of a vector that another thread was changing
  HistoryCap,   \* messages in one history reply (255 in the code)
  MaxMessages,  \* bound on the chat messages of a behaviour
  Request       \* the requests clients send, out of AnyRequest below

AnyRequest ==
  [op : {"chat", "history"}, to : User \cup {Everyone}] \cup [op : {"status"}, status : Status]

ASSUME MessagingAssumption ==
  /\ HistoryCap \in Nat \ {0}
  /\ MaxMessages \in Nat
  /\ Everyone \notin User \cup {Desconocido}
  /\ Request \subseteq AnyRequest

VARIABLES
  job,                   \* Conn -> what its handler is doing
  tasks,                 \* the delivery threads that have not finished
  general_chat_history,
  chat_history,          \* the pair of names -> the messages between them
  sent,                  \* chat messages received so far; also names them
  outbox                 \* Conn -> the frames 50, 55 posted in this session

msgvars == <<job, tasks, general_chat_history, chat_history, sent, outbox>>
vars == <<regvars, msgvars>>

Name == User \cup {Desconocido}

(* A 55 frame or history element is the author and the text; `to` is kept  *)
(* with it to state properties.  No two texts are the same.                *)
Message == [author : Name, text : 1 .. MaxMessages, to : User \cup {Everyone}]

Chat == {{a, u} : a \in Name, u \in User}

NoJob == [at |-> "idle"]

Job ==
  {NoJob}
    \cup [at : {"reactivate", "store", "wait"}, msg : Message]
    \cup [at : {"read"}, author : Name, to : User \cup {Everyone}, asked : Nat]
    \cup [at : {"copy"}, author : Name, to : User, asked : Nat, torn : BOOLEAN]
    \cup [at : {"reply"}, to : User \cup {Everyone}, asked : Nat, list : Seq(Message) \cup {Torn}]

MsgInit ==
  /\ RegInit
  /\ job = [c \in Conn |-> NoJob]
  /\ tasks = {}
  /\ general_chat_history = <<>>
  /\ chat_history = [p \in Chat |-> <<>>]
  /\ sent = 0
  /\ outbox = [c \in Conn |-> <<>>]

Ready(c) == job[c].at = "idle"

Goes(c, j) == job' = [job EXCEPT ![c] = j]

HistoryOf(a, to) == IF to = Everyone THEN general_chat_history ELSE chat_history[{a, to}]

-----------------------------------------------------------------------------
(* Opcode 4: handle_send_message, send_broadcast, send_private_message *)

(* The first block of on_message; an INACTIVO sender is reactivated next. *)
OnChatMessage(c, to) ==
  /\ Ready(c)
  /\ [op |-> "chat", to |-> to] \in Request
  /\ sent < MaxMessages
  /\ Touch(c)
  /\ sent' = sent + 1
  /\ Goes(c, [at  |-> IF \E u \in Owned(c) : connections[u].status = "INACTIVO"
                        THEN "reactivate" ELSE "store",
              msg |-> [author |-> Sender(c), text |-> sent + 1, to |-> to]])
  /\ UNCHANGED <<tasks, general_chat_history, chat_history, outbox>>

(* The locked block of update_status(sender, ACTIVO). *)
RunReactivation(c) ==
  /\ job[c].at = "reactivate"
  /\ SetStatus(job[c].msg.author, "ACTIVO")
  /\ Goes(c, [job[c] EXCEPT !.at = "store"])
  /\ UNCHANGED <<last_user_status, phase, tasks, general_chat_history, chat_history, sent, outbox>>

CanReceive(u) == Connected(u) /\ connections[u].status # "DISCONNECTED"

LaunchDetached(c) ==  \* mutant: does not wait for the task
  /\ tasks' = tasks \cup {[by |-> c, msg |-> job[c].msg]}
  /\ Goes(c, NoJob)

(* std::async, and the wait for it.  It throws if no thread can be started;*)
(* on_message only logs that.                                              *)
Launched(c) ==
  {[tasks |-> tasks \cup {[by |-> c, msg |-> job[c].msg]},
    next |-> [job[c] EXCEPT !.at = "wait"]],
   [tasks |-> tasks, next |-> NoJob]}

Launch(c) ==
  \E l \in Launched(c) : tasks' = l.tasks /\ Goes(c, l.next)

(* push_back on a private chat while another thread copies one unlocked. *)
LaunchTearing(c) ==
  \E l \in Launched(c) :
    /\ tasks' = l.tasks
    /\ job' = [d \in Conn |->
         IF d = c THEN l.next
         ELSE IF job[d].at = "copy" THEN [job[d] EXCEPT !.torn = TRUE]
         ELSE job[d]]

StoreUnstored(c) ==  \* mutant: send_broadcast forgets the history
  /\ job[c].at = "store"
  /\ job[c].msg.to = Everyone
  /\ Launch(c)
  /\ UNCHANGED <<regvars, general_chat_history, chat_history, sent, outbox>>

StoreAndEcho(c) ==  \* mutant: shows the sender its own message at once
  /\ job[c].at = "store"
  /\ job[c].msg.to = Everyone
  /\ general_chat_history' = Append(general_chat_history, job[c].msg)
  /\ outbox' = [outbox EXCEPT ![c] = Append(@, job[c].msg)]
  /\ Launch(c)
  /\ UNCHANGED <<regvars, chat_history, sent>>

(* send_broadcast. *)
StoreBroadcast(c) ==
  /\ job[c].at = "store"
  /\ job[c].msg.to = Everyone
  /\ general_chat_history' = Append(general_chat_history, job[c].msg)
  /\ Launch(c)
  /\ UNCHANGED <<regvars, chat_history, sent, outbox>>

(* send_private_message to somebody who can receive. *)
StorePrivate(c) ==
  /\ job[c].at = "store"
  /\ LET m == job[c].msg
     IN  /\ m.to # Everyone
         /\ CanReceive(m.to)
         /\ chat_history' = [chat_history EXCEPT ![{m.author, m.to}] = Append(@, m)]
  /\ LaunchTearing(c)
  /\ UNCHANGED <<regvars, general_chat_history, sent, outbox>>

(* ... and to somebody who cannot: error 4, if the sender has an entry. *)
RefusePrivate(c) ==
  /\ job[c].at = "store"
  /\ LET m == job[c].msg
     IN  /\ m.to # Everyone
         /\ ~CanReceive(m.to)
         /\ outbox' = [d \in Conn |-> IF m.author \in User /\ Owns(d, m.author)
                                        THEN Append(outbox[d], Error4) ELSE outbox[d]]
  /\ Goes(c, NoJob)
  /\ UNCHANGED <<regvars, tasks, general_chat_history, chat_history, sent>>

(* How many copies of the frame the task posts to the connection: one if   *)
(* its owner is a recipient; a private message goes to the author and to   *)
(* the recipient, which makes two when they are the same.                  *)
CopiesToAll(c, m) ==  \* mutant: forgets is_private
  IF Owned(c) = {} THEN 0 ELSE 1

Copies(c, m) ==
  IF m.to = Everyone
    THEN IF Owned(c) = {} THEN 0 ELSE 1
    ELSE (IF m.author \in Owned(c) THEN 1 ELSE 0) + (IF m.to \in Owned(c) THEN 1 ELSE 0)

(* The body of the task, under connections_mutex. *)
Deliver(t) ==
  /\ t \in tasks
  /\ tasks' = tasks \ {t}
  /\ outbox' = [c \in Conn |-> outbox[c] \o [i \in 1 .. Copies(c, t.msg) |-> t.msg]]
  /\ UNCHANGED <<regvars, job, general_chat_history, chat_history, sent>>

(* send_task.wait() returns. *)
Resume(c) ==
  /\ job[c].at = "wait"
  /\ \A t \in tasks : t.by # c
  /\ Goes(c, NoJob)
  /\ UNCHANGED <<regvars, tasks, general_chat_history, chat_history, sent, outbox>>

-----------------------------------------------------------------------------
(* Opcode 5: handle_get_history *)

OnGetHistory(c, to) ==
  /\ Ready(c)
  /\ [op |-> "history", to |-> to] \in Request
  /\ Touch(c)
  /\ Goes(c, [at |-> "read", author |-> Sender(c), to |-> to, asked |-> Len(outbox[c])])
  /\ UNCHANGED <<tasks, general_chat_history, chat_history, sent, outbox>>

(* The general history is copied under connections_mutex. *)
CopyGeneral(c) ==
  /\ job[c].at = "read"
  /\ job[c].to = Everyone
  /\ Goes(c, [at |-> "reply", to |-> Everyone, asked |-> job[c].asked,
              list |-> general_chat_history])
  /\ UNCHANGED <<regvars, tasks, general_chat_history, chat_history, sent, outbox>>

(* A private history is looked up and copied without a lock. *)
CopyPrivate(c) ==
  /\ job[c].at = "read"
  /\ job[c].to # Everyone
  /\ Goes(c, [at |-> "copy", author |-> job[c].author, to |-> job[c].to,
              asked |-> job[c].asked, torn |-> FALSE])
  /\ UNCHANGED <<regvars, tasks, general_chat_history, chat_history, sent, outbox>>

CopyDone(c) ==
  /\ job[c].at = "copy"
  /\ \E list \in {HistoryOf(job[c].author, job[c].to)} \cup (IF job[c].torn THEN {Torn} ELSE {}) :
       Goes(c, [at |-> "reply", to |-> job[c].to, asked |-> job[c].asked, list |-> list])
  /\ UNCHANGED <<regvars, tasks, general_chat_history, chat_history, sent, outbox>>

(* Building and posting the reply, which is done outside the lock. *)
PostHistory(c) ==
  /\ job[c].at = "reply"
  /\ Goes(c, NoJob)
  /\ UNCHANGED <<regvars, tasks, general_chat_history, chat_history, sent, outbox>>

RepliedButLast(list) ==  \* mutant: the loop stops one short
  SubSeq(list, 1, IF Len(list) > HistoryCap THEN HistoryCap ELSE Len(list) - 1)

(* The messages of a reply: the first HistoryCap of the chat. *)
Replied(list) == SubSeq(list, 1, IF Len(list) > HistoryCap THEN HistoryCap ELSE Len(list))

-----------------------------------------------------------------------------
(* The rest of the server.  A connection runs one handler at a time. *)

OnClose(c) ==
  /\ Ready(c)
  /\ Close(c)
  /\ outbox' = [outbox EXCEPT ![c] = <<>>]
  /\ UNCHANGED <<job, tasks, general_chat_history, chat_history, sent>>

OtherHandler(c) ==
  /\ Ready(c)
  /\ \/ \E u \in User \cup {BadName} : Reject(c, u)
     \/ \E u \in User : Join(c, u)
     \/ Touch(c)
     \/ \E s \in Status : [op |-> "status", status |-> s] \in Request /\ UpdateStatus(c, s)
     \/ Destroy(c)
  /\ UNCHANGED msgvars

Background ==
  /\ MarkInactive \/ Cleanup \/ \E u \in User : Minute(u)
  /\ UNCHANGED msgvars

HandlerStep(c) ==
  \/ RunReactivation(c)
  \/ StoreBroadcast(c)
  \/ StorePrivate(c)
  \/ RefusePrivate(c)
  \/ Resume(c)
  \/ CopyGeneral(c)
  \/ CopyPrivate(c)
  \/ CopyDone(c)
  \/ PostHistory(c)

MsgNext ==
  \/ \E c \in Conn, to \in User \cup {Everyone} : OnChatMessage(c, to)
  \/ \E c \in Conn, to \in User \cup {Everyone} : OnGetHistory(c, to)
  \/ \E c \in Conn : HandlerStep(c)
  \/ \E t \in tasks : Deliver(t)
  \/ \E c \in Conn : OnClose(c)
  \/ \E c \in Conn : OtherHandler(c)
  \/ Background

MsgSpec == MsgInit /\ [][MsgNext]_vars

-----------------------------------------------------------------------------
(* The variables hold what the code can put there, and a handler waits for *)
(* exactly the task it launched.                                           *)
MessagingTypeOK ==
  /\ job \in [Conn -> Job]
  /\ tasks \subseteq [by : Conn, msg : Message]
  /\ general_chat_history \in Seq(Message)
  /\ chat_history \in [Chat -> Seq(Message)]
  /\ sent \in 0 .. MaxMessages
  /\ outbox \in [Conn -> Seq(Message \cup {Error4})]
  /\ \A t \in tasks : job[t.by] = [at |-> "wait", msg |-> t.msg]

(* Where the chat messages are in what was posted to a connection in its   *)
(* session.                                                                *)
Seen(c) == {i \in DOMAIN outbox[c] : outbox[c][i] # Error4}

(* Two clients never see the same two messages in opposite orders, though  *)
(* every message is delivered by a thread of its own.                      *)
SameOrderForAll ==
  \A c, d \in Conn :
    \A i, j \in Seen(c), k, l \in Seen(d) :
      i < j /\ k < l /\ outbox[c][i] = outbox[d][l] /\ outbox[c][j] = outbox[d][k]
        => outbox[c][i] = outbox[c][j]

(* A client sees the messages of a user in the order the user sent them,   *)
(* over all the user's sessions, and each once (a message to oneself       *)
(* twice).  Under the name Desconocido several connections may send.       *)
SenderOrderKept ==
  \A c \in Conn : \A i, j \in Seen(c) :
    LET m == outbox[c][i]
        n == outbox[c][j]
    IN  i < j /\ m.author = n.author /\ m.author \in User \ {Desconocido}
          => m.text < n.text \/ (m = n /\ m.author = m.to)

(* A private message is only ever posted to a connection of its author or  *)
(* its recipient, although names are looked up again, blocks after the     *)
(* message was accepted, and may have moved to other connections.          *)
PrivateToParties ==
  \A c \in Conn : \A i \in Seen(c) :
    LET m == outbox[c][i]
    IN  m.to # Everyone => Owned(c) \cap {m.author, m.to} # {}

(* Nobody sees a message that is not in the history of its chat. *)
DeliveredIsStored ==
  \A c \in Conn : \A i \in Seen(c) :
    LET m == outbox[c][i] IN m \in ToSet(HistoryOf(m.author, m.to))

(* A client that asks for the history of a chat gets every message of the  *)
(* chat it had been sent before it asked, unless the reply is full (or the *)
(* copy was torn).                                                         *)
HistoryCoversSeen ==
  \A c \in Conn :
    job[c].at = "reply" /\ job[c].list # Torn /\ Len(Replied(job[c].list)) < HistoryCap =>
      \A i \in Seen(c) :
        LET m == outbox[c][i]
        IN  /\ i <= job[c].asked
            /\ \/ m.to = Everyone /\ job[c].to = Everyone
               \/ m.to # Everyone /\ {m.author, m.to} = {Sender(c), job[c].to}
            => m \in ToSet(Replied(job[c].list))

-----------------------------------------------------------------------------
(* What the documents say and the code does not do.                        *)

(* docs/api_reference.md:42: frame 56 returns the history of a chat.  The  *)
(* history of a private chat is copied without connections_mutex.          *)
HistoryIntact == \A c \in Conn : job[c].at = "reply" => job[c].list # Torn

=============================================================================
