------------------------------ MODULE Presence ------------------------------
(***************************************************************************)
(* Who is connected with which status, and what the clients are told about *)
(* it: on_open, on_close, the opcodes 1 to 3 of on_message, update_status, *)
(* the notifications 53 and 54, and the two background threads of          *)
(* src/websocket_handler.cpp.                                              *)
(*                                                                         *)
(* A handler holds connections_mutex only inside its blocks, and other     *)
(* threads run between them.  So a handler is its first block (the actions *)
(* OnOpen, OnMessage and OnClose) followed by the steps it leaves in       *)
(* `todo`, each a later block of the same call.  Crow runs the callbacks   *)
(* of one connection on one io thread: a connection has one handler at a   *)
(* time, and different connections interleave freely.                      *)
(***************************************************************************)
EXTENDS Registry, Sequences

CONSTANT Request   \* the requests clients send, out of AnyRequest below

VARIABLES
  todo,             \* Conn -> the blocks its running handler still has to run
  running,          \* the monitor threads, named by the connection whose
                    \* on_open started them
  marked,           \* thread -> its local users_to_notify
  monitor_started,  \* the static flag of on_open
  told              \* open connection -> name -> the last status its client
                    \* was sent for that name, or Absent

threadvars == <<todo, marked, running, monitor_started>>
vars == <<regvars, threadvars, told>>

-----------------------------------------------------------------------------
(* The steps of a handler after its first locked block. *)

NotifyJoined(u, s) == [op |-> "joined", user |-> u, status |-> s]
NotifyStatus(u, s) == [op |-> "status", user |-> u, status |-> s]
Reactivate(u)      == [op |-> "reactivate", user |-> u, status |-> "ACTIVO"]
Change(u, s)       == [op |-> "change", user |-> u, status |-> s]
CheckMonitors      == [op |-> "check"]
StartMonitors      == [op |-> "start"]
ReplyList          == [op |-> "list"]
ReplyInfo(u)       == [op |-> "info", user |-> u]

Name == User \cup {Desconocido}

Step ==
  [op : {"joined", "status", "reactivate", "change"}, user : Name, status : Status]
    \cup {CheckMonitors, StartMonitors, ReplyList} \cup {ReplyInfo(u) : u \in User}

(* What clients may ask for, as far as presence is concerned.  "message"   *)
(* is any frame with opcode 4, well formed or not; "other" is opcode 5, an *)
(* unknown opcode, or a frame of the opcodes 2 and 3 that does not parse.  *)
InvalidStatus == "invalid"
AnyRequest ==
  {ReplyList} \cup {ReplyInfo(u) : u \in User}
    \cup [op : {"change"}, user : Name, status : Status \cup {InvalidStatus}]
    \cup {[op |-> "message"], [op |-> "other"]}

ASSUME RequestAssumption == Request \subseteq AnyRequest

NobodyTold == [u \in User |-> Absent]

Init ==
  /\ RegInit
  /\ todo = [c \in Conn |-> <<>>]
  /\ marked = [m \in Conn |-> {}]
  /\ running = {}
  /\ monitor_started = FALSE
  /\ told = [c \in Conn |-> NobodyTold]

(* Connection c is between two callbacks / about to run a step of kind op. *)
Ready(c) == todo[c] = <<>>
At(c, op) == ~Ready(c) /\ Head(todo[c]).op = op

Then(c, steps) == todo' = [todo EXCEPT ![c] = steps]
Continue(c) == Then(c, Tail(todo[c]))

-----------------------------------------------------------------------------
(* on_open *)

OnOpen(c, u) ==
  /\ Ready(c)
  /\ \/ Reject(c, u) /\ UNCHANGED todo
     \/ /\ u \in User
        /\ Join(c, u)
        /\ Then(c, <<CheckMonitors, NotifyJoined(u, JoinStatus(u))>>)
  /\ UNCHANGED <<marked, running, monitor_started, told>>

(* The unsynchronised test of monitor_started: between it and StartThreads *)
(* another connection's on_open may see FALSE as well.                     *)
TestMonitorStarted(c) ==
  /\ At(c, "check")
  /\ IF monitor_started THEN Continue(c)
                        ELSE Then(c, <<StartMonitors>> \o Tail(todo[c]))
  /\ UNCHANGED <<regvars, marked, running, monitor_started, told>>

StartNoThread(c) ==  \* mutant: sets the flag and starts nothing
  /\ At(c, "start")
  /\ monitor_started' = TRUE
  /\ Continue(c)
  /\ UNCHANGED <<regvars, marked, running, told>>

(* start_inactivity_monitor, start_disconnection_cleanup and the flag. *)
StartThreads(c) ==
  /\ At(c, "start")
  /\ running' = running \cup {c}
  /\ monitor_started' = TRUE
  /\ Continue(c)
  /\ UNCHANGED <<regvars, marked, told>>

-----------------------------------------------------------------------------
(* Notifications.  Frames to one client are posted under the lock and sent *)
(* in that order, so the last one posted is the last one it sees.          *)

Listeners(names) == {connections[v].conn : v \in {w \in names : Connected(w)}}

Tell(listeners, u, s) ==
  told' = [c \in Conn |-> IF c \in listeners THEN [told[c] EXCEPT ![u] = s]
                                             ELSE told[c]]

SendJoinedActive(c) ==  \* mutant: announces every newcomer as ACTIVO
  /\ At(c, "joined")
  /\ LET n == Head(todo[c]) IN Tell(Listeners(User \ {n.user}), n.user, "ACTIVO")
  /\ Continue(c)
  /\ UNCHANGED <<regvars, marked, running, monitor_started>>

(* notify_user_joined: everybody but the user itself. *)
SendJoined(c) ==
  /\ At(c, "joined")
  /\ LET n == Head(todo[c]) IN Tell(Listeners(User \ {n.user}), n.user, n.status)
  /\ Continue(c)
  /\ UNCHANGED <<regvars, marked, running, monitor_started>>

(* notify_user_status_change, at the end of update_status or on_close. *)
SendStatus(c) ==
  /\ At(c, "status")
  /\ LET n == Head(todo[c]) IN Tell(Listeners(User), n.user, n.status)
  /\ Continue(c)
  /\ UNCHANGED <<regvars, marked, running, monitor_started>>

-----------------------------------------------------------------------------
(* on_message *)

(* A chat message from an INACTIVO user reactivates it, before the frame   *)
(* is parsed and whatever becomes of it.                                   *)
ReactivationAlways(c, r) ==  \* mutant: any status is set to ACTIVO
  IF r.op = "message" /\ Owned(c) # {} THEN <<Reactivate(Sender(c))>> ELSE <<>>

Reactivation(c, r) ==
  IF /\ r.op = "message"
     /\ \E u \in Owned(c) : connections[u].status = "INACTIVO"
    THEN <<Reactivate(Sender(c))>>
    ELSE <<>>

WorkForAnyName(c, r) ==  \* mutant: does not compare the name with the sender
  IF r.op = "change" /\ r.status # InvalidStatus
    THEN <<Change(r.user, r.status)>>
    ELSE IF r.op \in {"list", "info"} THEN <<r>> ELSE <<>>

WorkAnyStatus(c, r) ==  \* mutant: no default case for the status byte
  CASE r.op = "change" /\ r.user = Sender(c) -> <<Change(r.user, r.status)>>
    [] r.op \in {"list", "info"} -> <<r>>
    [] OTHER -> <<>>

(* handle_change_status refuses (error 2) other users' names and invalid   *)
(* status bytes; the other handlers here have one block, kept as it is.    *)
Work(c, r) ==
  CASE r.op = "change" /\ r.user = Sender(c) /\ r.status # InvalidStatus
         -> <<Change(r.user, r.status)>>
    [] r.op \in {"list", "info"} -> <<r>>
    [] OTHER -> <<>>

OnMessage(c, r) ==
  /\ Ready(c)
  /\ Touch(c)
  /\ Then(c, Reactivation(c, r) \o Work(c, r))
  /\ UNCHANGED <<marked, running, monitor_started, told>>

RunUpdateSilently(c) ==  \* mutant: forgets the notification
  /\ At(c, "reactivate") \/ At(c, "change")
  /\ SetStatus(Head(todo[c]).user, Head(todo[c]).status)
  /\ Continue(c)
  /\ UNCHANGED <<last_user_status, phase, marked, running, monitor_started, told>>

(* update_status: the locked block; then notify if the name has an entry.  *)
RunUpdate(c) ==
  /\ At(c, "reactivate") \/ At(c, "change")
  /\ LET n == Head(todo[c])
     IN  /\ SetStatus(n.user, n.status)
         /\ IF n.user \in User /\ Registered(n.user)
              THEN Then(c, <<NotifyStatus(n.user, n.status)>> \o Tail(todo[c]))
              ELSE Continue(c)
  /\ UNCHANGED <<last_user_status, phase, marked, running, monitor_started, told>>

(* handle_list_users and handle_get_user_info read under the lock and post *)
(* their reply there.  A reply matters here only to an open session.       *)
SendReply(c) ==
  /\ At(c, "list") \/ At(c, "info")
  /\ LET r == Head(todo[c])
         shown == {u \in User : Registered(u) /\ (r.op = "list" \/ r.user = u)}
     IN  told' = [told EXCEPT ![c] = [u \in User |->
           IF phase[c] = "open" /\ u \in shown THEN connections[u].status
                                               ELSE @[u]]]
  /\ Continue(c)
  /\ UNCHANGED <<regvars, marked, running, monitor_started>>

-----------------------------------------------------------------------------
(* on_close and deletion *)

OnCloseConcurrent(c) ==  \* mutant: may run while the connection has a handler
  /\ Close(c)
  /\ Then(c, IF Owned(c) = {} THEN todo[c]
             ELSE todo[c] \o <<NotifyStatus(Sender(c), "DISCONNECTED")>>)
  /\ told' = [told EXCEPT ![c] = NobodyTold]
  /\ UNCHANGED <<marked, running, monitor_started>>

OnClose(c) ==
  /\ Ready(c)
  /\ Close(c)
  /\ Then(c, IF Owned(c) = {} THEN <<>>
             ELSE <<NotifyStatus(Sender(c), "DISCONNECTED")>>)
  /\ told' = [told EXCEPT ![c] = NobodyTold]
  /\ UNCHANGED <<marked, running, monitor_started>>

Delete(c) ==
  /\ Ready(c)
  /\ Destroy(c)
  /\ UNCHANGED <<threadvars, told>>

-----------------------------------------------------------------------------
(* The background threads *)

(* One pass of a monitor; users_to_notify is what it marked.  It makes the *)
(* next pass only after it has notified for all of them.                   *)
MonitorPass(m) ==
  /\ m \in running
  /\ marked[m] = {}
  /\ MarkInactive
  /\ marked' = [marked EXCEPT ![m] = {u \in User : Idle(u)}]
  /\ UNCHANGED <<todo, running, monitor_started, told>>

MonitorNotify(m, u) ==
  /\ u \in marked[m]
  /\ Tell(Listeners(User), u, "INACTIVO")
  /\ marked' = [marked EXCEPT ![m] = @ \ {u}]
  /\ UNCHANGED <<regvars, todo, running, monitor_started>>

(* A cleanup thread is started together with every monitor. *)
CleanupPass ==
  /\ running # {}
  /\ Cleanup
  /\ UNCHANGED <<threadvars, told>>

MinutePasses(u) ==
  /\ Minute(u)
  /\ UNCHANGED <<threadvars, told>>

-----------------------------------------------------------------------------
(* A step of the handler that is running on connection c. *)
HandlerStep(c) ==
  \/ TestMonitorStarted(c)
  \/ StartThreads(c)
  \/ SendJoined(c)
  \/ SendStatus(c)
  \/ RunUpdate(c)
  \/ SendReply(c)

Next ==
  \/ \E c \in Conn, u \in User \cup {BadName} : OnOpen(c, u)
  \/ \E c \in Conn, r \in Request : OnMessage(c, r)
  \/ \E c \in Conn : HandlerStep(c)
  \/ \E c \in Conn : OnClose(c)
  \/ \E c \in Conn : Delete(c)
  \/ \E m \in Conn : MonitorPass(m)
  \/ \E m \in Conn, u \in User : MonitorNotify(m, u)
  \/ CleanupPass
  \/ \E u \in User : MinutePasses(u)

Spec == Init /\ [][Next]_vars

(* A handler that has started finishes, the background threads keep making *)
(* passes, and time passes.  Clients owe the server nothing.               *)
Fairness ==
  /\ \A c \in Conn : WF_vars(HandlerStep(c))
  /\ \A m \in Conn : WF_vars(MonitorPass(m))
  /\ \A m \in Conn : WF_vars(\E u \in User : MonitorNotify(m, u))
  /\ WF_vars(CleanupPass)
  /\ \A u \in User : WF_vars(MinutePasses(u))

FairSpec == Spec /\ Fairness

-----------------------------------------------------------------------------
(* The local variables hold what the code can put there, and only a thread *)
(* that runs has users left to notify.                                     *)
PresenceTypeOK ==
  /\ todo \in [Conn -> Seq(Step)]
  /\ running \subseteq Conn
  /\ marked \in [Conn -> SUBSET User]
  /\ \A m \in Conn \ running : marked[m] = {}
  /\ monitor_started \in BOOLEAN
  /\ told \in [Conn -> [User -> Status \cup {Absent}]]

Pending(c) == {todo[c][i] : i \in DOMAIN todo[c]}
Updates(c) == {n \in Pending(c) : n.op \in {"change", "reactivate"}}

(* The name on_message read under the lock is still the owner of the       *)
(* connection when update_status uses it, blocks later: whatever the other *)
(* threads did meanwhile, a client changes nobody's status but its own.    *)
PendingUpdateIsOwn ==
  \A c \in Conn : \A n \in Updates(c) : n.user = Sender(c)

(* The check-then-act of the reactivation: on_message saw INACTIVO, let go *)
(* of the lock and calls update_status(ACTIVO).  Nothing the other threads *)
(* run in between can have made the user something else (OCUPADO, or gone),*)
(* which the call would overwrite; except for the user called Desconocido, *)
(* whose status those without an entry may change.                         *)
ReactivationStillNeeded ==
  \A c \in Conn : \A n \in Updates(c) :
    n.op = "reactivate" /\ n.user # Desconocido
      => n.user \in Owned(c) /\ connections[n.user].status = "INACTIVO"

(* No change of a status is silent: in the step that makes it a handler or *)
(* a monitor thread takes over the duty to send a 53 or 54 that says so.   *)
Announced(u, s) ==
  \/ \E c \in Conn : {NotifyStatus(u, s), NotifyJoined(u, s)} \cap Pending(c) # {}
  \/ s = "INACTIVO" /\ \E m \in Conn : u \in marked[m]

StatusChangeAnnounced ==
  [][\A u \in User :
       Registered(u) /\ Registered(u)' /\ connections[u].status # connections'[u].status
         => Announced(u, connections[u].status)']_vars

(* What a client is left with.  53 and 54 are sent after the lock of the   *)
(* change was released, so they overtake each other and the replies 51 and *)
(* 52.  Once the handler of a connected user is done, another client shows *)
(* that user with its status; or as DISCONNECTED, by the late 54 of its    *)
(* last session; or one of the two is INACTIVO, and the 54 of the monitor  *)
(* is late or was overtaken.  No interleaving leaves a client with an      *)
(* ACTIVO or OCUPADO that a later change has made untrue.                  *)
ViewsSettle ==
  \A d \in Conn, u \in User \ {Desconocido} :
    phase[d] = "open" /\ Connected(u) /\ ~Owns(d, u) /\ Ready(connections[u].conn)
      => \/ told[d][u] \in {Absent, "DISCONNECTED", connections[u].status}
         \/ "INACTIVO" \in {told[d][u], connections[u].status}

(* The handlers and threads, interleaved between their locked blocks, move *)
(* the registry only by the steps of the abstract specification.           *)
ImplementsRegistry == RegSpec

(* Every connected user that stays silent is eventually INACTIVO (or       *)
(* speaks, or leaves), although the threads that see to it are started by  *)
(* an unsynchronised test of a flag.                                       *)
IdleIsMarked == \A u \in User : Idle(u) ~> ~Idle(u)

(* An offline entry does not stay for ever: it is taken over by a new      *)
(* connection or erased by the cleanup thread.                             *)
OfflineForgotten ==
  \A u \in User : Registered(u) /\ ~Connected(u) ~> ~Registered(u) \/ Connected(u)

=============================================================================
