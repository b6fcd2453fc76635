------------------------------ MODULE Registry ------------------------------
(***************************************************************************)
(* The user registry of the chat server: the maps `connections` and        *)
(* `last_user_status` of src/websocket_handler.cpp, and the life of the    *)
(* Crow connection objects they point at.                                  *)
(*                                                                         *)
(* Every block the code runs under `connections_mutex` that changes the    *)
(* registry is one action here, so this module is both the data structure  *)
(* the detailed modules (Presence, Messaging) share and the abstract       *)
(* specification they are shown to implement: whatever the threads do      *)
(* between two critical sections, the registry only ever moves by one of   *)
(* these steps.                                                            *)
(*                                                                         *)
(* Not modelled: uuid and ip_address (stored, never read back).            *)
(***************************************************************************)
EXTENDS Naturals

CONSTANTS
  User,           \* the names on_open accepts (1 to 20 bytes, not "~")
  BadName,        \* stands for every name on_open refuses
  Desconocido,    \* the sender name of a connection that owns no entry
  Conn,           \* addresses of crow::websocket::connection objects
  NoConn,         \* nullptr
  Absent,         \* no entry under a name in an unordered_map
  InactiveAfter,  \* minutes without activity before INACTIVO (1 in the code)
  EraseAfter      \* minutes before an offline entry is erased (5 in the code)

Status == {"DISCONNECTED", "ACTIVO", "OCUPADO", "INACTIVO"}

(* ConnectionData.  `age` is the whole minutes between `last_active` and   *)
(* now; it stops at EraseAfter, beyond which no comparison changes.        *)
Entry == [conn : Conn \cup {NoConn}, status : Status, age : 0 .. EraseAfter]

ASSUME RegistryAssumption ==
  /\ NoConn \notin Conn
  /\ BadName \notin User
  /\ Absent \notin Entry
  /\ Absent \notin Status
  /\ InactiveAfter \in Nat \ {0}
  /\ EraseAfter \in Nat
  /\ InactiveAfter <= EraseAfter

VARIABLES
  connections,       \* name -> Entry, or Absent
  last_user_status,  \* name -> the status it had when it last left, or Absent
  phase              \* Conn -> where the connection object is in its life

regvars == <<connections, last_user_status, phase>>

(* A connection object is "free" (not allocated), "open" (on_open put it   *)
(* in the registry), "rejected" (on_open called conn.close on it) or       *)
(* "closed" (the close handler has run, the object still exists).  Until   *)
(* it is freed its handlers may still be called: after a failed write the  *)
(* close handler runs while a read is pending, and a rejected client may   *)
(* send before it answers the close frame.                                 *)
Phase == {"free", "open", "rejected", "closed"}

RegInit ==
  /\ connections = [u \in User |-> Absent]
  /\ last_user_status = [u \in User |-> Absent]
  /\ phase = [c \in Conn |-> "free"]

-----------------------------------------------------------------------------
(* Looking entries up.                                                     *)

Registered(u) == connections[u] # Absent

Connected(u) == Registered(u) /\ connections[u].conn # NoConn

Owns(c, u) == Registered(u) /\ connections[u].conn = c

Owned(c) == {u \in User : Owns(c, u)}

(* The name on_message attributes the frames of connection c to. *)
Sender(c) == IF Owned(c) = {} THEN Desconocido ELSE CHOOSE u \in Owned(c) : TRUE

-----------------------------------------------------------------------------
(* on_open *)

(* The status a user comes back with: the one in its entry if it still has *)
(* one, else the one it last left with, else ACTIVO; never DISCONNECTED.   *)
Previous(u) ==
  IF Registered(u) THEN connections[u].status ELSE last_user_status[u]

JoinStatusUnfound(u) ==  \* mutant: uses the saved status without find()
  IF Previous(u) = "DISCONNECTED" THEN "ACTIVO" ELSE Previous(u)

JoinStatus(u) ==
  IF Previous(u) \in {"DISCONNECTED", Absent} THEN "ACTIVO" ELSE Previous(u)

(* An invalid name, or one that already has a connection: conn.close. *)
Reject(c, u) ==
  /\ phase[c] = "free"
  /\ u = BadName \/ (u \in User /\ Connected(u))
  /\ phase' = [phase EXCEPT ![c] = "rejected"]
  /\ UNCHANGED <<connections, last_user_status>>

(* A new entry, or the offline entry taken over by the new connection. *)
JoinAnyway(c, u) ==  \* mutant: no duplicate check
  /\ phase[c] = "free"
  /\ phase' = [phase EXCEPT ![c] = "open"]
  /\ connections' = [connections EXCEPT
       ![u] = [conn |-> c, status |-> JoinStatus(u), age |-> 0]]
  /\ UNCHANGED last_user_status

Join(c, u) ==
  /\ phase[c] = "free"
  /\ ~Connected(u)
  /\ phase' = [phase EXCEPT ![c] = "open"]
  /\ connections' = [connections EXCEPT
       ![u] = [conn |-> c, status |-> JoinStatus(u), age |-> 0]]
  /\ UNCHANGED last_user_status

-----------------------------------------------------------------------------
(* on_message and update_status *)

(* The first block of on_message: the entry that points at the connection, *)
(* if there is one, has its last_active refreshed.                         *)
Touch(c) ==
  /\ phase[c] # "free"
  /\ connections' = [u \in User |->
       IF Owns(c, u) THEN [connections[u] EXCEPT !.age = 0]
                     ELSE connections[u]]
  /\ UNCHANGED <<last_user_status, phase>>

(* The locked block of update_status; a name without an entry is ignored. *)
SetStatus(u, s) ==
  connections' = [v \in User |->
    IF v = u /\ Registered(v)
      THEN [conn |-> connections[v].conn, status |-> s, age |-> 0]
      ELSE connections[v]]

UpdateStatus(c, s) ==
  /\ phase[c] # "free"
  /\ SetStatus(Sender(c), s)
  /\ UNCHANGED <<last_user_status, phase>>

-----------------------------------------------------------------------------
(* on_close, and the deletion of the connection object that follows it *)

CloseSavedOnce(c) ==  \* mutant: emplace(), which keeps a status saved before
  /\ phase[c] # "free"
  /\ phase' = [phase EXCEPT ![c] = "closed"]
  /\ \/ Owned(c) = {} /\ UNCHANGED <<connections, last_user_status>>
     \/ \E u \in Owned(c) :
          /\ last_user_status' = [last_user_status EXCEPT
               ![u] = IF @ = Absent THEN connections[u].status ELSE @]
          /\ connections' = [connections EXCEPT ![u].status = "DISCONNECTED",
                                                ![u].conn = NoConn]

CloseOnlyPointer(c) ==  \* mutant: leaves the status of the entry as it was
  /\ phase[c] # "free"
  /\ phase' = [phase EXCEPT ![c] = "closed"]
  /\ \/ Owned(c) = {} /\ UNCHANGED <<connections, last_user_status>>
     \/ \E u \in Owned(c) :
          /\ last_user_status' = [last_user_status EXCEPT
               ![u] = connections[u].status]
          /\ connections' = [connections EXCEPT ![u].conn = NoConn]

Close(c) ==
  /\ phase[c] # "free"
  /\ phase' = [phase EXCEPT ![c] = "closed"]
  /\ \/ Owned(c) = {} /\ UNCHANGED <<connections, last_user_status>>
     \/ \E u \in Owned(c) :
          /\ last_user_status' = [last_user_status EXCEPT
               ![u] = connections[u].status]
          /\ connections' = [connections EXCEPT ![u].status = "DISCONNECTED",
                                                ![u].conn = NoConn]

(* check_destroy: `delete this`, never before the close handler was called. *)
Destroy(c) ==
  /\ phase[c] = "closed"
  /\ phase' = [phase EXCEPT ![c] = "free"]
  /\ UNCHANGED <<connections, last_user_status>>

-----------------------------------------------------------------------------
(* The background threads, and the clock they read *)

Idle(u) ==
  /\ Connected(u)
  /\ connections[u].status \notin {"INACTIVO", "DISCONNECTED"}
  /\ connections[u].age >= InactiveAfter

(* One pass of the inactivity monitor over the map. *)
MarkInactive ==
  /\ connections' = [u \in User |->
       IF Idle(u) THEN [connections[u] EXCEPT !.status = "INACTIVO"]
                  ELSE connections[u]]
  /\ UNCHANGED <<last_user_status, phase>>

ExpiredConnected(u) ==  \* mutant: asks for conn != nullptr
  Connected(u) /\ connections[u].age >= EraseAfter

Expired(u) ==
  Registered(u) /\ ~Connected(u) /\ connections[u].age >= EraseAfter

(* One pass of the cleanup thread over the map. *)
Cleanup ==
  /\ connections' = [u \in User |->
       IF Expired(u) THEN Absent ELSE connections[u]]
  /\ UNCHANGED <<last_user_status, phase>>

(* Another minute has passed since the last_active of u. *)
Minute(u) ==
  /\ Registered(u)
  /\ connections[u].age < EraseAfter
  /\ connections' = [connections EXCEPT ![u].age = @ + 1]
  /\ UNCHANGED <<last_user_status, phase>>

-----------------------------------------------------------------------------
RegNext ==
  \/ \E c \in Conn, u \in User \cup {BadName} : Reject(c, u)
  \/ \E c \in Conn, u \in User : Join(c, u)
  \/ \E c \in Conn : Touch(c)
  \/ \E c \in Conn, s \in Status : UpdateStatus(c, s)
  \/ \E c \in Conn : Close(c)
  \/ \E c \in Conn : Destroy(c)
  \/ MarkInactive
  \/ Cleanup
  \/ \E u \in User : Minute(u)

RegSpec == RegInit /\ [][RegNext]_regvars

-----------------------------------------------------------------------------
(* The registry maps hold what the C++ types allow, and the life of every  *)
(* connection object is one of the four phases.                            *)
TypeOK ==
  /\ connections \in [User -> Entry \cup {Absent}]
  /\ last_user_status \in [User -> Status \cup {Absent}]
  /\ phase \in [Conn -> Phase]

(* Sessions and connections agree: a connection that on_open accepted and  *)
(* whose close handler has not run owns an entry; an entry points only at  *)
(* such a connection, so never at a deleted object; and no two names share *)
(* one.  Violating it takes an open, a close and a cleanup that disagree.  *)
OwnershipAgrees ==
  /\ \A c \in Conn : phase[c] = "open" => \E u \in User : Owns(c, u)
  /\ \A u \in User : Connected(u) => phase[connections[u].conn] = "open"
  /\ \A u, v \in User :
       Connected(u) /\ Connected(v) /\ connections[u].conn = connections[v].conn
         => u = v

(* A user without a connection is shown as DISCONNECTED: neither a status  *)
(* change still on its way nor the monitor brings an offline entry back to *)
(* life.  It holds of every name but "Desconocido": under that one anybody *)
(* without an entry, a refused client among them, may change the status.   *)
OfflineIsDisconnected ==
  \A u \in User \ {Desconocido} :
    Registered(u) /\ ~Connected(u) => connections[u].status = "DISCONNECTED"

(* From a departure to the return: on_close saves the status the user then *)
(* had, over one saved earlier; nothing touches it while the user is away, *)
(* however often others come, go and are cleaned up; and on_open gives the *)
(* user ACTIVO if its entry is still there, else what it left with, and    *)
(* ACTIVO if that was DISCONNECTED.  Again "Desconocido" is not safe from  *)
(* others.                                                                 *)
Leaves(u) == Connected(u) /\ ~Connected(u)'
StaysAway(u) == ~Connected(u) /\ ~Connected(u)'
Returns(u) == ~Connected(u) /\ Connected(u)'

ReturnsAsLeft ==
  [][\A u \in User :
       /\ Leaves(u) => last_user_status'[u] = connections[u].status
       /\ StaysAway(u) => last_user_status'[u] = last_user_status[u]
       /\ Returns(u) /\ u # Desconocido =>
            connections'[u].status =
              IF Registered(u) \/ last_user_status[u] \in {Absent, "DISCONNECTED"}
                THEN "ACTIVO"
                ELSE last_user_status[u]]_regvars

=============================================================================
