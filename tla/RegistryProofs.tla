--------------------------- MODULE RegistryProofs ---------------------------
(***************************************************************************)
(* Proofs about Registry and Admission, for any number of names and        *)
(* connections.                                                            *)
(***************************************************************************)
EXTENDS Admission, TLAPS

(* The registry keeps its type: no handler or thread stores anything the   *)
(* C++ types do not allow.                                                 *)
LEMMA TypeInit == RegInit => TypeOK
  BY RegistryAssumption DEF RegInit, TypeOK, Phase

(* The steps that change only a status or a time. *)
SameOwners ==
  \A u \in User : /\ Registered(u)' <=> Registered(u)
                  /\ Registered(u) => connections'[u].conn = connections[u].conn

(* The critical section of update_status keeps the map well typed and      *)
(* touches no connection.                                                  *)
LEMMA SetStatusType ==
  ASSUME TypeOK, NEW u, NEW s \in Status, SetStatus(u, s)
  PROVE  /\ connections' \in [User -> Entry \cup {Absent}]
         /\ SameOwners
<1>1. ASSUME NEW v \in User
      PROVE  /\ connections'[v] \in Entry \cup {Absent}
             /\ Registered(v)' <=> Registered(v)
             /\ Registered(v) => connections'[v].conn = connections[v].conn
  <2>1. CASE v = u /\ Registered(v)
    <3>1. connections[v] \in Entry
      BY <2>1 DEF TypeOK, Registered
    <3>2. connections'[v] = [conn |-> connections[v].conn, status |-> s, age |-> 0]
      BY <2>1 DEF SetStatus
    <3>3. connections'[v] \in Entry /\ connections'[v].conn = connections[v].conn
      BY <3>1, <3>2, RegistryAssumption DEF Entry
    <3> QED
      BY <2>1, <3>3, RegistryAssumption DEF Registered
  <2>2. CASE ~(v = u /\ Registered(v))
    BY <2>2 DEF SetStatus, TypeOK, Registered
  <2> QED
    BY <2>1, <2>2
<1>2. connections' = [v \in User |-> connections'[v]]
  BY DEF SetStatus
<1> QED
  BY <1>1, <1>2 DEF SameOwners

(* on_open never brings a user back with a status outside UserStatus. *)
LEMMA JoinStatusType ==
  ASSUME TypeOK, NEW u \in User
  PROVE  JoinStatus(u) \in Status
  BY DEF TypeOK, JoinStatus, Previous, Registered, Entry, Status

LEMMA TypeStep == TypeOK /\ [RegNext]_regvars => TypeOK'
<1> SUFFICES ASSUME TypeOK, [RegNext]_regvars PROVE TypeOK'
  OBVIOUS
<1> USE RegistryAssumption
<1>1. ASSUME NEW c \in Conn, NEW u \in User \cup {BadName}, Reject(c, u)
      PROVE  TypeOK'
  BY <1>1 DEF Reject, TypeOK, Phase
<1>2. ASSUME NEW c \in Conn, NEW u \in User, Join(c, u) PROVE TypeOK'
  <2>1. JoinStatus(u) \in Status
    BY JoinStatusType
  <2>2. [conn |-> c, status |-> JoinStatus(u), age |-> 0] \in Entry
    BY <2>1 DEF Entry
  <2> QED
    BY <1>2, <2>2 DEF Join, TypeOK, Phase
<1>3. ASSUME NEW c \in Conn, Touch(c) PROVE TypeOK'
  BY <1>3 DEF Touch, TypeOK, Owns, Registered, Entry
<1>4. ASSUME NEW c \in Conn, NEW s \in Status, UpdateStatus(c, s) PROVE TypeOK'
  BY <1>4, SetStatusType DEF UpdateStatus, TypeOK
<1>5. ASSUME NEW c \in Conn, Close(c) PROVE TypeOK'
  <2>1. phase' \in [Conn -> Phase]
    BY <1>5 DEF Close, TypeOK, Phase
  <2>2. CASE UNCHANGED <<connections, last_user_status>>
    BY <2>1, <2>2 DEF TypeOK
  <2>3. ASSUME NEW u \in Owned(c),
               last_user_status' = [last_user_status EXCEPT ![u] = connections[u].status],
               connections' = [connections EXCEPT ![u].status = "DISCONNECTED",
                                                  ![u].conn = NoConn]
        PROVE  TypeOK'
    <3>1. u \in User /\ connections[u] \in Entry
      BY DEF Owned, Owns, Registered, TypeOK
    <3>2. connections[u].status \in Status
      BY <3>1 DEF Entry
    <3>3. [[connections[u] EXCEPT !.status = "DISCONNECTED"] EXCEPT !.conn = NoConn] \in Entry
      BY <3>1 DEF Entry, Status
    <3>4. connections' \in [User -> Entry \cup {Absent}]
      BY <2>3, <3>1, <3>3 DEF TypeOK
    <3> QED
      BY <2>1, <2>3, <3>1, <3>2, <3>4 DEF TypeOK
  <2> QED
    BY <1>5, <2>2, <2>3 DEF Close
<1>6. ASSUME NEW c \in Conn, Destroy(c) PROVE TypeOK'
  BY <1>6 DEF Destroy, TypeOK, Phase
<1>7. CASE MarkInactive
  BY <1>7 DEF MarkInactive, TypeOK, Idle, Connected, Registered, Entry, Status
<1>8. CASE Cleanup
  BY <1>8 DEF Cleanup, TypeOK
<1>9. ASSUME NEW u \in User, Minute(u) PROVE TypeOK'
  BY <1>9 DEF Minute, TypeOK, Registered, Entry
<1>10. CASE UNCHANGED regvars
  BY <1>10 DEF regvars, TypeOK
<1> QED
  BY <1>1, <1>2, <1>3, <1>4, <1>5, <1>6, <1>7, <1>8, <1>9, <1>10 DEF RegNext

(* The registry maps are well typed in every reachable state. *)
THEOREM TypeCorrect == RegSpec => []TypeOK
  BY TypeInit, TypeStep, PTL DEF RegSpec

-----------------------------------------------------------------------------
(* Activity, status changes, the monitor and the clock leave every entry   *)
(* with the connection it had.                                             *)
LEMMA TouchKeepsOwners ==
  ASSUME TypeOK, NEW c \in Conn, Touch(c) PROVE SameOwners
  BY RegistryAssumption DEF TypeOK, Touch, SameOwners, Owns, Registered, Entry

(* So do update_status, the monitor and the clock.                         *)
LEMMA UpdateKeepsOwners ==
  ASSUME TypeOK, NEW c \in Conn, NEW s \in Status, UpdateStatus(c, s) PROVE SameOwners
  BY SetStatusType DEF UpdateStatus

LEMMA MarkKeepsOwners ==
  ASSUME TypeOK, MarkInactive PROVE SameOwners
  BY RegistryAssumption
     DEF TypeOK, MarkInactive, SameOwners, Idle, Connected, Registered, Entry, Status

LEMMA MinuteKeepsOwners ==
  ASSUME TypeOK, NEW u \in User, Minute(u) PROVE SameOwners
  BY RegistryAssumption DEF TypeOK, Minute, SameOwners, Registered, Entry

(* An unchanged phase and unchanged owners leave ownership as it was. *)
LEMMA SameOwnersAgree ==
  ASSUME TypeOK, OwnershipAgrees, SameOwners, UNCHANGED phase
  PROVE  OwnershipAgrees'
  BY DEF OwnershipAgrees, SameOwners, Owns, Connected, Registered, TypeOK

LEMMA OwnershipInit == RegInit => OwnershipAgrees
  BY DEF RegInit, OwnershipAgrees, Connected, Registered

LEMMA OwnershipStep == TypeOK /\ OwnershipAgrees /\ [RegNext]_regvars => OwnershipAgrees'
<1> SUFFICES ASSUME TypeOK, OwnershipAgrees, [RegNext]_regvars PROVE OwnershipAgrees'
  OBVIOUS
<1> USE RegistryAssumption
<1>1. ASSUME NEW c \in Conn, NEW u \in User \cup {BadName}, Reject(c, u)
      PROVE  OwnershipAgrees'
  BY <1>1 DEF Reject, OwnershipAgrees, Owns, Connected, Registered, TypeOK
<1>2. ASSUME NEW c \in Conn, NEW u \in User, Join(c, u) PROVE OwnershipAgrees'
  <2>1. Registered(u)' /\ connections'[u].conn = c
    BY <1>2 DEF Join, Registered, TypeOK, Entry, JoinStatus, Previous, Status
  <2>2. \A v \in User \ {u} : connections'[v] = connections[v]
    BY <1>2 DEF Join, TypeOK
  <2>3. \A v \in User : Connected(v) => connections[v].conn # c
    BY <1>2 DEF Join, OwnershipAgrees
  <2>4. \A d \in Conn : phase'[d] = (IF d = c THEN "open" ELSE phase[d])
    BY <1>2 DEF Join, TypeOK
  <2> QED
    BY <2>1, <2>2, <2>3, <2>4, <1>2
       DEF Join, OwnershipAgrees, Owns, Connected, Registered, TypeOK, Entry
<1>3. ASSUME NEW c \in Conn, Touch(c) PROVE OwnershipAgrees'
  BY <1>3, TouchKeepsOwners, SameOwnersAgree DEF Touch
<1>4. ASSUME NEW c \in Conn, NEW s \in Status, UpdateStatus(c, s) PROVE OwnershipAgrees'
  BY <1>4, UpdateKeepsOwners, SameOwnersAgree DEF UpdateStatus
<1>5. ASSUME NEW c \in Conn, Close(c) PROVE OwnershipAgrees'
  <2>1. CASE Owned(c) = {} /\ UNCHANGED <<connections, last_user_status>>
    BY <1>5, <2>1 DEF Close, OwnershipAgrees, Owned, Owns, Connected, Registered, TypeOK, Entry
  <2>2. CASE \E u \in Owned(c) :
               connections' = [connections EXCEPT ![u].status = "DISCONNECTED",
                                                  ![u].conn = NoConn]
    <3> PICK u \in Owned(c) :
          connections' = [connections EXCEPT ![u].status = "DISCONNECTED",
                                             ![u].conn = NoConn]
      BY <2>2
    <3>1. u \in User /\ Connected(u) /\ connections[u].conn = c
      BY DEF Owned, Owns, Connected
    <3>2. ~Connected(u)' /\ \A v \in User \ {u} : connections'[v] = connections[v]
      BY <3>1 DEF Connected, Registered, TypeOK, Entry
    <3>3. \A v \in User \ {u} : Connected(v) => connections[v].conn # c
      BY <3>1 DEF OwnershipAgrees
    <3> QED
      BY <1>5, <3>1, <3>2, <3>3
         DEF Close, OwnershipAgrees, Owns, Connected, Registered, TypeOK, Entry
  <2> QED
    BY <1>5, <2>1, <2>2 DEF Close
<1>6. ASSUME NEW c \in Conn, Destroy(c) PROVE OwnershipAgrees'
  BY <1>6 DEF Destroy, OwnershipAgrees, Owns, Connected, Registered, TypeOK
<1>7. CASE MarkInactive
  BY <1>7, MarkKeepsOwners, SameOwnersAgree DEF MarkInactive
<1>8. CASE Cleanup
  BY <1>8 DEF Cleanup, Expired, OwnershipAgrees, Owns, Connected, Registered, TypeOK, Entry
<1>9. ASSUME NEW u \in User, Minute(u) PROVE OwnershipAgrees'
  BY <1>9, MinuteKeepsOwners, SameOwnersAgree DEF Minute
<1>10. CASE UNCHANGED regvars
  BY <1>10 DEF regvars, OwnershipAgrees, Owns, Connected, Registered
<1> QED
  BY <1>1, <1>2, <1>3, <1>4, <1>5, <1>6, <1>7, <1>8, <1>9, <1>10 DEF RegNext

(* on_open, on_close, the cleanup and the deletion of connection objects   *)
(* never disagree about which connection a name belongs to.                *)
THEOREM OwnershipCorrect == RegSpec => []OwnershipAgrees
  BY TypeInit, TypeStep, OwnershipInit, OwnershipStep, PTL DEF RegSpec

(* Every critical section leaves connections what they own, but for the    *)
(* one it opens or closes.                                                 *)
LEMMA SameOwned ==
  ASSUME TypeOK, SameOwners, NEW c \in Conn PROVE Owned(c)' = Owned(c)
  BY DEF SameOwners, Owned, Owns

(* on_open, on_close and cleanup leave alone what other connections own.   *)
LEMMA JoinOwned ==
  ASSUME TypeOK, NEW c \in Conn, NEW u \in User, Join(c, u), NEW d \in Conn \ {c}
  PROVE  Owned(d)' = Owned(d)
<1>1. \A v \in User \ {u} : connections'[v] = connections[v]
  BY DEF Join, TypeOK
<1>2. connections'[u].conn = c
  BY DEF Join, TypeOK
<1>3. ~Owns(d, u)
  BY RegistryAssumption DEF Join, Connected, Owns
<1> QED
  BY <1>1, <1>2, <1>3 DEF Owned, Owns, Registered

LEMMA CloseOwned ==
  ASSUME TypeOK, NEW c \in Conn, Close(c), NEW d \in Conn \ {c}
  PROVE  Owned(d)' = Owned(d)
<1>1. CASE UNCHANGED connections
  BY <1>1 DEF Owned, Owns, Registered
<1>2. ASSUME NEW u \in Owned(c),
             connections' = [connections EXCEPT ![u].status = "DISCONNECTED",
                                                ![u].conn = NoConn]
      PROVE  Owned(d)' = Owned(d)
  <2>1. u \in User /\ connections[u] \in Entry /\ connections[u].conn = c
    BY DEF Owned, Owns, Registered, TypeOK
  <2>2. \A v \in User \ {u} : connections'[v] = connections[v]
    BY <1>2, <2>1 DEF TypeOK
  <2>3. connections'[u].conn = NoConn
    BY <1>2, <2>1 DEF TypeOK, Entry
  <2> QED
    BY <2>1, <2>2, <2>3, RegistryAssumption DEF Owned, Owns, Registered
<1> QED
  BY <1>1, <1>2 DEF Close

LEMMA CleanupOwned ==
  ASSUME TypeOK, Cleanup, NEW d \in Conn
  PROVE  Owned(d)' = Owned(d)
<1>1. ASSUME NEW u \in User PROVE Owns(d, u)' <=> Owns(d, u)
  BY RegistryAssumption DEF Cleanup, Expired, Owns, Registered, Connected
<1> QED
  BY <1>1 DEF Owned

(* No entry has two names: the sender of a frame is the owner. *)
LEMMA OnlyOwner ==
  ASSUME OwnershipAgrees, NEW c \in Conn, NEW u \in Owned(c)
  PROVE  u = Sender(c)
<1>1. Sender(c) \in Owned(c)
  BY DEF Sender
<1> QED
  BY <1>1, RegistryAssumption DEF OwnershipAgrees, Owned, Owns, Connected

-----------------------------------------------------------------------------
(* Those who left.  OfflineIsDisconnected is inductive with the type: what *)
(* update_status is pointed at is the entry of a connected user, or the one*)
(* called Desconocido.                                                     *)
LEMMA OfflineInit == RegInit => OfflineIsDisconnected
  BY DEF RegInit, OfflineIsDisconnected, Registered

(* A step that keeps the owners and the statuses of the offline entries    *)
(* keeps them DISCONNECTED.                                                *)
LEMMA SameOffline ==
  ASSUME TypeOK, OfflineIsDisconnected, SameOwners,
         \A u \in User \ {Desconocido} :
           Registered(u) /\ ~Connected(u)
             => connections'[u].status = connections[u].status
  PROVE  OfflineIsDisconnected'
  BY DEF OfflineIsDisconnected, SameOwners, Connected, Registered

(* update_status only ever reaches the entry of a connected user, or that  *)
(* of the user called Desconocido.                                         *)
LEMMA SenderIsConnected ==
  ASSUME NEW c \in Conn, Sender(c) \in User \ {Desconocido}
  PROVE  Connected(Sender(c))
<1>1. Owned(c) # {}
  BY DEF Sender
<1>2. Sender(c) \in Owned(c)
  BY <1>1 DEF Sender
<1> QED
  BY <1>2, RegistryAssumption DEF Owned, Owns, Connected

LEMMA OfflineStep == TypeOK /\ OfflineIsDisconnected /\ [RegNext]_regvars => OfflineIsDisconnected'
<1> SUFFICES ASSUME TypeOK, OfflineIsDisconnected, [RegNext]_regvars PROVE OfflineIsDisconnected'
  OBVIOUS
<1> USE RegistryAssumption
<1>1. ASSUME NEW c \in Conn, NEW u \in User \cup {BadName}, Reject(c, u)
      PROVE  OfflineIsDisconnected'
  BY <1>1 DEF Reject, OfflineIsDisconnected, Connected, Registered
<1>2. ASSUME NEW c \in Conn, NEW u \in User, Join(c, u) PROVE OfflineIsDisconnected'
  <2>1. Connected(u)' /\ \A v \in User \ {u} : connections'[v] = connections[v]
    BY <1>2 DEF Join, Connected, Registered, TypeOK, Entry, JoinStatus, Previous, Status
  <2> QED
    BY <1>2, <2>1 DEF Join, OfflineIsDisconnected,
                      Connected, Registered
<1>3. ASSUME NEW c \in Conn, Touch(c) PROVE OfflineIsDisconnected'
  <2>1. \A u \in User : Registered(u) /\ ~Connected(u) => connections'[u] = connections[u]
    BY <1>3 DEF Touch, Owns, Connected
  <2> QED
    BY <1>3, <2>1, TouchKeepsOwners, SameOffline DEF Touch
<1>4. ASSUME NEW c \in Conn, NEW s \in Status, UpdateStatus(c, s) PROVE OfflineIsDisconnected'
  <2>1. \A u \in User \ {Desconocido} :
          Registered(u) /\ ~Connected(u) => connections'[u] = connections[u]
    BY <1>4, SenderIsConnected DEF UpdateStatus, SetStatus
  <2> QED
    BY <1>4, <2>1, UpdateKeepsOwners, SameOffline DEF UpdateStatus
<1>5. ASSUME NEW c \in Conn, Close(c) PROVE OfflineIsDisconnected'
  <2>1. CASE UNCHANGED <<connections, last_user_status>>
    BY <2>1 DEF OfflineIsDisconnected, Connected, Registered
  <2>2. ASSUME NEW u \in Owned(c),
               last_user_status' = [last_user_status EXCEPT ![u] = connections[u].status],
               connections' = [connections EXCEPT ![u].status = "DISCONNECTED",
                                                  ![u].conn = NoConn]
        PROVE  OfflineIsDisconnected'
    <3>1. u \in User /\ connections[u] \in Entry
      BY DEF Owned, Owns, Registered, TypeOK
    <3>2. connections'[u].status = "DISCONNECTED"
      BY <2>2, <3>1 DEF TypeOK, Entry
    <3>3. \A v \in User \ {u} : connections'[v] = connections[v]
      BY <2>2, <3>1 DEF TypeOK
    <3> QED
      BY <3>1, <3>2, <3>3
         DEF OfflineIsDisconnected, Connected, Registered
  <2> QED
    BY <1>5, <2>1, <2>2 DEF Close
<1>6. ASSUME NEW c \in Conn, Destroy(c) PROVE OfflineIsDisconnected'
  BY <1>6 DEF Destroy, OfflineIsDisconnected, Connected, Registered
<1>7. CASE MarkInactive
  <2>1. \A u \in User : ~Connected(u) => connections'[u] = connections[u]
    BY <1>7 DEF MarkInactive, Idle
  <2> QED
    BY <1>7, <2>1, MarkKeepsOwners, SameOffline DEF MarkInactive
<1>8. CASE Cleanup
  BY <1>8 DEF Cleanup, OfflineIsDisconnected, Connected, Registered
<1>9. ASSUME NEW u \in User, Minute(u) PROVE OfflineIsDisconnected'
  <2>1. \A v \in User : Registered(v) => connections'[v].status = connections[v].status
    BY <1>9 DEF Minute, TypeOK, Registered, Entry
  <2> QED
    BY <1>9, <2>1, MinuteKeepsOwners, SameOffline DEF Minute
<1>10. CASE UNCHANGED regvars
  BY <1>10 DEF regvars, OfflineIsDisconnected, Connected, Registered
<1> QED
  BY <1>1, <1>2, <1>3, <1>4, <1>5, <1>6, <1>7, <1>8, <1>9, <1>10 DEF RegNext

(* Whatever the handlers and threads do, a user without a connection is    *)
(* shown as DISCONNECTED, unless it is called Desconocido.                 *)
THEOREM OfflineCorrect == RegSpec => []OfflineIsDisconnected
  BY TypeInit, TypeStep, OfflineInit, OfflineStep, PTL DEF RegSpec

(* The middleware turns nobody away whom on_open would accept at that      *)
(* moment, except a user called Desconocido.                               *)
THEOREM AdmissionCorrect == RegSpec => []NoFalseRefusal
<1>1. OfflineIsDisconnected => NoFalseRefusal
  BY RegistryAssumption, AdmissionAssumption
  DEF OfflineIsDisconnected, NoFalseRefusal, Asked, Verdict, Taken, Refused, Connected
<1> QED
  BY <1>1, OfflineCorrect, PTL

-----------------------------------------------------------------------------
(* From a departure to the return.                                         *)
LeftAndBack(u) ==
  /\ Leaves(u) => last_user_status'[u] = connections[u].status
  /\ StaysAway(u) => last_user_status'[u] = last_user_status[u]
  /\ Returns(u) /\ u # Desconocido =>
       connections'[u].status =
         IF Registered(u) \/ last_user_status[u] \in {Absent, "DISCONNECTED"}
           THEN "ACTIVO"
           ELSE last_user_status[u]

(* Nobody comes or goes in a step that keeps the owners and what is saved. *)
LEMMA SameLeftAndBack ==
  ASSUME SameOwners, UNCHANGED last_user_status, NEW u \in User
  PROVE  LeftAndBack(u)
  BY DEF LeftAndBack, Leaves, StaysAway, Returns, SameOwners, Connected, Registered

LEMMA ReturnStep ==
  ASSUME TypeOK, OfflineIsDisconnected, [RegNext]_regvars, NEW u \in User
  PROVE  LeftAndBack(u)
<1> USE RegistryAssumption
<1>1. ASSUME NEW c \in Conn, NEW v \in User \cup {BadName}, Reject(c, v)
      PROVE  LeftAndBack(u)
  BY <1>1, SameLeftAndBack DEF Reject, SameOwners, Registered
<1>2. ASSUME NEW c \in Conn, NEW v \in User, Join(c, v) PROVE LeftAndBack(u)
  <2>1. CASE u = v
    <3>1. connections'[u].status = JoinStatus(u) /\ ~Connected(u)
      BY <1>2, <2>1 DEF Join, TypeOK
    <3>2. u # Desconocido /\ Registered(u) => connections[u].status = "DISCONNECTED"
      BY <3>1 DEF OfflineIsDisconnected
    <3>3. Connected(u)'
      BY <1>2, <2>1 DEF Join, TypeOK, Connected, Registered, Entry, JoinStatus, Previous, Status
    <3> QED
      BY <3>1, <3>2, <3>3
         DEF LeftAndBack, Leaves, StaysAway, Returns, JoinStatus, Previous
  <2>2. CASE u # v
    <3>1. connections'[u] = connections[u] /\ last_user_status'[u] = last_user_status[u]
      BY <1>2, <2>2 DEF Join, TypeOK
    <3> QED
      BY <3>1 DEF LeftAndBack, Leaves, StaysAway, Returns, Connected, Registered
  <2> QED
    BY <2>1, <2>2
<1>3. ASSUME NEW c \in Conn, Touch(c) PROVE LeftAndBack(u)
  BY <1>3, TouchKeepsOwners, SameLeftAndBack DEF Touch
<1>4. ASSUME NEW c \in Conn, NEW s \in Status, UpdateStatus(c, s) PROVE LeftAndBack(u)
  BY <1>4, UpdateKeepsOwners, SameLeftAndBack DEF UpdateStatus
<1>5. ASSUME NEW c \in Conn, Close(c) PROVE LeftAndBack(u)
  <2>1. CASE UNCHANGED <<connections, last_user_status>>
    BY <2>1, SameLeftAndBack DEF SameOwners, Registered
  <2>2. ASSUME NEW v \in Owned(c),
               last_user_status' = [last_user_status EXCEPT ![v] = connections[v].status],
               connections' = [connections EXCEPT ![v].status = "DISCONNECTED",
                                                  ![v].conn = NoConn]
        PROVE  LeftAndBack(u)
    <3>1. v \in User /\ Connected(v) /\ connections[v] \in Entry
      BY DEF Owned, Owns, Registered, Connected, TypeOK
    <3>2. CASE u = v
      <4>1. last_user_status'[u] = connections[u].status /\ connections'[u].conn = NoConn
        BY <2>2, <3>1, <3>2 DEF TypeOK, Entry
      <4> QED
        BY <3>1, <3>2, <4>1 DEF LeftAndBack, Leaves, StaysAway, Returns, Connected
    <3>3. CASE u # v
      <4>1. connections'[u] = connections[u] /\ last_user_status'[u] = last_user_status[u]
        BY <2>2, <3>1, <3>3 DEF TypeOK
      <4> QED
        BY <4>1 DEF LeftAndBack, Leaves, StaysAway, Returns, Connected, Registered
    <3> QED
      BY <3>2, <3>3
  <2> QED
    BY <1>5, <2>1, <2>2 DEF Close
<1>6. ASSUME NEW c \in Conn, Destroy(c) PROVE LeftAndBack(u)
  BY <1>6, SameLeftAndBack DEF Destroy, SameOwners, Registered
<1>7. CASE MarkInactive
  BY <1>7, MarkKeepsOwners, SameLeftAndBack DEF MarkInactive
<1>8. CASE Cleanup
  <2>1. /\ connections'[u] = IF Expired(u) THEN Absent ELSE connections[u]
        /\ UNCHANGED last_user_status
    BY <1>8 DEF Cleanup
  <2> QED
    BY <2>1 DEF LeftAndBack, Leaves, StaysAway, Returns, Expired, Connected, Registered
<1>9. ASSUME NEW v \in User, Minute(v) PROVE LeftAndBack(u)
  BY <1>9, MinuteKeepsOwners, SameLeftAndBack DEF Minute
<1>10. CASE UNCHANGED regvars
  BY <1>10, SameLeftAndBack DEF regvars, SameOwners, Registered
<1> QED
  BY <1>1, <1>2, <1>3, <1>4, <1>5, <1>6, <1>7, <1>8, <1>9, <1>10 DEF RegNext

(* Whoever leaves is remembered as it left, until it comes back, and comes *)
(* back as it left or ACTIVO.                                              *)
THEOREM DepartureCorrect == RegSpec => ReturnsAsLeft
<1>1. TypeOK /\ OfflineIsDisconnected /\ [RegNext]_regvars
        => [\A u \in User : LeftAndBack(u)]_regvars
  BY ReturnStep
<1>2. RegSpec => [][\A u \in User : LeftAndBack(u)]_regvars
  BY <1>1, TypeInit, TypeStep, OfflineInit, OfflineStep, PTL DEF RegSpec
<1> QED
  BY <1>2, PTL DEF ReturnsAsLeft, LeftAndBack

(* What Crow promises about the connection objects, with the phases of the *)
(* registry for their lives.                                               *)
Contract == INSTANCE ConnectionLife WITH life <- phase

(* The handlers and threads use connection objects within the contract     *)
(* that WsConnection, the model of Crow's code, is proved to keep: no      *)
(* step of the registry assumes a life of an object that Crow cannot give. *)
THEOREM WithinContract == RegSpec => Contract!LifeSpec
<1>1. RegInit => Contract!LifeInit
  BY DEF RegInit, Contract!LifeInit
<1>2. TypeOK /\ [RegNext]_regvars => [Contract!LifeNext]_phase
  <2> SUFFICES ASSUME TypeOK, [RegNext]_regvars
               PROVE  Contract!LifeNext \/ UNCHANGED phase
    OBVIOUS
  <2> USE DEF Contract!LifeNext, Contract!Opens, Contract!ClosesOnce, Contract!Deletes,
              Contract!Moves, Contract!Life, Phase
  <2>1. ASSUME NEW c \in Conn, NEW u \in User \cup {BadName}, Reject(c, u)
        PROVE  Contract!LifeNext
    BY <2>1 DEF Reject
  <2>2. ASSUME NEW c \in Conn, NEW u \in User, Join(c, u)
        PROVE  Contract!LifeNext
    BY <2>2 DEF Join
  <2>3. ASSUME NEW c \in Conn, Close(c)
        PROVE  Contract!LifeNext
    BY <2>3 DEF Close, TypeOK
  <2>4. ASSUME NEW c \in Conn, Destroy(c)
        PROVE  Contract!LifeNext
    BY <2>4 DEF Destroy
  <2> QED
    BY <2>1, <2>2, <2>3, <2>4
    DEF RegNext, regvars, Touch, UpdateStatus, MarkInactive, Cleanup, Minute
<1> QED
  BY <1>1, <1>2, TypeInit, TypeStep, PTL DEF RegSpec, Contract!LifeSpec

=============================================================================
