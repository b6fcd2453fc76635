------------------------------ MODULE Protocol ------------------------------
(***************************************************************************)
(* The binary frames of the chat protocol (src/websocket_handler.cpp): how *)
(* on_message reads a request and what it replies, as functions of the     *)
(* registry.  A frame is a sequence of bytes; the bytes of a name only     *)
(* need to be told apart, and the fields that hold a number are numbers.   *)
(* When frames are sent, and to whom, is in Presence and Messaging.        *)
(***************************************************************************)
EXTENDS Registry, SequencesExt, FiniteSetsExt

CONSTANTS
  Byte,   \* how many values a byte has (256)
  Char,   \* the bytes of names
  Text    \* the bytes of every name

ASSUME ProtocolAssumption ==
  /\ Byte \in Nat \ {0, 1}
  /\ Text \in [User -> Seq(Char)]
  /\ \A u \in User : Len(Text[u]) \in 1..(Byte - 1)
  /\ \A u, v \in User : Text[u] = Text[v] => u = v

-----------------------------------------------------------------------------
(* Reading: the value and the offset behind it, or the exception. *)
Throws == [ok |-> FALSE]
Got(value, offset) == [ok |-> TRUE, value |-> value, offset |-> offset]

ReadUint8(data, offset) ==
  IF offset >= Len(data) THEN Throws ELSE Got(data[offset + 1], offset + 1)

ReadString8(data, offset) ==
  LET length == ReadUint8(data, offset)
      end == length.offset + length.value
  IN IF ~length.ok \/ end > Len(data) THEN Throws
     ELSE Got(SubSeq(data, length.offset + 1, end), end)

(* Writing: a size is cut to a byte, whatever it is (the opcodes and the   *)
(* statuses are small).                                                    *)
Size(n) == <<n % Byte>>
String8(text) == Size(Len(text)) \o text
UserStatusToByte ==
  [DISCONNECTED |-> 0, ACTIVO |-> 1, OCUPADO |-> 2, INACTIVO |-> 3]

SendError(code) == <<50, code>>
User8(u) == String8(Text[u]) \o <<UserStatusToByte[connections[u].status]>>

(* handle_list_users: the entries come in any order. *)
HandleListUsersConnected(order) ==  \* mutant: counts the connected ones only
  <<51>> \o Size(Len(SelectSeq(order, Connected)))
    \o FlattenSeq([i \in DOMAIN order |-> User8(order[i])])

HandleListUsers(order) ==
  <<51>> \o Size(Len(order))
    \o FlattenSeq([i \in DOMAIN order |-> User8(order[i])])

Named(text) == {u \in User : Text[u] = text /\ Registered(u)}

HandleGetUserInfo(name) ==
  IF Named(name) = {} THEN SendError(1)
  ELSE <<52>> \o User8(CHOOSE u \in Named(name) : TRUE)

(* handle_change_status: a status nobody knows, or another user's name. *)
HandleChangeStatus(sender, name, raw) ==
  IF name # Text[sender] \/ raw \notin 0..3 THEN [reply |-> SendError(2)]
  ELSE [set |-> CHOOSE s \in Status : UserStatusToByte[s] = raw]

(* handle_send_message. *)
HandleSendMessage(to, text) ==
  IF text = <<>> THEN [reply |-> SendError(3)] ELSE [send |-> <<to, text>>]

(* The frames of others: 53 joined, 54 changed its status, 55 a message.   *)
StatusFrame(opcode, u) == <<opcode>> \o User8(u)
Message8(m) == String8(m[1]) \o String8(m[2])
MessageFrame(m) == <<55>> \o Message8(m)

(* handle_get_history: no more messages than a byte can count. *)
HistoryFrame(messages) ==
  LET num_msgs == Min({Len(messages), Byte - 1})
  IN <<56>> \o Size(num_msgs)
       \o FlattenSeq([i \in 1..num_msgs |-> Message8(messages[i])])

(* The dispatch of on_message: what a frame of `sender` does, when the map  *)
(* of the entries is in this order.  An exception and an unknown opcode are *)
(* only logged.                                                            *)
Ignored == [reply |-> <<>>]
OnFrame(sender, data, order) ==
  LET opcode == ReadUint8(data, 0)
      name == ReadString8(data, opcode.offset)
      raw == ReadUint8(data, name.offset)
      text == ReadString8(data, name.offset)
  IN CASE ~opcode.ok -> Ignored
       [] opcode.ok /\ opcode.value = 1 -> [reply |-> HandleListUsers(order)]
       [] opcode.ok /\ opcode.value = 2 ->
            IF name.ok THEN [reply |-> HandleGetUserInfo(name.value)] ELSE Ignored
       [] opcode.ok /\ opcode.value = 3 ->
            IF name.ok /\ raw.ok
            THEN HandleChangeStatus(sender, name.value, raw.value) ELSE Ignored
       [] opcode.ok /\ opcode.value = 4 ->
            IF name.ok /\ text.ok
            THEN HandleSendMessage(name.value, text.value) ELSE Ignored
       [] opcode.ok /\ opcode.value = 5 ->
            IF name.ok THEN [history |-> name.value] ELSE Ignored
       [] opcode.ok /\ opcode.value \notin 1..5 -> Ignored

-----------------------------------------------------------------------------
(* What a client finds in a frame that announces how many items it has,   *)
(* each a string and what Rest reads behind it.                            *)
ItemsIn(frame, Rest(_, _)) ==
  LET read[i \in 0..frame[2]] ==
        IF i = 0 THEN [at |-> 2, items |-> <<>>]
        ELSE LET first == ReadString8(frame, read[i - 1].at)
                 second == Rest(frame, first.offset)
             IN [at |-> second.offset,
                 items |-> Append(read[i - 1].items, <<first.value, second.value>>)]
  IN read[frame[2]].items

Listed == {u \in User : Registered(u)}
TrueEntry(u) == <<Text[u], UserStatusToByte[connections[u].status]>>

(* The names on_message may look up for the frame of a connection now.     *)
Senders == {u \in User : \E c \in Conn : Sender(c) = u}

(* A client that reads a list by the size and the count it announces finds *)
(* true entries only, no name twice, and every connected user, as long as  *)
(* the number of entries fits a byte (with a multiple of 256 entries the   *)
(* list looks empty).  Whether it should find anybody else is not said     *)
(* here, but in OnlyConnectedListed.                                       *)
AskList == <<1>>
FoundInList(sender, order) == ItemsIn(OnFrame(sender, AskList, order).reply, ReadUint8)
ListTrue ==
  \A order \in SetToSeqs(Listed), sender \in Senders :
    LET found == FoundInList(sender, order)
    IN /\ \A i \in DOMAIN found : \E u \in Listed : found[i] = TrueEntry(u)
       /\ \A i, j \in DOMAIN found : found[i][1] = found[j][1] => i = j
       /\ Len(order) < Byte =>
            \A u \in User : Connected(u) =>
              \E i \in DOMAIN found : found[i] = TrueEntry(u)

(* What a user asks is what happens: the status of a name is replied, a    *)
(* change is made for the user's own name only, a message goes out as it is*)
(* and is never empty.                                                     *)
AskInfo(u) == <<2>> \o String8(Text[u])
AskChange(u, raw) == <<3>> \o String8(Text[u]) \o <<raw>>
AskSend(u, text) == <<4>> \o String8(Text[u]) \o String8(text)
AskHistory(u) == <<5>> \o String8(Text[u])
RepliesTrue ==
  \A u \in User, sender \in Senders :
    LET Does(data) == OnFrame(sender, data, SetToSeq(Listed))
    IN /\ Does(AskInfo(u)).reply =
            IF u \in Listed THEN StatusFrame(52, u) ELSE SendError(1)
       /\ \A s \in Status :
            Does(AskChange(u, UserStatusToByte[s])) =
              IF u = sender THEN [set |-> s] ELSE [reply |-> SendError(2)]
       /\ Does(AskSend(u, Text[sender])) = [send |-> <<Text[u], Text[sender]>>]
       /\ Does(AskSend(u, <<>>)) = [reply |-> SendError(3)]
       /\ Does(AskHistory(u)) = [history |-> Text[u]]

(* A frame cut short does nothing at all (read_uint8 and read_string_8     *)
(* throw before any change), however short.                                *)
Cut(frame) == {SubSeq(frame, 1, n) : n \in 0..(Len(frame) - 1)}
Truncated ==
  UNION {Cut(AskList) \cup Cut(AskInfo(u)) \cup Cut(AskChange(u, 1))
           \cup Cut(AskSend(u, Text[u])) \cup Cut(AskHistory(u)) : u \in User}
CutIgnored ==
  \A f \in Truncated, sender \in Senders :
    OnFrame(sender, f, SetToSeq(Listed)) = Ignored

(* A history reads back up to the message a byte can count to, and a       *)
(* notification as the message or the status it tells of.                  *)
Message == {Text[u] : u \in User} \X {Text[u] : u \in User}
MessagesTrue ==
  /\ \A n \in 0..Byte : \A messages \in [1..n -> Message] :
       ItemsIn(HistoryFrame(messages), ReadString8) =
         SubSeq(messages, 1, Min({n, Byte - 1}))
  /\ \A m \in Message : ReadString8(MessageFrame(m), 1).value = m[1]
NoticesTrue ==
  \A u \in Listed : \A opcode \in {53, 54} :
    LET frame == StatusFrame(opcode, u)
        name == ReadString8(frame, 1)
    IN <<name.value, ReadUint8(frame, name.offset).value>> = TrueEntry(u)

(* Frames mean to both ends what they say.  The lengths inside a frame and *)
(* the single byte that counts the users have to agree with the registry   *)
(* they are taken from, and the readers have to refuse what is cut short.  *)
FramesReadBack ==
  ListTrue /\ RepliesTrue /\ CutIgnored /\ MessagesTrue /\ NoticesTrue

-----------------------------------------------------------------------------
(* docs/api_reference.md:25 and :37: opcode 1 is answered with the list of *)
(* the connected users.  The reply lists every entry of the map, and those *)
(* of users who left stay there until the cleanup thread erases them.      *)
OnlyConnectedListed ==
  \A order \in SetToSeqs(Listed), c \in Conn : phase[c] = "open" =>
    LET found == FoundInList(Sender(c), order)
    IN \A i \in DOMAIN found : \E u \in User : Connected(u) /\ found[i] = TrueEntry(u)

=============================================================================
