# Verification of the chat server

The server (`src/src`, `src/include`) is a WebSocket chat in C++ on top of the
vendored Crow framework (`src/crow`). Users connect under a name, see who is
there and with which status, change their own status, and exchange messages in a
general chat (`~`) and in private chats, all in a binary protocol of five
requests (opcodes 1 to 5) and seven answers (50 to 56). Nothing is stored on disk
but a log.

This directory holds TLA+ modules that model the server and the part of Crow it
runs on, TLC configurations that check them on small instances, and TLAPS proofs
that hold for every instance.

    tlc -config MCRegistry.cfg MCRegistry       # and the other .cfg files
    tlapm RegistryProofs.tla                    # and the other ...Proofs modules

Names in the modules are those of the code. "Lines" below are lines of
`src/src/websocket_handler.cpp` unless another file is named.

## 1. The system

### Components

| Component | State | Operations |
|---|---|---|
| User registry | `connections`: name to `ConnectionData` (pointer to the Crow connection or null, status, last_active); `last_user_status`: name to the status it last left with | lookups and updates inside every handler, under `connections_mutex` |
| Sessions and presence | locals of the handlers; the static `monitor_started` | `on_open`, `on_close`, `on_message` with opcodes 1 (list), 2 (info), 3 (change status), `update_status`, notifications 53 and 54 |
| Inactivity monitor, cleanup | two detached threads; `users_to_notify` is local | a pass every few seconds over `connections`; mark INACTIVO after a minute, erase offline entries after five |
| Chat messages and history | `general_chat_history`, `chat_history` | opcode 4 (store, then deliver in a `std::async` task the handler waits for), opcode 5 (copy, then reply 56) |
| Binary protocol | none | `read_uint8`, `read_string_8`, the dispatch of `on_message`, the frames 50 to 56 |
| Logger | `logQueue`, `running`, `logFile` | `log` from any thread, `processLogs` in its own, `startLogging`, `stopLogging` |
| Locking | `connections_mutex`, `inactivity_mutex`, the logger's `queueMutex` | taken by all of the above, sometimes nested |
| Validation middleware | none | answers a plain `GET /` by the registry |
| Routes | a heap string per connection (`userdata`) | `onaccept`, `onopen`, `onmessage`, `onclose` |
| Crow websocket connection | socket, the frame being read, the message being collected, queue of frames, `close_connection_`, `has_sent_close_`, `has_recv_close_`, `is_close_handler_called_` | reads of a frame's parts, `handle_fragment`, writes, `close`, posted tasks, `check_destroy` |
| Crow HTTP server | queue lengths of the workers; per worker an `io_context` and a `task_timer`; per connection its socket and `task_id_` | accept, start, read, deadline, tick, stop |
| Crow request parser | parser state, mark, flags; url, headers and body being collected | `http_parser_execute`, the callbacks of `HTTPParser`, `query_string` |
| Crow routing and responses | rules, one trie for each method; the response object of a connection | adding, validating and merging rules, lookup, upgrade, the answers and their framing |

### How they interact

The accept loop gives every client to a worker thread, which reads and parses
its requests, finds a route for them as soon as the URL is complete, lets the
middleware look at a complete request, and answers it, or hands the socket over
to a websocket connection. An idle HTTP connection is closed by a deadline on
its worker's timer; a websocket connection has none.

Crow calls `on_open`, `on_message` and `on_close` of a connection on the io
thread of that connection: the callbacks of one connection never overlap, those
of different connections do. They meet in the global maps, under
`connections_mutex`, which no handler holds from beginning to end: every
handler is a sequence of short locked blocks that carries names, statuses and
decisions from one block to the next in local variables. The first `on_open`
starts the two background threads, which use the same maps. Frames are posted
to a connection, not sent, so posting does not block. A chat message is handed
to a thread of its own, which takes `connections_mutex` to deliver it, while the
handler waits. All of them queue log lines.

The registry holds raw pointers to connection objects that belong to Crow and
are deleted by `check_destroy` (`websocket.h:755`) after the close handler. That
function does not remember that it has called the handler, so `on_close` may run
more than once, and pending reads may call `on_message` after it. A connection
that `on_open` refused stays readable until the client has answered the close
frame: its frames reach `on_message` too.

### What is hard, and what correct means

* **Registry.** The code relies on agreement between Crow's objects and the
  map: no entry points at a deleted object, no two names share one, an accepted
  connection has its entry. A user without a connection is DISCONNECTED and its
  status is saved before the cleanup thread may erase it.
* **Presence.** Everything a handler remembers between two blocks can be stale
  when it is used (the sender's name, "this user is INACTIVO"); notifications
  are sent after the lock was let go; the background threads are started by an
  unsynchronised test of a flag. A client must change nobody's status but its
  own, no change may be silent, no client may be left with an untrue ACTIVO, and
  idle users must become INACTIVO.
* **Messages.** Storing, delivering and reading back are separate blocks of
  separate threads. Clients must see the messages in one order, private messages
  must reach only their two parties even though names are looked up again after
  the message was accepted, and a history must contain what was seen before.
* **Protocol.** Lengths and counts are one byte. What one end writes the other
  must read back, and a frame cut short must change nothing.
* **Logger.** A condition variable with a flag that is set outside the mutex.
  No line may be lost or reordered, and none may wait for ever.
* **Locks.** Mutexes taken inside one another, and a handler that waits for a
  thread which needs them: no deadlock, every handler returns.
* **Websocket connection.** Reads, writes, posted tasks and the two close frames
  end in any order. The object must not be deleted under an outstanding
  operation, nor live for ever; one write at a time; control frames come between
  the fragments of a message and go through the same buffer.
* **HTTP server.** Ids of deadlines start again when a timer is empty, while
  connections keep theirs; no deadline may act on a connection it was not set
  for, and idle clients must be closed. Workers must get equal shares.
* **Requests.** A read may end anywhere, several requests may come in one read,
  and one response object serves them all: each request must be handled once, as
  it was sent, and the client must be able to tell where an answer ends. Merging
  the tries must not change which rule is found.

`PROJECT.json` lists the hazards at their lines, with the properties that cover
them. Those that no property covers have a note that says why: for most of them
the code does the unwelcome thing and nothing it is written against forbids it
(lines dropped when the logger stops, a stored message nobody could be sent, the
text behind a close frame, a URL cut by a read).

## 2. The modules

    Registry <-- Presence <-- PresenceProofs   ConnectionLife <-- WsConnection <-- MCWsConnection
       ^  ^----- Messaging <-- MessagingProofs        ^
       |  ^----- Admission, Protocol <-- ProtocolProofs
       |  ^----- RegistryProofs ----------------------+

    AcceptLoop, TaskTimer <-- HttpServer <-- HttpProofs      Locks, Logger <-- LocksProofs

    QueryString, Routing, HttpParser, HttpResponse, RequestText <-- HttpExchange <-- HttpExchangeProofs

(An arrow points from a module to the one it extends or instantiates. Every
`MC...` module extends what it checks; `PresenceProofs`, `MessagingProofs` and
`ProtocolProofs` also extend `RegistryProofs`.)

`Registry` is the abstract specification of the chat: every block under
`connections_mutex` that changes the registry is one of its actions, in any
order. `Presence` and `Messaging` extend it with the control flow of the handlers
and use its actions as the effect of their blocks. Every property of `Registry`
carries over to `Presence` through the refinement `ImplementsRegistry`, which is
checked and proved.

`ConnectionLife` is the contract between the chat and Crow: what an object does
between its creation and its deletion. It is used from both sides.
`WsConnection` is proved to keep it (`LifeCorrect`), and `Registry` to give
`phase` no other life (`WithinContract`). That it allows for all of it can be read
off its guards: `Reject` and `Join` ask for a free object, `Close` for one that
is not free, `Destroy` for a closed one, as the contract does.

**Registry.** `connections[u]` is `Absent` or a record with the connection, the
status and `age`, the whole minutes between `last_active` and now. `phase` is
the life of each connection object: free, open (accepted), rejected, closed (the
close handler has run), free again. `Reject`/`Join` are the first block of
`on_open`, `Touch` that of `on_message`, `UpdateStatus` that of `update_status`,
`Close` that of `on_close`; `MarkInactive` and `Cleanup` are a whole pass of a
background thread; `Destroy` is `delete this`; `Minute` is time. `Join` restores
the status as lines 366 to 398 do: from the entry, else from
`last_user_status`, never DISCONNECTED. `Close` may happen again while the
object exists, as Crow allows. Connections are addresses: a freed one is used
again. uuid and ip_address are stored and never read, and are left out.

**Admission.** The middleware's answer and `on_open`'s test, as functions of the
same registry.

**Protocol.** A frame is a sequence of bytes, a name a sequence of bytes that
only need to be told apart (`Char`). `ReadUint8` and `ReadString8` throw where the code
throws; `OnFrame` is what `on_message` makes of a frame: a reply, a status to
set, a message to send, a history to read, or nothing.

**Presence.** A handler is its first block plus the queue `todo[c]` of the
blocks it still has to run; between two of them anything else may happen.
`OnOpen` leaves "check the monitors, notify 53"; `TestMonitorStarted` and
`StartThreads` are separate, so that several threads may pass the test.
`OnMessage` decides on the reactivation while it holds the lock and leaves the
call of `update_status` in `todo`; `RunUpdate` is the locked block of
`update_status` and leaves its notification. A monitor is named by the
connection whose `on_open` started it, and keeps `users_to_notify` in
`marked`. `told[c]` is what the client was last told of each name.

**Messaging.** The place of a handler of opcode 4 or 5 is its `job`. A message
is accepted (`OnChatMessage`), its sender reactivated if need be, it is stored
(`StoreBroadcast`, `StorePrivate`) or refused with error 4 (`RefusePrivate`); a
task is launched, delivers under the lock (`Deliver`) and the handler goes on
(`Resume`). The launch may fail (`std::async` throws): the message is then
stored and the handler ends. `CopyGeneral` is one block because the code holds
the lock; `CopyPrivate` ... `CopyDone` is an interval because it does not, and a
private message stored in the interval makes the copy undefined: it may be right
or `Torn`. The rest of the server is present as registry steps.

**Logger.** One action per critical section of `queueMutex`. The consumer's wait
is three places: it wants the lock, it holds it and has found nothing to do
("commit"), it sleeps. `stopLogging` acts without the mutex, so it can fall
between these. A wakeup without a reason is allowed.

**Locks.** Each thread is the sequence of locks, unlocks, spawns and joins of
its code, written with one operator per function of the code; branches that take
fewer locks are left out.

**WsConnection.** The object is a record and each member function an operator
from records to records, so that a completion handler is the composition of the
calls it makes, in its order. Beside the members it holds the asio operations
that are outstanding. The peer sends any frame, in pieces; other threads post
frames; the link may break at any time. `ReadHalfHeader` is the read that gets
one byte of a header although two were asked for. A unit of payload is "data" or
"control": its value is of no consequence, where it came from is.

**AcceptLoop, TaskTimer, HttpServer.** `AcceptLoop` chooses a worker for each
accept by the queue lengths. `TaskTimer` is a worker's timer as operators on a
record. `HttpServer` puts them together: each worker runs the handlers its
`io_context` queued, one after another, and each connection is accepting,
starting, reading or has its read completed. Two members decide what can go
wrong: `task_id_`, which a connection keeps when its task has run, and
`highest_id_`, which goes back to 0 when a timer has no tasks. The history
variable `robbed` holds the connections whose task another one cancelled.

**HttpParser, QueryString, Routing, HttpResponse, HttpExchange.** One connection
and the bytes sent over it, as a sequence of tokens: characters that mean
something to the parser, words that are compared as a whole, and words in parts
where a read can end inside them. `HttpParser` goes through them one by one,
state by state. `QueryString` finds a parameter. `Routing` adds rules to the
tries, merges them and looks a URL up; a trie is the sequence of its nodes, every
node behind its parent, and the children of a node are places in it, where the
code has vectors of nodes inside one another. `HttpResponse` is what a response object
keeps and what is sent of it. `HttpExchange` adds the reads and the callbacks
that involve the connection; every read may end behind any token. Its reference
definition, `Due`, says what each message of a conversation is to get from the
message itself, and never looks at the parser.

**RequestText.** What the callbacks of the parser promise: the strings of a
request (URL, the header being read, the headers, the body) are put together from
the tokens one by one, each token once and in order. There are no reads in it, no
marks and no `header_building_state`. `HttpExchange` maps to it (`TextNow`): a
string is what the callbacks have collected of it, followed by what this call has
read since the mark. A step that hands a string to a callback, or begins the next
read in the middle of one, must change nothing there.

Operators with the comment "mutant" are not used by the specifications: they are
the plausible mistakes with which each property was tried out, listed in
`PROJECT.json`.

## 3. What the runs show

| Run | Instance | Result |
|---|---|---|
| `registry` | 3 names, one of them `Desconocido`, 2 connections, a byte of 3 values | `OwnershipAgrees`. `OfflineIsDisconnected`. `ReturnsAsLeft`: from a departure to the return, what was saved is the last status, stays untouched, and is what the user comes back with, or ACTIVO if its entry is still there. `NoFalseRefusal`: the middleware turns away nobody whom `on_open` would take at that moment. `FramesReadBack`: in every registry, each frame reads back as what it was made from, and a frame cut short does nothing |
| `presence_blocks` | 2 names, one of them `Desconocido`, 2 connections, requests that reach every status | `PendingUpdateIsOwn`: the name a handler read is still the owner of the connection when it is used. `ReactivationStillNeeded`: between "is INACTIVO" and "set ACTIVO" nothing made the user something else. Both hold because callbacks of one connection do not overlap, and would fail if they did. `ViewsSettle`: which untrue statuses a client can be left with, see below |
| `presence` | 1 name, 2 connections, all requests | `ImplementsRegistry`, and under fairness `IdleIsMarked`, `OfflineForgotten` |
| `messaging` | 2 names, 2 connections, 2 messages | one order for all (`SameOrderForAll`), each sender's order kept, privacy, nothing delivered that is not stored |
| `history` | the same, 1 message, any number of history requests | `HistoryCoversSeen` |
| `logger` | 2 lines, 4 calls | `NothingLost`, `NoSleepOnWork`, and under fairness `QueueDrained` |
| `locks` | a handler, its task, monitor, cleanup, log consumer | `LockOrder`, `WaitsEmptyHanded`, no deadlock, and under fairness `HandlersReturn` |
| `ws` | one object, its address used again; frames and messages of up to 2 units, 2 frames posted or queued | `NothingLeftBehind`: no callback outlives the object and the name is freed. `WritesInOrder`: one write at a time, the 101 answer first. `MessageIntact`: control frames leave a fragmented message alone. `ImplementsLife`, and under fairness `GoneIsDeleted` |
| `http` | 2 workers, 3 objects, 5 accepts | `Balanced`: no worker is two connections ahead, and no unsigned length goes below zero; `DeadlinesOwned`: a deadline acts on the connection that set it last, as long as it reads; `RobbedByDeadlineless`: who loses its deadline to another connection loses it to one that has none; under fairness `OneIdleIsClosed` |
| `request` | every table of up to 3 rules out of 11; some 40 conversations with the server's own table, cut in every way | `RoutesAgree`: the merged tries find what the list of rules says. `HandledAsSent`: the handlers are shown what the client sent, and the connection is read on only if the last message did not ask to close it. `TextAsRead`: the strings of a request are collected as if there were no reads. `ResponsesFramed`: what is announced is what follows |

Deadlock is checked except in `logger` (the number of lines is bounded and a
stopped logger stops), `http` (the server may stop) and `request` (the
conversation ends).

### Disagreements between the code and its documents

Two runs check something the documents say of the program and find it violated;
the findings quote the sentence.

* `doc_list_connected`. The document calls the answer to opcode 1 the list of the
  connected users (`src/docs/api_reference.md:25` and `:37`). The code lists every
  entry, and a user who has left keeps its entry, as DISCONNECTED, until the
  cleanup thread erases it: two users come, one goes, and the other is sent a list
  with both. `src/tests/test_server.cpp:170` asks for the code's answer, a count
  of all entries. `FramesReadBack` takes no side: it asks that every connected
  user be listed, that what is listed be true, and that the count fit.
* `doc_history_intact` (a bug). The branch of `handle_get_history` for private
  chats looks up and copies without the mutex its writers hold: a data race.

Others have no run, because no interleaving is needed to see them:

* The tests assert frames with the opcodes 0x50 to 0x56
  (`src/tests/test_server.cpp:165`, `227`, `251`, `292`, `410`, `547`). The code
  sends 50 to 56 in decimal, with comments like "antes 0x51, ahora 51", and so say
  `src/README.md:97` to `103` and `src/docs/api_reference.md:36` to `42`. The
  models have the opcodes of the code; those assertions of the tests do not hold.
* `src/README.md:72` gives the address `/ws`. The application has a rule for `/`
  and the static directory; a request for `/ws` is answered 404.
* `src/tests/test_server.cpp:780` says that whoever comes back is ACTIVO. That
  holds while the offline entry exists, not after it was cleaned up: then the
  saved status is restored.
* The five minutes after which an offline entry goes are measured from the last
  activity and not from the departure.
* A connection that was refused or closed acts as "Desconocido", and nothing
  keeps a user from bearing that name: such a connection can write in the
  general chat before it is gone, and change the status of that user, also while
  the user is away. Where that matters the properties say `User \ {Desconocido}`:
  such a user is in the instances and in the theorems, and the others are not
  affected by it.
* A reply to opcode 5 holds the first 255 messages of a chat, so the newest ones
  of a longer chat cannot be read back (lines 316 to 321). The cut of a message
  to `MAX_MESSAGE_LENGTH` never happens: `read_string_8` returns no more. The
  number of users in frame 51 is one byte.
* A user that sets itself DISCONNECTED keeps its connection, so `on_open` refuses
  the name while the middleware admits it.
* If `std::async` cannot start a thread, a message is stored, nobody is sent it,
  and the log speaks of a frame that could not be parsed.

### What notifications leave behind

Notices 53 and 54 are sent after the lock of the change was let go, so two of them,
or one and a reply, may reach a client in the other order. `ViewsSettle` says what
can come of it. Once no handler of a connected user is running, another client
shows that user as it is, or not at all, or

* as DISCONNECTED, by the late 54 of its last session;
* with something else while one of the two, what is shown or what is true, is
  INACTIVO: the monitor's 54 has not been sent yet, or it came late.

It never shows an ACTIVO or OCUPADO that the user has changed since. The first two
are what the code does: a client may keep showing a connected user as gone, or an
active one as INACTIVO, until the next change. The document only promises that all
are informed. `AnnouncementCorrect` proves that they are: whoever changes a status
has the notice to send in the same step.

### What was found about Crow

The models hold what the code does, and the properties say what is true of it.
Where that is less than one would hope, the exception is part of the property:

* **Deadlines.** A connection that its deadline closed keeps its id until its
  aborted read is handled. If the timer was emptied meanwhile, the ids have
  started again, and cancelling takes the task of another connection with the
  same id. The one robbed still holds that id, has no task, and may do the same
  to a third. `OneIdleIsClosed` therefore excepts `robbed`. `task_timer.h` warns
  against using an id after its task. The chain of two needs five accepts on two
  workers, which is why the run has five.
* **Reads that hurt** (`Misread`). A read that ends inside a path has the part
  routed as if it were complete, and the query of that URL is not recognised; a
  second URL in one read keeps its query in its path; a read that ends behind the
  "h" of "h2c" makes an upgrade of it. `HandledAsSent` speaks of everything up to
  such a cut.
* **Closing.** `close_connection_` is overwritten by the next request of the same
  read. A static file that closes the connection closes its socket at once, and
  further requests of that read are dropped. An upgrade no rule takes gets no
  answer. A request of HTTP/0.9 with a method other than GET gets none either: the parser
  refuses it.
* **Headers.** An empty header is stored only in the last place, the last
  trailing header never. "Transfer-Encoding" is recognised when a name begins
  with it.
* **Answers.** Those to HEAD announce no body but send the text of an error or
  the file; a HEAD without Host leaves `skip_body` set for the next answer.
  `ResponsesFramed` excepts both. A redirect to the path with a slash wins over
  rules that match as well, because its index is the lowest.
* **Websocket.** A frame header read in two pieces counts as an empty unmasked
  frame. The comment in `check_destroy`, that a connection whose close handler was not
  called has neither received nor sent a close frame, is not true of one that
  `on_open` refused, which has sent one; `ConnectionLife` says what is. `conn.close` in
  `on_open` is dispatched at once while the error text before it is posted, so
  that the text goes out behind the close frame, or never.

### Bounds

* Names and connections: two names give every relation between a user and
  another one, and `Desconocido` the one that strangers act for. Two objects give
  a session and a refused competitor, or a session and its successor while the
  first object is still there. The runs with one name keep two connections, so
  that a session can follow another while its threads are being started. The
  proofs have no such bound.
* `InactiveAfter` and `EraseAfter` are 1 and 5 in the code. `age` stops at
  `EraseAfter`, beyond which no comparison changes. 1 and 2 keep the states
  "neither", "idle", "both"; the larger modules use 1 and 1, where both
  thresholds are reached together, because no property there is about the
  difference. Registry is proved for all values.
* `Byte` is 256 in the code and 3 in `registry`: three users overflow the count, two
  do not, and a history of three messages is cut to two.
* `Request` limits what clients ask. `Few` has chat messages, the change to
  OCUPADO and the change to an invalid status; the other statuses come about by
  joining, the monitor and chat messages. All requests are in `presence`. `Chatting` and `Reading` separate the
  messages from the history requests.
* `MaxMessages` bounds the chat messages, `HistoryCap` (255 in the code) a
  reply. Two messages are enough for an order; for `HistoryCoversSeen`, which
  speaks of one message at a time, one is enough, and the cap is not reached:
  the property says nothing of a full reply.
* `MaxLines` bounds the log.
* `MaxPayload`, `MaxMessage`, `MaxPosted` in `ws`: a message in two fragments
  with a control frame of the same size between them, and a frame posted while
  another is being written.
* `http`: three objects are two at a time on a worker and a successor at a used
  address. `MaxAccepts` is explained above. `MaxId` bounds the ids a timer
  gives out before no read is followed by another; two let a connection have an
  older id than its neighbour. `DeadlineTicks` is 5 in the code; 1 keeps "not
  yet", "may be late" and "due". `OneIdleIsClosed` is stated for one of three
  interchangeable objects. All of these are parameters of the proofs.
* `request`: three rules are two that share a beginning and one that continues
  them; URLs of up to four pieces reach behind every pattern. The conversations
  are one or two messages, chosen so that every state of the parser is entered
  and left in each of its ways; every cut of every conversation is tried.
* `SYMMETRY` permutes names (never `Desconocido`) and connections; it is not
  used in runs with liveness. `VIEW Settled` in `presence_blocks` keeps of `told`
  only who is shown as ACTIVO or OCUPADO to somebody else. No guard reads `told`,
  and `ViewsSettle` asks no more of it. `PresenceTypeOK` does read all of it, so
  for that conjunct the run looks at one state of each view only;
  `PresenceTypeCorrect` proves it without the view.
* One handler in `locks`: handlers differ from one another by nothing but
  their identity, and `LockOrder` is proved for any number of them.

### Fairness

* Handlers finish: a callback that has begun is run to its end by its io thread.
  Clients owe nothing: no fairness on `OnOpen`, `OnMessage`, `OnClose`, `Delete`
  of `Presence`, on the reads of `WsConnection` that need a peer, nor on
  `ReadCompletes` of `HttpServer`.
* The background threads are endless loops with a sleep: weak fairness on their
  passes. Time passes: weak fairness on `MinutePasses`.
* `Locks` assumes that whoever keeps asking for a mutex gets it in the end
  (strong fairness of `TakeLock`). `std::mutex` does not promise it; the common
  implementations make starvation improbable and the code cannot do without it.
* `Logger` assumes that the consumer is scheduled and that `setup_routes`
  starts it. It does not rely on spurious wakeups, which have no fairness.
* `WsConnection`: the io thread runs what is ready: a posted task, the deletion of
  an object (weak fairness of `RunPosted`, `Delete`). The rest is an assumption
  about the world: a read fails in the end when the link is down, so the
  operating system must notice, for Crow sends no ping of its own; and a write
  completes in the end, well or not, so a peer that is there must drain what it
  is sent (`ReadFails`, `WriteCompletes`). What had arrived before the link broke
  can still be read after it.
* `HttpServer`: a worker runs what is queued, and its timer expires (weak
  fairness of both, for each worker). Handlers are taken to return. One of them
  need not: `do_write_sync` (`http_connection.h:546-549`) is a blocking write, and
  a client that does not read its answer holds the worker in it, and with it the
  timer of all connections of that worker.

## 4. What is proved

`RegistryProofs`, for any sets of names and connections and any thresholds that
satisfy `RegistryAssumption`:

* `TypeCorrect`: `TypeOK` is inductive. It needs `JoinStatusType`, that the
  status a returning user gets is one.
* `OwnershipCorrect`: `TypeOK /\ OwnershipAgrees` is inductive. Four actions
  change no pointer and no phase (`SameOwnersAgree`); the work is in `Join`,
  where the connection was free, so no entry pointed at it, and in `Close`,
  where it had at most one entry.
* `OfflineCorrect`: `TypeOK /\ OfflineIsDisconnected` is inductive. The delicate
  step is `UpdateStatus`: it sets the status of `Sender(c)`, which is connected
  (`SenderIsConnected`) unless it is Desconocido, the one name the property
  excepts.
* `DepartureCorrect`: `ReturnsAsLeft`, step by step under the same invariant
  (`ReturnStep`): only `Close` takes a connection away, and saves; nothing else
  writes `last_user_status`; only `Join` gives one, and by `OfflineIsDisconnected`
  an entry that is taken over was DISCONNECTED.
* `AdmissionCorrect`: `NoFalseRefusal` is a consequence of `OfflineIsDisconnected`:
  a status other than DISCONNECTED means a connection.
* `WithinContract`: every step of the registry is one of `ConnectionLife`, or
  leaves `phase` alone.

`PresenceProofs`, for any names, connections, thresholds and requests. The
invariant `PresInv` adds to the registry's that a connection with a running
handler has its object (`Busy`): it is not opened, closed or deleted meanwhile,
so the entry it owns stays the same (`OwnersKept`). A handler only takes steps
off its queue or adds notifications (`HandlerQueue`); what it updates was decided
in `on_message` (`UpdatesStep`).

* `PresenceTypeCorrect`, and `UpdatesCorrect`: a client changes nobody's status
  but its own, whatever happened since its name was looked up.
* `RefinementCorrect`: every step of a handler or thread is a registry step or
  changes nothing there. All theorems about `Registry` hold of `Presence` too.
* `ReactivationCorrect` needs that a reactivation is the first thing its handler
  does (`ReactivatesFirst`): after it, the user is no longer INACTIVO. Between the
  two only an update of another connection could touch the entry, and that is of
  the name it owns, or of Desconocido, which the property excepts
  (`UpdateElsewhere`).
* `AnnouncementCorrect`: the step that changes a status queues the notification
  (or, in the monitor, marks the user), action by action.
* `ViewsCorrect`: `ViewsSettle`. The invariant `ViewsInv` adds to `PresInv` that
  a handler that still has an update to run has nothing else in its queue
  (`UpdatesAlone`); that a notice on its way is of a departure, or of a user its
  handler's connection owns and who has the status it tells of, or has become
  INACTIVO since (`NoticesFresh`; the monitor takes no turn in the handler's
  queue); that a connection that is not open has been told nothing
  (`NobodyToldEarly`); and that where a client's view of a connected user is not
  true yet, a notice of the present status is in that user's own handler
  (`ViewsKept`).

`MessagingProofs`, for any names, connections, messages, requests and any length
of a history reply. The invariant `MsgBase` says that a connection with a running
handler keeps its object (`Busy`) and that the name its handler read at the
beginning is its sender still (`Authors`), whatever blocks of other handlers run
in between.

* `MessagingTypeCorrect` and `MessagingRefines`: each handler waits for a thread
  of its own; what a handler does to the registry is a registry step.
* `PrivacyCorrect`: what is sent depends on who owns which name when it is sent,
  and `OwnershipAgrees` makes that the two parties.
* `StoredCorrect` needs `TasksStored`: the message of a delivery thread is in the
  history, also when the handler that stored it has ended, and no history loses
  a message.
* `OrderCorrect` and `SenderOrderCorrect` need `Unseen`: a message on its way has
  a number no other has, and nobody has seen it. `SeenIsOlder` adds that what is
  seen of its author is older. That is so because a user has one connection;
  `SenderOrderKept` excepts the name Desconocido, under which all connections
  without an entry send.
* `HistoryCorrect` needs `RequestKept`: what a handler has copied covers what its
  client had been sent when it asked.

`LocksProofs`, for any number of handlers, each with its task (the run has one).
The programs are judged piece by piece: `Orderly(p, H, K)` says that `p`, begun
with the mutexes `H`, takes them in order, starts and awaits tasks with none, and
ends with `K`. `Composed` and `WithinOrderly` are the rules for one piece after
the other and one inside a mutex; `ProgramsOrderly` applies them to the code of
every thread. The invariant `LocksInv` is that what each thread has still to do
is orderly from what it holds to nothing (`AllOrderly`), and that a task runs
only while its handler waits for it (`TaskAwaited`).

* `LockOrderCorrect` and `EmptyHandedCorrect` say of the next operation of every
  thread what `AllOrderly` says of the rest.

The same module, of `Logger`, for any lines and any `MaxLines`:

* `LoggerTypeCorrect`: the type invariant.
* `NothingLostCorrect`: with the type invariant, `logged = file \o logQueue` is
  inductive, by associativity of concatenation.
* `NoSleepCorrect`: `NoSleepOnWork` is inductive, because a line can be queued
  only while the mutex is free, and then wakes a sleeper.

`ProtocolProofs`, for any names and texts, any size of a byte and any registry
that can be reached. A frame is a sequence of parts laid one behind another
(`Laid`, `Holds`); a reader that looks where a part begins finds it and the offset
behind it (`ReadText`, `ReadByte`), and one that looks at what is left of a cut
frame throws. The frames with a count are recursive functions of their items on
both sides, `FlattenSeq` where they are written and `ItemsIn` where they are read.
A recursive function in TLA+ is a CHOOSE, so the proofs give a solution
(`FlattenExists`, `ItemsByte`, `ItemsText`) and show by induction on the number of
items that the function is that one (`SetInduction`, `SameSteps`). The induction is
over a set, not a predicate: the library's theorem cannot be instantiated, so it is
drawn from the well-foundedness of `<`.

* `FramesCorrect`: `FramesReadBack` in every state. It needs one invariant,
  `ListedFinite`: `User` may be infinite, and without a number of entries there is
  no order in which they could be listed. The registry begins empty, and a step
  adds one entry at most.

`HttpProofs`, for any number of workers, connections, ids, accepts and ticks:

* `DeadlinesCorrect` and `RobberyCorrect`. Neither is inductive: a handler acts
  on the object its queue entry names, whatever that object has become. The
  invariant `HttpInv` adds that a queued handler finds its connection where it
  was when it was queued and that no connection has two (`Queued`), that at most
  one object is accepting and that an object has no id before its first deadline
  (`Placed`), that ids in a timer are distinct and no larger than `highest`
  (`Numbered`), and that an occupied object without a task is closed or robbed
  (`Guarded`). The proof has one lemma per action. Where a handler runs, all
  that matters is which object moves and what becomes of one timer
  (`HandlerRuns`, `AwaitKeeps`, `EndKeeps`); a tick takes the due tasks, and
  the reads it aborts are queued in the order of distinct ids, one for each
  owner (`OneTask`, `AbortedQueue`). `RobberyCorrect` then follows from
  `Numbered` and `DeadlinesOwned`: a victim's task has the id of the robber, so
  the robber has none itself, and by `Guarded` it is closed or robbed.
* `BalancedCorrect`, of the accept loop: the invariant adds that the accept that
  is prepared was counted for the shortest queue, so that its failure takes back
  what it added and the length was not zero. `AcceptRefined`: every step of the server is one of the accept
  loop or leaves it alone, so that the workers of the server are balanced too.
* `HttpTypeCorrect`: beside `HttpInv` the type needs `Aged`, that no task is older
  than `DeadlineTicks`. A tick takes the tasks of that age before the others get
  older.

`WsProofs`, for frames, messages and backlogs of any length. A completion handler
is a composition of member functions, so there is a lemma for each of them: it
takes a usable object to a sound one and keeps what is not its business (`Kept`,
`Stays`). An object is `Sound` when nothing is outstanding on it once it is being
deleted, a close handler that was recorded has run (`Steady`), and no queued
frame waits without a write (`NoneWaits`). `Intact` relates the message and the
fragment to the frames received: a fragment is empty outside a payload, and what
a header announced still fits.

* `WsTypeCorrect`, `NothingLeftCorrect`, `WritesCorrect` and `MessageCorrect`
  follow from the invariant `WsInv`, which has one lemma per action.
* `LifeCorrect`: a step opens or refuses an object that is free, deletes one
  whose close handler has run, or leaves it what it was but perhaps closed
  (`Lives`).

`HttpExchangeProofs`, for any table of routes, any conversation, any cuts and any
files:

* `AnswersFramed`: `ResponsesFramed` in every state. One response object serves all
  requests, so the invariant `FramedInv` says what it is between two answers: it is
  as new (`Clean`), but that `skip_body` may be set for a HEAD from the end of its
  URL to the end of the request; or a HEAD was refused with 400, which leaves
  `skip_body` set and which `ResponsesFramed` excuses (`Excused`); or nothing is
  answered any more (`Quiet`: the parser has stopped, the connection is being closed
  or is a websocket's). It needs of the parser that the method stays what it is
  behind the method (`ParserKeeps`, one case for each of its 25 actions), that a
  marked URL is being read (`MarkFits`), and that a request is an upgrade only if
  the parser ends the call behind it (`UpgradeFits`).
* `RulesFound`: `RoutesAgree` in every state. Nothing but `Validate` touches a trie,
  so the argument is about what it computes, and goes through the meaning of a trie
  for a URL: the answers of the nodes that end a rule where the URL ends (`Means`).
  Adding a rule to a place that was free adds what its pattern says of the URL and
  nothing else (`AddMeans`): as long as the pattern is in the trie the walk changes
  nothing, and from then on it is at a new node (`Walked`). `find()` gives the
  lowest of these answers (`FindIsLowest`, by induction from the last node to the
  first, and from a node up to its parents). Merging a chain changes no answer
  (`OptimizeKeeps`): the keys of the chain begin with no parameter, and one behind
  the other they take what they take together (`ComesBoth`). Indexes grow in the
  order the rules were added (`IndexOrder`), so the lowest answer is the first
  rule's, and a redirect's is lower than any (`LowestIsFirst`). That a rule is never
  added where one ends already is the check of `Validate`, without which the
  theorem fails.
* `TextCollected`: the exchange implements `RequestText`, whatever the client sends
  and wherever the reads cut it (`ExchangeAssumption`: messages are put together of
  tokens). The invariant `TextInv` (theorem `MarksFit`) says what the strings rest
  on: a mark stands where its string is being read, and only there (`Marking`);
  `header_building_state` is 1 from the first part of a name to the first part of
  its value, so that a part is added where a string was cut and a new string begun
  where it was not (`Building`); a value goes on behind a line break only if a blank
  is there (`Folding`); a body has tokens left to read (`Counting`); and between two
  calls nothing is marked and all has been read, unless the call returned early, and
  then it is the last or its request was answered (`Called`). Each of the 25 actions
  of the parser, and each of the connection's, is a step of `RequestText` or changes
  nothing in it: those that collect nothing by one argument (`Plain`, with a lemma
  for the tables of `Step`), those that set or carry a mark by another (`Gathers`,
  `GatheredGrows`), those that hand a string over by a third (`Flushes`), and the
  body, which is taken many tokens at a time, by a fourth (`Takes`). That a request
  which ends the call ends the text too needs `UpgradeFits` of `FramedInv`.
* `TextShown`: when a request is complete nothing is pending, so that the URL, the
  headers and the body a handler is shown are all of the text.

Only model-checked: the liveness properties, whose specifications state fairness
(the prover has no ENABLED), and `HandledAsSent` of `HttpExchange`. Of it,
`TextCollected` proves what does not depend on the messages: no cut loses,
duplicates or moves a token. What is left to the run is that the text, taken apart
again, is the messages the client put together, by recursion over the bytes, for
messages that are well formed; and the path, which the code computes from `qs_point`
at every cut and gets wrong at some (`Misread`).

## 5. What is not modelled

* `Messaging` takes the key of a private chat for the pair of names. With a bar
  in a name two pairs can share a key.
* A write to an object while it is being destroyed by another thread: posting
  happens under `connections_mutex` to objects in the registry, which
  `OwnershipAgrees` covers; what becomes of the posted frame is in
  `WsConnection` (`RunPosted`, the weak pointer).
* Of the websocket connection: masking, the handshake hash, the subprotocol, the
  encoding of a header that is sent, status codes, and the limit on a payload,
  which this server leaves at its largest value.
* Of the HTTP server: TLS, the tick function and `wait_for_start`, which this
  server does not use, the cached date, and answers that are completed after
  their handler has returned (no handler does).
* Of the parser: CONNECT and methods no rule has, the digits of versions, the
  limit on the size of headers, the overflow of a length, and `http_parser_url`
  functions nobody calls.
* Of routing and responses: blueprints, catch-all rules, parameters other than
  int, string and path, headers that say nothing of the body, bodies of a
  megabyte and more, compression.
* JSON, templates, multipart, cookies, sessions, CORS: vendored and never called
  by this server. Socket adaptors, SHA-1, base64 and tables of names keep no
  state.
* `main.cpp`, `utils.hpp`, build files and scripts; the text of log lines; the
  tests, which are sequential and were read for what they state.

## 6. What could come next

In the order of what it would add: names with a bar in them, so that two private
chats share a key; answers that are completed later, should a handler come to
need them; the URL and header limits of the parser.
