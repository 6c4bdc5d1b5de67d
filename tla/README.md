# Verification of the Pike messenger

Pike is an XMPP messenger: a C++ client library (`src/Components/messenger`) on
top of libstrophe (`src/External/libstrophe`), and a relay server on Node
(`src/Server/app.js`). This directory holds TLA+ models of both, TLC
configurations that check them on small instances, and TLAPS proofs of what
matters most for instances of any size.

    tlc -config PikeServer.cfg MCPikeServer        # one run
    tlapm PikeServerProofs.tla                     # one module of proofs

`PROJECT.json` maps every definition that models code to the lines it models,
and lists the runs, theorems, findings and hazards.

## 1. The system

| Component | Source | State | Operations | Works with |
|---|---|---|---|---|
| Relay server | `Server/app.js` | the HashMap `clients`: bare JID → client, offline messages, public key; one object per connection | the handlers connect, authenticate, online, stanza (message, key, active users), disconnect | clients over XMPP; node-xmpp-server calls it back |
| Session | `messenger_impl.cpp` | `m_context`, `m_connection`, `m_runLoop`, `m_loginParams` | Login, Disconnect, ConnectionHandler, destructor | run loop, operation queue |
| Operation queue | `detail/operation_queue.cpp` | list of functions, thread, `m_isRunning`, two mutexes, one condition | AddOperation, ProcessingThread, StopProcessing | filled by the run loop with Disconnect and error callbacks |
| Messaging | `messenger_impl.cpp`, `xmpp/*` | the set of observers and its mutex | SendMessage, SendMessageSeen, (Un)RegisterObserver, MessageHandler, the two Notify functions | application and run loop; the send queue |
| Active users | `messenger_impl.cpp`, `callbacks.h`, `xmpp_stanza_parser.cpp` | the callback of each request | RequestActiveUsers, its branch of MessageHandler | id handlers of libstrophe |
| Event loop | `libstrophe/src/event.c` | status of the loop, list of connections | xmpp_run, xmpp_run_once, xmpp_stop | runs in the thread Login starts; calls all handlers |
| Connection | `libstrophe/src/conn.c` | state, send queue, reference count, handlers | connect, disconnect, release, xmpp_send_raw | the loop, the messenger's threads |
| Handlers | `libstrophe/src/handler.c` | stanza, id and timed handler lists | add, delete, fire | the loop; RequestActiveUsers from the application |
| Login protocol | `libstrophe/src/auth.c` | handlers and timers of each step | features, SASL, bind, session and their timeouts | handlers, connection |
| Stanzas | `xmpp_stanza_builder.cpp`, `xmpp_stanza_parser.cpp`, `detail/base64.cpp` | none | build and parse | messaging |
| Test program, project files | `test/main.cpp`, `projects/` | — | callers and builds of the library | not modelled |
| Vendored code | libstrophe's XML, SASL digests, sockets, TLS; expat; OpenSSL | — | — | not modelled |

What is hard:

- **Three threads and hardly a lock.** The application, the run loop and the
  thread of the operation queue all use the members of `MessengerImpl`, the
  `xmpp_ctx_t` and the `xmpp_conn_t`. Only the observers and the two halves of
  the operation queue have a mutex.
- **Waiting.** The operation queue waits under another mutex than the one its
  list is tested under; Disconnect and two destructors join threads.
- **Life cycles.** A login can fail, succeed, or succeed and break; each has
  callbacks, teardown, and an application that may log in again at any point.
- **Sessions seen from both ends.** The relay takes a client for connected from
  `authenticate` on, libstrophe takes itself for connected once the session
  request is answered, and each learns on its own when a connection is gone.
- **Replies and timers.** Each step of the login waits for a reply, some with a
  timer; a reply may come late, and handlers change the lists that are walked.
- **Event order at the server.** One event at a time, but `authenticate` and
  `online` are two events with anything in between, and a disconnect of one
  connection touches the entry of its user.
- **Partial writes** of the send queue, and its use from two threads.

What makes each component correct:

- *Relay*: one session per user, whose table entry points at its live
  connection; a message reaches its addressee at most once, is stored if he is
  offline, flushed when he comes online, in order; keys survive reconnections.
- *Operation queue*: each operation runs once, in order, one at a time; none
  after the destructor; no call waits forever.
- *Session*: one result per login, reported once the session is gone; Disconnect
  comes back; no thread object overwritten, no null or freed pointer followed.
- *Send queue*: what is written is what was sent, in order, byte for byte.
- *Messaging*: messages are told once and in order, Delivered before Seen;
  an unregistered observer is never called; every message is answered.
- *Active users*: each request is answered once, with the list as it was when the
  relay read the request, keys byte by byte; nothing freed is used.
- *Login*: a success first or never, and the end whenever it comes; the strongest mechanism
  first; timers go with their waits; a login given up stays so; every login ends.
- *Delivery*: a message is told to its addressee once at most and confirmed only if
  told; it is lost only for a known reason; a connected client is reachable.

## 2. The modules

| Module | Models | Extended by |
|---|---|---|
| `PikeServer` | all of `app.js` | `MCPikeServer`, `PikeServerProofs` |
| `StoreAndForward` | what the relay promises about messages; refined by `PikeServer` | |
| `OperationQueue` | `operation_queue.cpp` | `MCOperationQueue`, `OperationQueueProofs` |
| `FifoExecutor` | a serial first-in first-out executor; refined by `OperationQueue` | |
| `ClientSession` | Login, Disconnect, ConnectionHandler, the loop; **composed with `OperationQueue`** (its worker runs the operations the session queues) | `MCClientSession`, `ClientSessionProofs` |
| `SendQueue` | `xmpp_send_raw` and the write part of `xmpp_run_once`, pointer by pointer | `MCSendQueue`, `SendQueueProofs` |
| `Messaging` | SendMessage to the observers at both ends, two threads per client | `MCMessaging`, `MessagingProofs` |
| `Broadcast` | an atomic broadcast to whoever is registered; refined by `Messaging` | |
| `ActiveUsers` | RequestActiveUsers, its answer, and the list of id handlers in the hash table, pointer by pointer | `MCActiveUsers`, `ActiveUsersProofs` |
| `Base64` | `base64.cpp`, and the definition it is checked against; used by `ActiveUsers` | `ActiveUsersProofs` |
| `Authentication` | the login of `auth.c` with the timers of `handler.c` and the states of `conn.c`, against a server | `MCAuthentication`, `AuthenticationProofs` |
| `Delivery` | messages end to end: **`PikeServer` composed** with clients that come and go | `MCDelivery`, `DeliveryProofs` |
| `Mail` | what users may rely on; refined by `Delivery` | |

A definition marked as a variant carries a plausible bug of the code. No
specification uses it: it stands in for the real one to see a property fail.

### PikeServer

Node runs one handler at a time, so **a handler is an action**: `OnConnection`,
`OnAuthenticate`, `OnOnline` (which flushes the mailbox through
`handleMessage`), `OnMessage`, `OnPublicKey`, `OnActiveUsers`, `OnDisconnect`.
The HashMap is a variable per field (`client`, `messages`, `key`) and the set
`known` of its keys. A message is its number in the order in which the server
handled it; `handled` keeps the addressees. Its body is never read by the server
and is left out; other stanzas (statuses) take the same path.

Assumed of node-xmpp-server, which is not in the repository, from the way
`app.js` uses it: it sets `client.jid` only when authentication succeeds;
`cb(false)` refuses, after which the client may try again or close; `online` is
raised once, after a successful `authenticate`; stanzas come only from a
connection that has a jid, with a `from` that is its own; `disconnect` is raised
once per connection, whatever state it is in.

### OperationQueue

An action is a critical section or one access to the atomic flag: `StartProcessing`,
`Push`, `Notify` of the caller; `CheckRunning`, `Take`, `Run`, `Wait` and
`SpuriousWake` of ProcessingThread; `StopProcessing` and `Join` of the owner.
`Wait` is the step that locks `m_newOperationMutex`: between `Take` finding
nothing and `Wait` the thread holds no mutex, as in the code. Calls of
AddOperation come from one thread (the run loop) and the owner destroys the
queue when none is in progress; `ClientSession` shows what happens when one is.

### ClientSession

The thread of the application calls Login, Disconnect and the destructor; the
loop's thread goes through `xmpp_run`, its connection is established, refused or
lost, and it calls ConnectionHandler; the worker is that of `OperationQueue`, and its
operations are Disconnect and the error callback. An action ends before the next
access another thread can interfere with: a test of a pointer and its
dereference are two steps, and so are the test and the store of the loop's
status (`event.c:90-91`). The n-th Login makes the n-th context and connection.

The process may end in two ways: `"freed"`, the use of freed memory, is a
possible outcome wherever the loop or another thread uses an object that has
been released (undefined behaviour: the step may also go on unharmed); `"fatal"` is what the
language guarantees to end the process, an exception of `std::thread` without a
handler, a null pointer, a destroyed object.

Simplifications: the login protocol is one step from connecting to connected (or
to an error); the end is told once (the second time, which `Authentication` has,
`m_loginParams` is gone and one more Disconnect is queued, which may come late as the first
may: the hazard at `messenger_impl.cpp:196`); the send queue is `closing`, whether `</stream:stream>` is in it;
an application callback that calls Disconnect from the loop's own thread (a join
of itself) is left out; `overlap` remembers that the application called Login,
Disconnect or the destructor while the worker tore a session down.

### SendQueue

An action is one access to the list: `SetHead`, `Link` and `SetTail` of
`xmpp_send_raw`; `WriteAll`, `WritePart`, `WriteFails`, `Pop` and `ClearTail` of
the loop. A byte is the number of its item. The history variable `overlap`
remembers that a call began while the other thread was in one, so that
properties of the sequential algorithm are stated as "unless `overlap`".

### Messaging

Each client has the thread of the application and the loop. `SendMessage` sends
and then tells the observers Sending; `Receive` is MessageHandler up to
`xmpp_send` of the acknowledgement; `EndSend` is its return; `Lock`,
`CallObserver`, `Unlock` are the two Notify functions. An observer may call
SendMessageSeen from its callback (`CallbackSeen`). One that calls SendMessage,
RegisterObserver or UnregisterObserver locks a mutex that its thread holds
already, which has no defined outcome and in practice blocks: `CallbackLocks`
makes the thread stuck (a stanza it may have sent before is left out).

The relay is one first-in first-out queue `net` per client, what `PikeServer`
does for users that are online; `Bounce` is a server that answers with an error
stanza, which MessageHandler has a branch for. The send queue is a sequence.
When two uses of it overlap (`raced`) an append may drop the
item, or all the items before it, from then on: a coarse form of what `SendQueue` shows in
detail. The properties that fail then say so.

### ActiveUsers and Base64

RequestActiveUsers is called by the application's thread and, from a callback, by
the run loop's. It puts its callback into the list of id handlers of one id and
sends a request; the answer makes the loop walk that list, and MessageHandler
calls the callback and deletes its own handler from the list being walked. The
list hangs on a hash table that is not locked. **Each call of `hash_get`,
`hash_drop` and `hash_add`, and each use of the item one of them returned, is a
step** of the thread that makes it (`Request`, `Compare`, `Link`, `AppendItem`,
`Send`; `Receive`, `Fire`, `Return`, `Drop`, `Add`); the inside of a `hash_*`
function is not split further. `contended` remembers the requests that met
another one, or an answer, while they were being made. The list of users is
looked at through one user, who is written to (`SignUp`) or publishes a key
(`Publish`), as Base64 text.

`Base64` has a character as its position in the alphabet and the masks and
shifts as divisions and remainders. Decode's treatment of the last group is
kept: what is missing is looked up too and not found (255).

### Authentication

One login from `xmpp_connect_client` to its success or the end of the
connection. The connection is one record `conn` (state, handlers, id handlers,
timers, mechanisms left, what it has sent, what the messenger was told) and the
functions of `auth.c` are operators from one record to the next (`Authenticate`
is `_auth`, `HandleSasl`, `HandleFeaturesSasl`, `HandleReply`, ...), composed as
the calls are. The steps are those of the loop: `Connect`, `Read`, `Parse` (one item of what was
read), `Call` (one handler called for it), `Fire` (a timer), `TearDown`, `Break`. `handler.c` ignores
handlers added while a stanza is handled until the next one, and so does `Call`; it takes a
handler off the list only when it has returned, so that one that adds itself again adds
nothing. A handler without a name is also called by the namespace of a child
(`handler.c:97-98`): `Waiting` gives features with `<starttls>` or `<mechanisms>` to a
handler of TLS or SASL that is still pending, which drops them or ends the stream.
TLS is taken to be either available or not (`tls_new`). The order in which
the handlers of one stanza are called is left open.

A read may end in what is no XML (`malformed`), at any time and also behind the end of
the stream. The parser then returns an error and the loop closes the connection
(`ParseFails`), once more if an item before it has done so (`event.c:295-300`).
The messenger hears of each closing: of two at most after a success, of three without one
(a bad opening tag, the end, what is no XML).

The server is external: it may answer a request with anything the protocol
allows, late or never. It does not answer what it was not
asked and does not accept a client twice.

### Delivery

A connection has a queue each way: `up`, written by the client and read by the
relay, and `wire`, that of `PikeServer`, of which the client has read `got`.
Every handler of the relay is one of `PikeServer`'s actions, conjoined with what
it reads; a login is `Login`, `ReadAuth`, `Succeed` or `Refused`,
`ReadSession`, `Established`. node-xmpp-server raises `online` for the resource
or for the session, so `Online` may come before or after the answer to the
session request. The stanzas before that answer are on the wire but are given to
no handler of the messenger, which `handler_fire_stanza` calls only once
`conn->authenticated` is set: `Read` discards them.

`Cut` is a broken TCP connection; `ClientNotices` and `ServerNotices` are
independent of each other and may never happen. `Disconnect` sends the end of
the stream, or frees the connection with a part of its queue unwritten and
leaves the socket open, as `messenger_impl.cpp:82` does: the relay then keeps
a session that nobody uses, and refuses the user's next login.

A client has one connection at a time, and observers that acknowledge; its
threads, which `Messaging` and `ClientSession` are about, are one here. The
user of each connection is fixed by `Owner`.

## 3. The runs

| Run | Config | Shows |
|---|---|---|
| relay | `PikeServer.cfg` | sessions are unique; every message is at one place, that of its addressee, in mailbox order; keys survive and connected users are listed; the handlers implement `StoreAndForward`, so only the first contact with a user loses a message |
| relay_order | `PikeServerOrder.cfg` | *violation*: a message between `authenticate` and `online` overtakes the stored ones |
| queue | `OperationQueue.cfg` | the queue implements `FifoExecutor`; nothing runs after the destructor; a thread that is awake drains the queue and sees the stop flag, and a later call rescues an operation left behind |
| queue_lost_wakeup | `OperationQueueLost.cfg` | *violation*: an operation pushed between the test and the wait is never run |
| session | `ClientSession.cfg` | one result per login, errors reported after the teardown, a fatal end only if the application calls during a teardown, the loop runs the context Disconnect stops, a stop that is not lost ends the loop |
| session_stop_lost | `ClientSessionStop.cfg` | *violation*: `xmpp_stop` before or inside the first steps of the loop is overwritten, and Disconnect waits forever |
| send_queue | `SendQueue.cfg` | without overlapping calls the stream is intact, the list well formed and no freed memory used; even with them no byte is sent twice |
| send_queue_race | `SendQueueLost.cfg` | *violation*: two threads that append at once lose an item |
| messaging | `Messaging.cfg` | messages told in order and once, Delivered before Seen, nobody told once unregistered, the locking protocol implements `Broadcast`, every message answered |
| login | `Authentication.cfg` | a success is told first or never, and the end whenever it comes; mechanisms in the order of their strength, each with one handler; timers match waits; what is given up does not succeed; waits with a timer end whatever the server does, the others if it answers |
| active_users | `ActiveUsers.cfg` | each callback is called once at most, with the key last published; a request that meets no other and no answer is answered, by a list no older than itself and without touching freed memory |
| delivery | `Delivery.cfg` | implements `Mail`; every loss has one of four causes; a connected client is reachable; a login is refused only for the user's own earlier connection; what was stored is told when its addressee is there |

`MCActiveUsers` also has TLC evaluate that `Encode` gives what RFC 4648 defines, on all
byte strings of up to four bytes out of five; that `Decode` reads it is a theorem.

Three more things the runs showed on the way, each now a stated limit of a property
that passes:

- The first message to a user the table does not know creates the entry and is
  discarded (`app.js:120`), although `TestOfflineMessages` expects both of its
  messages: the losing branch of `StoreAndForward`'s `Submit`, `fresh` in `Delivery`.
- `StopProcessing` joins without waking a thread that waits
  (`operation_queue.cpp:46`): `AwakeWorkerServes` promises the destructor's return
  only if the thread is awake.
- When the features time out, the comment at `auth.c:208` expects the legacy
  protocol, but `_auth` goes on with what an earlier stream of the same
  connection announced; features that come late start a second login beside
  the first, and end the stream if a handler of SASL is still pending
  (`handler.c:98`). `TriedInOrder` and `GivesUpForGood` except late answers.

### Bounds

- *relay*: 2 users, 3 connections, 1 key, 3 messages. Three connections are a live one, a
  refused duplicate and a later reconnection; three messages are one dropped, one stored
  and one relayed or overtaking. Handlers compare users and connections only
  for equality, so both are symmetric (no liveness is checked under symmetry).
  The violation needs two connections.
- *queue*: 4 operations of 2 different functions (the same one may be added
  twice); the violation needs two. Each race is between one push and one wait;
  a further one only repeats it.
- *session*: 2 logins: an old session being torn down while a new one starts.
  The violation needs one.
- *send queue*: 4 items of 2 bytes: a list that is emptied and grows again, with a
  write ending inside an item. The race needs 3 items of 1 byte.
- *messaging*: one client sends two messages, the other changes its observers
  twice, of two. Two messages are in flight at once, the receiver
  acknowledges one while the application reads the other, and one of two
  observers is unregistered while the other is called. Clients differ only in
  these bounds, so each direction is covered by the other's role.
- *login*: five sets of mechanisms (none, one, two, two with that of guests, and one
  the client does not know), a
  secured stream or not, two responses to challenges. A login sends each request
  once, so its length is bounded by the code; two challenges are one more
  than SCRAM or DIGEST-MD5 asks for.
- *active users*: three requests and one change of the user. Two requests make a
  race or a leftover answer, the third gets the latter; keys of one to four bytes are every last
  group of Base64 and a whole one.
- *delivery*: two users, three connections (two of one user: the one that is lost,
  and the next), one message and its acknowledgement. One message is
  enough to be stored, lost, discarded or told twice; the order of several is
  the subject of `PikeServer` and `Messaging`. The public keys and the list
  of users are left to the other runs.

Deadlock is not checked: each of these systems may stop, when its bound is reached, when the
application calls nothing more, when the queue is destroyed, or in a crash that
is modelled. That nothing stops that should go on is what the liveness properties say.

### Fairness

- A thread that can take a step eventually does (weak fairness on each step of a
  thread): the operating system schedules threads. `Lock` is weakly fair, since
  a holder always releases or is stuck, and no thread takes the mutex infinitely
  often within the bounds.
- In `Messaging` the network delivers (`Flush`, `Receive`): TCP while connected.
  In `ClientSession` it need not, and no event of it is fair.
- Never fair: any call of the application, spurious wakeups, errors, the
  callbacks that lock, new logins, broken connections.
- In `Authentication` the loop goes on, what was read is parsed to its end and a timer
  that is due fires; the
  server is fair only as a premise of the last part of `LoginEnds`.
- In `ActiveUsers` both threads go on and the server answers what it has read
  (`ListUsers`); the connection may be lost.
- In `Delivery` a link that is up carries (`Carry`): TCP, the relay's loop and the client's. That a
  side notices a broken link is not assumed, and neither is a new login.

## 4. The proofs

The theorems hold for any values of the constants that meet the assumptions
`ServerAssumption`, `QueueAssumption`, `SessionAssumption`, `SendQueueAssumption`,
`MessagingAssumption`, `ActiveUsersAssumption`, `LoginAssumption`, `DeliveryAssumption`: the special values are not members of the sets they are
added to, and the bounds are natural numbers. TLC evaluates them on every run.

| Module | Theorem | States |
|---|---|---|
| `PikeServerProofs` | `TypeCorrect` | `TypeOK` |
| | `OneSessionPerUser` | `SessionTable` |
| | `FlushedWhileOnline` | `OnlineMailboxEmpty` |
| | `KeysKept` | `KeysServed` |
| | `MessagesInPlace` | `InItsPlace` |
| | `Refinement` | `StoresAndForwards` |
| `OperationQueueProofs` | `TypeCorrect` | `TypeOK` |
| | `NothingLostInTheQueue` | `Conserved` |
| | `QuietOnceDestroyed` | `QuietAfterDestroy` |
| | `Refinement` | `ExecutesInOrder` |
| `ClientSessionProofs` | `TypeCorrect` | `TypeOK` |
| | `OneResult` | `OneResultPerLogin` |
| | `SoundAlone` | `SoundWithoutOverlap` |
| | `ErrorsAfterTeardown` | `ErrorAfterTeardown` |
| `SendQueueProofs` | `TypeCorrect` | `TypeOK` |
| | `SafeAlone` | `NoCrashAlone` |
| | `StreamKept` | `StreamIntact` |
| `MessagingProofs` | `TypeCorrect` | `TypeOK` |
| | `UnregisteredIsSafe` | `OnlyRegisteredAreTold` |
| | `Refinement` | `EventsAreBroadcast` |
| | `InOrderToObservers` | `MessagesInOrder` |
| | `DeliveredBeforeSeen` | `SeenAfterDelivered` |
| `ActiveUsersProofs` | `RoundTrip` | `Decode(Encode(data)) = data` |
| | `TypeCorrect` | `TypeOK` |
| | `KeyArrivesIntact` | `KeyArrives` |
| | `SafeAlone` | `NoCrashAlone` |
| | `AnswersMatch` | `AnswersMatchRequests` |
| `AuthenticationProofs` | `TypeCorrect` | `TypeOK` |
| | `NoTimerIsLeft` | `TimersMatchWaits` |
| | `GivenUp` | `GivesUpForGood` |
| | `TriedOnce` | `TriedInOrder` |
| | `EventsOrdered` | `EventsInOrder` |
| `DeliveryProofs` | `RelayInNetwork` | `DeliverySpec => Spec`: the relay does in the network only what `PikeServer` lets it do |
| | `Reachable` | `ConnectedIsReachable` |
| | `GhostsOnly` | `RefusedByGhostOnly` |
| | `DeliveryTyped` | `DeliveryTypeOK` |
| | `KeptMail` | `MailIsKept` |
| | `LossesAccounted` | `LossesExplained` |

The arguments:

- *Relay.* `SessionTable` is not inductive: the disconnect of a connection that
  was refused would free the entry of the user it tried to be, had it his jid.
  `NoJidBeforeAccept` says it has none. On top of it, `BlankInv`: a user the
  table does not know has neither key nor mail, so that `clients.set` of a fresh
  entry forgets nothing, and a flushed mailbox stays empty while the user is online.
- *Messages at the relay.* `PlaceInv`: a number is on one connection at most and then in
  no mailbox, belongs to a message handled, and is where its addressee is; mailboxes
  grow. Four lemmas say what a relay, a store, a drop and a flush do to it. A jid does
  not change once a connection has been sent anything, since before it has one nothing
  is sent to it. With `PlaceInv`, the sets of the messages stored and relayed move as
  `StoreAndForward` says: a flush takes exactly those stored for the user.
- *Operation queue.* `ThreadInv` ties the three threads together: a function is
  held exactly while it runs, a call in progress has started the thread, and the
  thread is alive as long as the flag is set. `Conserved` is an equation of
  sequences, kept by moving the head of the queue to the running function.
- *Session.* The operation queue's invariant is not proved again: `QP == INSTANCE
  OperationQueueProofs` brings it over to the variables the session shares with it, and
  `SessionQueueInv` shows that the session uses the queue as that module lets it
  (`Step`, the steps of the queue without the bound of its own run). For `OneResultPerLogin`
  the number of a login is followed through the places it can be: held as the
  login's parameters, reported on the queue, told. `OnceInv` says it is in one of them. The other two hold
  while no call of the application overlaps a teardown (`Calm`): `MemberInv` ties
  the members, the loop and the teardown together, and `ReportInv` says a report on
  the queue comes after a teardown of its login, or its login is over.
- *Send queue.* While no two calls overlap, the tail is a live item without a
  successor except in the middle of an append or of a flush (`Alone`); nothing
  is reachable or freed that has not been allocated (`Allocated`), so that a new
  item is neither; and the locals of a thread are items where it uses them
  (`LocalsOK`). Following the stream needs the number `f` of items that are written and
  freed (`Stream(f)`): items are sent in the order in which they are allocated, the list
  leads from `f + 1` to the last one sent, except for the one access an append or a
  flush has yet to make, and the bytes on the wire never decrease. That no byte is
  written twice is an equation between the bytes left and those on the wire, which
  holds whether or not the calls overlap.
- *Messaging.* Whoever tells holds the mutex, and who is left to be told is
  registered (`MutexHeld`); the holder has an event (`Carries`). The refinement
  mapping `ToldAtOnce` tells those left at once: `Lock` is then the broadcast,
  and every `CallObserver` a stutter.
- *Order of messages.* `OrderInv` follows the numbers of one sender's messages along the
  pipeline: the send queue is in order and has none that is not sent (`SentInOrder`), what
  has left the sender is before what is still on its queue (`CarriedInOrder`), and what an
  observer was told is before what is in the network (`ToldInOrder`).
- *Delivered before Seen.* `AckInv` follows an acknowledgement: what was sent goes to the
  client it is for (`Addressed`), a client acknowledges a message before its application
  knows of it and what the application then sends stays behind (`AckedFirst`), so that the
  sender hears it first (`HeardFirst`), unless two threads overlapped in a send queue.
- *Base64.* The characters of the text are those of the alphabet up to the
  padding, so `Readable` is their number; each byte then follows from two
  neighbouring characters by arithmetic, for the groups of three and for the
  two kinds of last group.
- *Active users.* `KeysTravel`: what the table holds, what is on the wire and
  what was told is, at each point, the text of the last change of the user seen
  by then. `RoundTrip` does the rest, whatever the threads do to the handlers.
- *Handlers of the answers.* `HandlersInv` has four parts: a request has one answer
  (`AnsweredOnce`); the hash table has one item at most, an item follows one other at
  most, and live items lead to live ones (`ListInv`); a thread registers one request at a
  time, of which nothing is known before (`CallsInv`); and the walk of the loop is at the
  first item, which it takes off and frees, so that only such items have been told
  anything (`WalkInv`). `CalmInv` adds which answers are owed while no request has met
  another, and `FreshInv` that no answer is older than its request, but for the items
  registered in a walk that is going on.
- *Login.* One lemma per handler and timer takes a connection whose timers match its waits
  (`Sound`) to another. `CallsFit` and `AnswersAreItems` say that handlers of
  features are called for features only, whatever the server sends and in what pieces.
- *Turns of a login.* What a login may ask for next depends on everything both sides have
  said. `Turns` says it by situations: until a wait is given up the client has asked for
  one thing, and the server has not answered, or its answer is on the way, or is being
  handled, and the wait there is tells how far the login is. `GivesUpForGood` is part of
  it. A timer ends the turns, since the answer may come in late. For `TriedInOrder`
  `OrderInv` goes on: the mechanisms tried are stronger than those left (`Ordered`), and
  once a wait other than that for the first features was given up nothing is left, nor will
  come, that tries a mechanism (`Past`).
- *Events of a login.* `EventsInOrder` holds with no such proviso: the features may be given
  up and come late, and then two logins go on side by side, with any number of requests
  left to be answered. So `Going` counts what leads to a success. The server accepts a
  client once, and opens a stream only as the first one, after TLS or after that acceptance.
  What is left of the acceptance is a success to be handled or a result of the legacy
  login, never both, or, after a success, one opening tag, one wait for the features, one
  bind or one session, each of which rules out the others and says that nothing has been told
  yet (`Once`, `OnceBound`). For this a stream must not be opened under the wrong handler: before
  a mechanism is tried TLS is settled and the opening tag parsed (`Ready`), TLS is
  asked for once (`SecuredOnce`), and an offer of it that the client would take is that of
  the first features, before any mechanism (`OfferedFirst`). Late features that reach a pending
  handler of SASL by their children end the stream; that of TLS is pending for none that
  offers it. `Told` adds what the messenger
  knows once the connection is closed: what it was told of the end and what is left of the
  read, the end or what is no XML, make three.
- *Delivery.* `RelayInNetwork` brings the relay's invariants into the network (`RInv`). On
  top of it `SidesAgree` ties the two ends of a connection together: a client that
  is binding or connected over a link that is up is live at the relay, one whose
  connection the relay has not opened has none, a connection has one user.
- *The promise of Mail.* `OnceInv`: a message, and its acknowledgement, is a token that is
  on its way to the relay once or has been handled once and never both; an
  acknowledgement exists only for what was told; what was told was read. A client
  reads each stanza of its wire once, and the relay writes each on one wire
  (`PlaceInv`), so what is read next was not read before. A step is then one of
  `Mail`, with `Letters` as its messages, or a stutter.
- *Losses.* `LossesExplained` is its own inductive invariant, given where a stanza can be:
  one lemma for each place (on its way to the relay, in a mailbox, on a wire, arrived,
  excused, with a broken connection) says which places a step can take it to. A stanza
  that is read before the session's answer is excused since `ClientInv`: a client has not read
  past that answer before it is established.

Only model-checked:

- liveness (`RoundTrip`, `AwakeWorkerServes`, `StopInTimeReturns`, `LoginEnds`,
  `AloneIsAnswered`, `PresentIsTold`), which needs ENABLED;
- that `Encode` is the Base64 of RFC 4648.

## 5. Findings

| Run | Where | What |
|---|---|---|
| relay_order | `Server/app.js:29` | the client is set before the mailbox is flushed |
| queue_lost_wakeup | `operation_queue.cpp:70` | the wait has no predicate and another mutex |
| session_stop_lost | `libstrophe/src/event.c:365` | a stop before the loop has set its status is lost |
| send_queue_race | `libstrophe/src/conn.c:701` | an append of two threads without a lock |

Each quotes, in `PROJECT.json`, the comment or test that says otherwise.

## 6. Not modelled, and what comes next

Left out for good: the vendored XML, cryptographic and TLS code (pure functions
on bytes, or I/O), logging and identifiers, the build files, the test program
(its expectations are quoted).

The map covers a large part of the messenger, of the relay and of the files of libstrophe
named above, and a very small one of the repository, nearly all of which is the vendored
source of OpenSSL and expat.

Parts of what is modelled that are left out:

- the login of components and the connect timeout of libstrophe, which the
  messenger does not use or set;
- several handlers of one id or namespace, which nothing in the repository makes;
- exceptions of the stanza parser on stanzas without time, type or resource
  (`xmpp_stanza_parser.cpp:78`): the models' stanzas are those the builder makes;
- the allocator: every allocation succeeds.

What would come next:

1. `SendMessage` and RequestActiveUsers against a teardown
   (`messenger_impl.cpp:108`): `Messaging` composed with `ClientSession`.
2. `ClientSession`'s one step of login refined by `Authentication`.
