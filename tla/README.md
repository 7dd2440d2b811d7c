# Network Chat in TLA+

A verification development for the console chat of this repository: a server
(`ChatServer/`) through which clients (`ChatClient/`) find each other, ask for
a chat, and exchange texts, on top of a small network library (`Net_chat/`)
over the vendored Asio. About 1450 lines are the program's own; there are no
tests in the repository.

## 1. The system

| Component | State it keeps | Operations | What must be right |
|---|---|---|---|
| **Incoming message queue** `net_tsqueue.h` | `muxQueue`, `deqQueue`, `muxWait`, `cv` | `push_back`, `empty`, `pop_front`, `wait` | FIFO; no lost wakeup; no pop of an empty deque; the threads do not stop |
| **Chat server** `net_server.h`, `Server.cpp` | `m_dequeConnections`, `nIDCounter`, `ClientConnections`, `m_qMessagesIn`, `m_threadContext` | accept, sweep, `ConnectClients`, `DisconnectClients`, the seven messages of `OnMessage` | pairs are symmetric; no undefined `erase`; a text reaches only its sender's peer; sweeps drop only the dead; no uncaught exception |
| **Chat client** `net_client.h`, `Client.cpp` | `ConnectedToId`, `ConnectionRequestId`, `muxConnect`, `cvConnect`, the watcher's future | the commands of `operator<<`, the chat, the nine messages of `ExecuteMessages` | a chat opens with the client that was asked; a text is shown as its writer's; the user gets back to the prompt |
| **Connection** `net_connection.h` | socket, validation codes, `m_msgBuff`, `m_qMessagesOut` | handshake, header/body read chain, write chain, `Send`, `Disconnect` | messages arrive whole and in order; nothing is taken before validation |
| **Connection lifetime, registry** `net_connection.h`, `net_server.h` | `shared_ptr`s in the deque, raw `this` in handlers | accept, sweeps, searches, `MessageClient` | no open connection is destroyed; nobody is left out of a loop; ids are the announced ones |
| **Client lifecycle** `net_client.h` | `m_context`, `thrContext`, `m_connection` | `Connect`, `Disconnect`, destructors | the close that is posted runs |
| **Message codec** `net_message.h` | body and header size | `<<`, `>>` | what is put last comes out first, nothing underflows |
| **Command parser** `ChatClient/Utilities.h` | – | `StrToCommand` | the id requested is the id typed |
| **Asio** `src/Asio_lib` | – | – | vendored; only its guarantees are used |

How they interact. Each side runs one asio thread, which pushes what a
connection has read into `m_qMessagesIn`, and one thread that pops it
(`Update` in the server's main thread; `ExecuteMessages` in a client's
`std::async` thread). The client has two more: main, which runs the commands,
and the watcher that `ConnectTo` starts to poll for ESC. The three client
threads share two ids and one mutex; the ids are plain integers, written with
and without the lock. On the server the asio thread and the main thread share
`m_dequeConnections` without a lock.

Hard behaviours: two mutexes taken in opposite orders; a condition variable
tested under one mutex and waited on under another; texts and answers that
carry no sender, so that they mean what the pairing at the time of handling
says; crossing requests and closes; clients that vanish while paired; an
answer overtaken by the assignment it answers; a destructor that waits for a
thread while holding the lock that thread wants. `PROJECT.json` lists each of
these under "hazards", at its line.

## 2. Modules

| Module | Models | Notes |
|---|---|---|
| `FifoQueue` | what the queue promises | abstract: put, handle |
| `TsQueue` | `tsqueue`, with its pushing and popping threads | one action per lock operation; `pc` is the place of each thread in `push_back`, `wait` or `Update`; `Fifo` instantiates `FifoQueue` with `queue <- hand \o deqQueue` |
| `TsQueueProofs` | – | theorems about `TsQueue` |
| `ChatMessages` | `CustomMsgTypes`, ids, bodies | a body is the one number the properties depend on; a text carries the id of its writer, which the program does not send and no action looks at |
| `ChatServer` | `CustomServer` and `server_interface` | one action per case of `OnMessage` and per step of the asio thread; the `Send`s of a step are in `posted` |
| `ChatServerProofs` | – | theorems about `ChatServer` |
| `ChatClient` | `Custom_Client` and the state of `client_interface` | `proc[c]` is the state of the process of client `c`: a program counter for each of its three threads and the shared fields |
| `ChatProtocol` | what the chat promises to users who end nothing | abstract: one action per decision a user can tell apart, and `Pair` for the server's; no thread, lock or message |
| `ChatSystem` | server and clients over ordered connections | `Server == INSTANCE ChatServer`, `Client == INSTANCE ChatClient`; `Handle` appends what the server posted to the receivers' channels; `Protocol` instantiates `ChatProtocol` with what processes, pairs and messages on their way amount to |
| `ChatSystemProofs` | – | theorems about `ChatSystem`; instantiates `ChatServerProofs` |
| `OrderedChannel` | what one direction of a connection promises | abstract: send, receive |
| `Connection` | `net_connection.h`, both ends | the stream is a sequence of words (code, header, body); `ToServer` and `ToClient` instantiate `OrderedChannel` |
| `ConnectionProofs` | – | theorems about `Connection` |
| `Registry` | `m_dequeConnections` in `net_server.h` | one action per entry visited, for the remove, for the erase and for each use of `back()`; what `ChatServer` does in one step |
| `RecursionProofs` | – | that recursive functions exist and are typed, by induction over a set |
| `RegistryProofs` | – | theorems about `Registry` |
| `Codec` | `operator<<`, `operator>>` of `net_message.h` | operators on bodies, no variables; `Power` is the exponent, as a recursive function because `^` is beyond the provers |
| `CodecProofs` | – | lemmas about `Codec`: what is put last is what is taken |
| `CommandParser` | `StrToCommand`, with `std::stoul` | operators on lines, no variables |
| `Console` | a line, text or list on its way from one user to the other | uses `Codec` and `CommandParser` as the handlers do |
| `ConsoleProofs` | – | theorems about `Console`, with the lemmas about `CommandParser` |
| `MCTsQueue`, `MCChatServer`, `MCChatSystem`, `MCConnection`, `MCRegistry`, `MCConsole` | – | values of the constants |

How they fit together: `TsQueue` justifies the sequence `m_qMessagesIn` of
`ChatServer`, `Connection` the ordered channels of `ChatSystem`, `Registry` the
atomic sweeps of `ChatServer`, `Console` the numbers and texts that messages
carry everywhere else.

### How the actions follow the code

* **TsQueue.** `PushLock`, `PushEmplace`, `PushLockWait`, `PushNotify`,
  `PushUnlock` are lines 38 to 42 of `push_back`. `WaitEmptyLock` to
  `WaitReturn` are `wait()`: `empty()` takes and releases `muxQueue` inside it.
  `UpdateBegin` to `OnMessage` are `Update`, for ever, as in
  `ChatServer/main.cpp`.
* **ChatServer.** A message handler is one step: only the main thread touches
  `ClientConnections`, and `m_qMessagesIn` is the queue of `TsQueue`, used
  through what `FifoQueue` promises. A socket that closes in the middle of a
  handler is therefore seen by the whole handler or not at all.
  `ClientConnections.at` of an absent key ends the process (`AtThrows`,
  status `out_of_range`); an `erase(find(x))` of an absent key is status
  `bad_erase`, which the proofs show unreachable; `remote_endpoint()` may throw
  in the accept handler (`AcceptGone`).
* **ChatClient.** `ConnectTo`, `SetRequest`, `LockAndWatch`, `TestRequest`,
  `Relock`, `CheckChat`, `Join` follow lines 206 to 240; `WatchAgain` to
  `WatchEnter` the lambda in 213 to 229, with its nested `CloseClient` command;
  `ChatLine` to `LeaveChat` are `OpenChatWithClient`; `Shown` to `Closed` are
  the cases of `ExecuteMessages`. A step makes at most one access to a shared
  field that another thread can tell apart: `ConnectedToId = ConnectionRequestId`
  is a read (`AcceptReads` for line 252, `Answered` for 161) and a write
  (`AcceptConnects`, `Accepted`), the value kept in `connecting` or `answered` in
  between; the two resets of a CloseClient, read (178, 179: `Closed`,
  `ClosedResets`) or sent (280, 281: `ClearConnected`, `ResetRequest`, and
  `WatchClear`, `WatchReset` in the watcher), are steps of their own. So a close
  that is handled between the two halves of line 252 leaves a chat open after its
  end. The variable `key` is
  uninitialised when the console is in the background, so the watcher may act
  on a key at any time, pressed or not.
* **ChatSystem.** A client's process may end at any time (`Leave`); the server
  finds out later (`Disconnect`), and until then goes on handling what the
  client had sent. Connections do not fail otherwise.
* **ChatProtocol.** `Ask` is ConnectTo's Send, `Pair` the server's
  `ConnectClients`, `Accept` the Accept command and `Open` the assignment behind
  its Send (its write), `Connect` the case RequestAnswer (its read of
  `ConnectionRequestId`: `ChatOf` counts the value from then on), `StopAsking` the end of a
  ConnectTo, `Forget` the loss of a request that came while its reader was
  asking itself, `Say` and `Read` a text. The mapping: a user is owed an answer
  (`Owed` "request") while a request to it is on its way or read and not
  overwritten (`Holds`), has given one ("answer") until its peer has read it,
  wherever the message is; `Unread` counts the texts on their three queues. A
  lost text looks like a read one: what the refinement says of texts is that
  they are said in chats only and never come twice; that they arrive is what
  `FifoQueue`, `OrderedChannel` and `MessagesRead` say.
* **Connection.** Each end is an asio thread that runs one handler per step;
  `Send` is the call in another thread, which only posts. A write puts its word
  on the wire when it is initiated, and its completion handler is a later step:
  asio starts the writes of one socket in the order of their initiation, so the
  server's code, written in the accept handler, precedes the ServerAccept posted
  there. Code and header have eight bytes each, so either may be read for the
  other, which is what happens to a client that sends before it has answered.
  The client's socket is open, and `IsConnected` true, from `async_connect` on;
  a write before the connection is up fails, as it does on Windows, the only
  system the client builds on. After a short read the client takes the rest of
  the code for a header (`lost`); the server refuses it anyway. `m_msgBuff.body`
  is overwritten only by a body, so a message without one is queued with an old
  one: `Heard` leaves that body out, which no handler reads. A read that has
  completed when the socket is closed may still be handled by the program; here
  the close and the read are ordered one way or the other.
* **Registry.** `AcceptPush`, `AcceptConnect` and `AcceptShow` are lines 49 to 59,
  60 and 61 of `net_server.h`: the main thread can run between them.
  `SweepEntry`, `LoopEnd`, `RemoveNulls` and `Erase` are both `MessageAllClient`
  and `GetClientList`; `FindEntry` is the search of four cases of `OnMessage`.
  `RemoveNulls` is `std::remove`, which leaves null pointers at the back, and
  `Erase` the `erase` after it: in between, `back()` of a connection pushed long
  before is null (status `bad_back`). The deque has no lock, so a `push_back`
  while the main thread iterates, removes or erases is undefined behaviour. It
  either takes effect between two steps of the main thread, as with an
  implementation that stores elements and size separately - an iteration then
  ends where it would have ended, and an erase takes the new entry or drops it
  (`lost`), since its `end()` may be older - or the program does something else:
  `AcceptRaces`, status `undefined`, ends the behaviour, as nothing can be said
  of what follows. `ConnectToClient` leaves a closed connection without an id,
  which happens to an older one that `back()` returns after a loss.
* **Console.** `TypeLine` is main's loop, `TypeText` and `ReadText` a text from
  `SendToClient` to the peer's screen, `SendList` and `ReadList` the ClientList
  with its loop from the end of the body, `ReadRequest` the server's look at the
  id. A value taken from too short a body is undefined: phase `underflow`.

## 3. Runs

| Run | Question | Bounds |
|---|---|---|
| `queue` | `TypeOK`, `PopDefined`, `NoLostWakeup`, `StopsOnlyInLockCycle`, `WaitsInCycleOrIdle`, that `TsQueue` implements `FifoQueue`, and under fair threads `PushedIsHandledUnlessStopped` | 2 producers x 3 pushes, `nMaxMessages` 2 |
| `queue_stop` | violation: `PushedIsHandled` with the sleeping reader | 2 x 2 |
| `server` | `TypeOK`, `PairsSymmetric`, `EraseDefined`, `PeerHeldOrGone`, `RelayedBetweenPeers` | 3 clients, any message at any time, two of them queued, one id nobody has |
| `chat` | `NoThrow`, `TextAttribution`, `ChatWithAsked`, that `ChatSystem` implements `ChatProtocol` (`ProtocolKept`), and under fair threads `MessagesRead` and `PromptReturns` | 2 clients, 3 commands each, of ConnectTo, Accept, text |
| `chat_late` | violation: `TextAttribution` | 2 clients, 4 commands each, of ConnectTo, Accept, text, -close |
| `chat_all` | `TypeOK`, `WatcherHasCommand` | 2 clients, 2 commands each, of all commands |
| `chat_throw` | violation: `NoThrow` | 2 clients, 2 commands each, of ConnectTo, Accept, text, -close |
| `chat_refused` | violation: `RefusedIsReleased` | 1 client, 1 command |
| `chat_escape` | violation: `AbortReturns` | 1 client, ConnectTo and ESC |
| `connection` | that both directions implement `OrderedChannel`, `WriterNeverStalls`, `RefusedOnlyIfEarly`, and under fair handlers `HandshakeDecided`, `DeliveredOrClosed` | 2 messages each way, one short read |
| `registry` | `NoNullClient`, `OpenAreHeld`, `IdIsTheOneTold`, `BackDefined`, `LoopReachesAll` | 3 connections, 3 messages |
| `console` | `ShownAsTyped`, `NumberIsAccepted`, `NoUnderflow` | bytes of 2 bits, ids and lengths of 2 bytes; 3 characters after ConnectTo's space, texts of 3, lists of 2 |

Why the bounds are enough. In `queue`, two producers compete for `muxQueue`
with the reader and with each other, and `nMaxMessages` 2 makes `Update`
return with messages left; three pushes let the reader sleep, be woken and
sleep again. In `server`, three clients are the least with a pair and a third
that asks for a member of it, and two slots of `m_qMessagesIn` let a sweep drop
a client whose request still waits in the queue; longer queues are covered by
the theorems. In the chat runs two users suffice for requests, crossing requests and chats; in `chat`
three commands each are requests that cross, a second request after a refusal,
an Accept and texts both ways. A third client multiplies the states beyond a
run's limit; what a third client can do to the pairing is covered by `server`
and proved in `ChatServerProofs`, what it can do to the chats of `chat` in
`ChatSystemProofs`. In `connection` two messages each way let a `Send` find a
write under way or not, and a message without a body follow one with a body;
one short read can happen at either end. In `registry` three connections give a
first, a middle and a last entry, and three messages a sweep before, during and
after a close and an acceptance. `BackDefined` allows `back()` to find nothing
in the two cases in which the code lets it: the program ends there, and the run
shows that there is no third. In `console` the widths are as small as they
can be with more than one byte in every number; with 16 ids, `ConnectTo 15`
fits, `51` does not, and `-1` wraps. `MaxTyped` bounds what a user types and is
part of the guards, so that the liveness runs are not cut by a constraint.
Deadlock is not checked where the system may stop: in the lock cycle of the
queue, after an uncaught exception, when the users stop typing, when both
sockets are closed, and where a bound ends every behaviour.

All properties of `chat` are about users who end nothing (`MCTalk`): no Decline,
-close, ESC and no leaving. Without them a pair of the server lasts, and each
request has at most one answer, which its sender waits for. Once chats are
closed (`chat_late`), an answer may come late and be taken for another request
(`Client.cpp:161`); the refusal of that other request then stays unread behind
`muxConnect` for as long as the chat lasts. These failures take four commands of
each user; runs with three pass. Nothing is therefore concluded from a bound
here: the safety properties are proved for every number of clients and commands
(section 4), the liveness properties `MessagesRead` and `PromptReturns` are
claimed for users who end nothing only.

### Fairness

* `TsQueue!FairSpec`: weak fairness of each thread; no fairness for spurious
  wakeups. Weak fairness of a lock step promises the mutex only when it stays
  free.
* `Connection!FairSpec`: weak fairness of the handshake and of each end's read
  and write handlers, that is, `io_context::run` runs the handlers of completed
  operations. The network delivers what was written as long as both sockets are
  open; nobody has to send or to close.
* `ChatSystem!FairSpec`: weak fairness of the server's threads and of each
  thread of each client; strong fairness of the steps in which the ui and the
  executor take `muxConnect`, that is, a mutex released again and again is
  eventually granted (an unlimited series of spurious wakeups would otherwise
  starve the other thread). Of users it assumes only that they press Enter
  where the program says so (`Client.cpp:180` "Press enter to continue"); no
  command ever has to be typed.

### What the violated runs show

* `queue_stop`: `push_back` locks `muxQueue`, then `muxWait`; `wait()` the other
  way round. The asio thread in `push_back` and main in `wait()` can stop each
  other. `queue` shows there is no other way to stop and that nothing else is
  lost.
* `chat_throw`: both users of a chat close it; the second CloseClient finds no
  peer and `at` throws out of main.
* `chat_late`: A asks B; B accepts and closes at once; A asks B again, and the
  end of the first chat, read now, ends the wait for the second request. A then
  asks for another id, B accepts the second request, and A takes that as the
  answer to the third: A chats with B, and sees B's texts under the other id.
* `chat_refused`: the answer to a ConnectTo is handled between `Send` (209) and
  the assignment of `ConnectionRequestId` (210), which then overwrites the
  reset; the user waits although the request was refused.
* `chat_escape`: the user presses ESC, the watcher resets the request and has yet
  to lock `muxConnect` (222). The ui sees the reset on its way into the wait (231),
  or because an answer has just woken it, leaves the wait with `muxConnect` locked
  and waits in `~future` for the watcher. Neither can go on.

## 4. Proofs

What the eight proof modules prove holds for every value of the constants that
satisfies the assumptions named. Each invariant below was first checked by TLC
on the bounds of section 3.

* **Queue.** From `TsQueueAssumption` (the reader is not a producer; `Free` is
  no thread; `nMaxMessages` positive). The invariant `IInv` strengthens
  `TypeOK` with who holds each mutex at each program counter, that the deque is
  not empty once the loop has seen it non-empty, and that a sleeper on a
  non-empty queue has a notification still to come. `TypeCorrect`,
  `PopIsDefined`, `WakeupNotLost` follow; `ImplementsFifo` shows that each step
  maps to a step of `FifoQueue` or a stutter. `WaitsAreCycleOrIdle`: when every
  thread waits for a mutex, sleeps or has nothing more to push, it is the lock
  cycle, or the reader sleeps on an empty queue; a mutex that is held has an
  owner that waits for the other one (`OwnersWait`). `NoLostWakeup` alone is not
  inductive: that the reader between `empty()` and `cv.wait` holds `muxWait` is
  what forces the producer to be still in front of its own lock of `muxWait`.
* **Server.** From `IdAssumption` and `QueueAssumption`. The invariant is
  `TypeOK`, `PairsSymmetric`, `EraseDefined`, `PeerHeldOrGone` and
  `SocketsHeld`: an open socket belongs to a held connection, a held connection
  has a socket, and the sender of a queued message is held or gone. The last
  part is needed because a request is paired when it is handled, not when it
  is received: a sweep may have dropped its sender in between, and the pair
  then names an id the deque does not hold, which `PeerHeldOrGone` allows only
  for a closed socket. `EraseDefined` follows from the symmetry of the pairs.
  `PairsStaySymmetric`, `EraseIsDefined`, `PeerIsHeldOrGone` and, as an action
  property, `RelayIsBetweenPeers` follow.

* **Registry.** From `RegistryAssumption`. `IInv` adds to the properties that
  the accepted connections are numbered without a gap and the counter is as far
  (`IdInv`), that the connection being accepted is the last entry, or the last
  that remove has kept in front of its nulls (`BackAt`), unless an erase has lost
  it, that a null pointer lies only behind the loop that put it there or, once
  remove has moved them together, in front of the position its erase ends at
  (`DequeInv`), and what a loop has visited (`LoopInv`). `NullsAreNotUsed`,
  `OpenStayHeld`, `IdsAreThoseTold`, `BackIsDefined` and, as an action property,
  `LoopsReachAll` follow. `NoNullClient` needs `LoopInv`: that no null lies in
  front of the loop holds only because every loop that leaves one ends in an
  erase before the next begins. `BackIsDefined` says that the accept handler's
  `back()` is a connection except between a remove and its erase or after an
  erase that dropped a new entry. What `remove` keeps is a recursive function, and the lemmas about it (`KeptIs`, `KeepNonNullFacts`) are inductions.
* **Connection.** From `ConnectionAssumption`. `EndInv` describes each direction
  as one numbered stream: what is received, then the words on the wire, each
  following the one before it (`Linked`), then what the write chain has queued,
  then what is posted, are the messages sent, from the first to the last; a
  body has its header's number. It survives a close of either end, after which
  only the received part matters. `HandshakeInv` says what the validation
  exchange guarantees to the stream: the server's code is the first word its
  client reads (`CodeComesFirst`), the server is not answered before that
  (`NoAnswerYet`), and a word in front of the right answer was sent early or
  comes of a short read (`EarlyIsNoted`, `AnswerIsRight`). Without it `EndInv`
  is not inductive: a header could be taken for a code, and the words behind it
  would be out of place. `WriterStaysAwake`, `RefusedIsEarly`, and the
  refinements `ServerInOrder` and `ClientInOrder` (each step is a step of
  `OrderedChannel` or a stutter) follow.
* **Codec.** From `CodecAssumption`. `NumberOfBytes`: a number below
  `Power(Base, w)` is read back from its `w` bytes. `PutThenTake`, `IdComesBack`,
  `TextComesBack`: an id or a text put into any body is taken from it again and
  leaves the body as it was.
* **Console.** From `CodecAssumption`, `ModulusAssumption` and
  `ConsoleAssumption` (what follows a word begins with a space; an id has the
  width of `unsigned long`, as on Windows; the texts and lists fit the header's
  size). `NumberIsRead`: `stoul` returns the number that the digits are, digit
  for digit. `IInv` says for each phase what the body still holds: nothing, the
  id, the text with its length, or, in the loop over a list, the message of the
  first `i` ids, while the rest of them is shown. `TypeCorrect`,
  `NeverUnderflows`, `ArrivesAsTyped` and `NumbersAreAccepted`
  follow, for any line, text and list.
* **System.** `WatcherStaysInCommand`: `WatcherHasCommand` for any clients,
  commands and messages; it needs no assumption. The property alone is not
  inductive, because a chat that ends goes back to the prompt or on to `~future`
  (`Join`) according to who opened it. `Guarded` adds that the ui holds
  `muxConnect` from the end of its wait until its watcher has ended, and that
  the watcher holds it while it waits for Enter.
  From `IdAssumption` and `SystemAssumption`, `SystemInv` joins the server's
  invariant with the types of the clients and of every message on its way.
  `ServerInSystem` shows that each step of the system is a step of `ChatServer`
  or leaves the server alone, because a client's three threads send only what
  `OnMessage` expects; so the step lemma of `ChatServerProofs` applies, from an
  initial state in which the clients are already accepted, and
  `SystemKeepsPairs` carries the server's properties into the system.
  `TypeCorrect` is `TypeOK` of both sides.
* **System, while users end nothing.** `TextsAreAttributed`, `ChatIsWithAsked`
  and `TalkNeverThrows` hold for any clients and
  any number of commands, with the further assumption
  `NobodyEnds == Commands \cap {"Decline", "-close", "ESC", "Leave"} = {}`; run
  `chat` is an instance. `chat_late` and `chat_throw` show that -close alone
  breaks two of them. None of the properties is inductive: what a
  `ConnectedToId` or a text on its way means depends on who asked whom, and on
  which answers are still to come. `TalkInv` says this for every client `c`:
  no thread ends anything and no close is on its way (`NoneEnded`); what is on
  its way to `c` comes from its peer in `ClientConnections`, and what it sends
  carries its own id (`Signed`); the ids its process holds are its peer's, but
  for the one it asks for, those that a thread has read and not yet written
  included (`Ours`). Without a peer, `c` has at most one request
  or refusal on its way, is asking then, and is owed no answer (`Alone`). With
  one, at most one answer is owed between the two: it is a request on its way
  to `c` or read by it, or an answer on its way to the server or to the peer,
  never two of these (`OneAnswer`), and then the peer still waits for it, its
  request unchanged (`Waiting`). That is what makes the answer `Accepted` reads
  the answer to `ConnectionRequestId`, although it names no request. An answer
  read before the assignment after `Send` (`Client.cpp:210`) finds 0 there: its
  reader then waits in vain, and texts are shown as nobody's, but none as
  another's. Each action has a lemma; the
  ones that change what is on its way between two clients (`ConnectTalks`,
  `AcceptTalks`, `RequestedTalks`, `RefusedTalks`, `AnswerReadTalks`,
  `PairedHandled`, `RefusedHandled`, `AnswerHandled`) rest on lemmas about what a
  send, a pop or a relay does to the messages on their way (`SendAdds`,
  `PopsTake`, `ArriveMoves`, `HandleTakes`, `DeliversOnly`). For
  `TalkNeverThrows` the invariant adds that only a client with a peer has texts
  on their way (`TextsPaired`), and that pairs last (`PairLasts`).
* **The protocol.** `ImplementsProtocol`, under the same assumption: each step
  of `ChatSystem` maps to a step of `ChatProtocol` or a stutter. The invariant
  is the one above with `PromptedInv`: a ConnectTo keeps its id until its
  watcher has been joined, and a line is sent only while `ConnectedToId` is set.
  `OneAnswer` makes `Owed` a function that changes by one abstract step at a
  time: an answer sent, relayed and read is one "answer" throughout. What is on
  its way is counted (`Count`; `CountAppend` and `CountTail` say what an append
  and a take do to it), and every action has a lemma about which messages it
  moves (`SendCounts`, `PopCounts`, `ArriveCounts`, `HandleCounts`,
  `DeliverCounts`), and one that names the abstract step (`UiMaps`, `UserMaps`,
  `WatcherMaps`, `RequestReadMaps`, `AnswerReadMaps`, `RequestMaps`,
  `AnswerMaps`, `TextMaps`). The deepest is `AnswerReadMaps`: the client that
  reads an answer still has the id it asked for, so that `Connect` is enabled.

Induction. The induction theorems of the library take an operator as a
parameter, which the provers cannot instantiate. `RecursionProofs` states
induction over a set instead (`SetInduction`, `BoundedInduction`), from the
least-element principle of well-founded relations, and shows that a function
defined from its value at `k - 1` exists and is typed (`RecursionExists`). The
lemmas about `Power`, `Number`, `Decimal`, the message of a list and the erase
of the registry rest on it.

Only model-checked: `StopsOnlyInLockCycle`, because it uses ENABLED, which the
prover does not support (`WaitsInCycleOrIdle`, which is proved, writes the
guards out and does not count on spurious wakeups), and the liveness properties
`PushedIsHandledUnlessStopped`, `HandshakeDecided`, `DeliveredOrClosed`,
`MessagesRead` and `PromptReturns` (temporal reasoning under fairness is out of
its reach as well).

## 5. Not modelled, not checked

* **Client lifecycle.** `client_interface::Disconnect` and the destructors are
  never reached: main does not leave its loop, and a user ends the program by
  ending its process (`ChatClient!Leave`, `Connection!ProgramEnds`). A
  `Disconnect` would post the close and stop the `io_context` at once.
* **Operations without a caller:** `MessageClient` (which, given a closed
  client, would erase from `begin()` to `end()`), `push_front`, `pop_back`,
  `front`, `back`, `count`, `clear`; `Stop`, which main never reaches.
* **Handlers of a destroyed connection.** `OpenAreHeld` says a connection is not
  destroyed while its socket is open. A closed one that a sweep releases may
  still have a posted `Send` or an aborted read or write to run, with a dangling
  `this`; what these do is undefined and not modelled.
* **A declined request.** The server relays a Decline like an Accept and keeps
  both clients in `ClientConnections` (`Server.cpp:116`): after "Decline -
  delcilne incoming request if available" (`README.md:10`) everybody else is
  answered "busy" until one of the two closes a chat that never was.
  `OnRequestAnswer` does so in every run with a Decline; it is a matter of one
  handler, and no run is spent on it.
* **Texts relayed to a third client.** A text that is on its way when its chat
  ends goes to whomever the server has paired its sender with by the time it is
  handled (`Server.cpp:96`). `RelayedBetweenPeers` looks at the pairs of that
  moment and does not exclude it; the chat runs have two users.
* **Liveness once users end things.** `PromptReturns` and `MessagesRead` are
  checked in `chat`, whose users do not press ESC; with ESC, the liveness check
  has half a million states and does not fit a run. `chat_escape` shows one way
  in which the prompt does not return.
* **`ConnectTo 0`.** The id 0 is also the value that ends a request, so such a
  wait never ends (`Client.cpp:231`). `ChatClient` would show it if 0 were among
  `OtherIds`; the runs leave it out so that each violation has one cause.
* **After the server's end** the clients' behaviour; a server that closes a
  connection is in `Connection` only.
* **Deferred watchers.** `std::async` without a policy may also defer the
  watcher, which the implementations in use do not.
* **Asio** and the umbrella headers: vendored code, modelled through the
  guarantees named above, and includes.

## 6. Plan

How far the theorems of section 4 extend: with Decline, the pair lasts and the
invariant would have to count declined requests; with -close, what is still
true of texts and answers that were on their way when the chat ended.
