---------------------------- MODULE ChatSystem -----------------------------
(***************************************************************************)
(* The server and its clients together: ChatServer's two threads, the      *)
(* three threads of every ChatClient process, and one connection between   *)
(* the server and each client.  A connection keeps the order of messages   *)
(* in each direction; messages of different connections interleave freely. *)
(*                                                                         *)
(* The initial state is the one in which every client has been accepted    *)
(* and validated and has been told its id.  What the clients do after the  *)
(* server's process has ended is not modelled.                             *)
(***************************************************************************)
EXTENDS ChatMessages, FiniteSets

CONSTANTS MaxQueue, Commands, MaxTyped

VARIABLES
  status, nIDCounter, m_dequeConnections, link, ClientConnections, m_qMessagesIn, posted,
  proc, toServer, toClient

serverVars == <<status, nIDCounter, m_dequeConnections, link, ClientConnections,
                m_qMessagesIn, posted>>
clientVars == <<proc, toServer, toClient>>
vars == <<serverVars, clientVars>>

Server == INSTANCE ChatServer
Client == INSTANCE ChatClient

ASSUME SystemAssumption ==
  /\ MaxQueue \in Nat
  /\ Commands \subseteq Client!AllCommands
  /\ MaxTyped \in Nat

Init ==
  /\ Client!Init
  /\ status = "running"
  /\ nIDCounter = FirstId + MaxClients
  /\ m_dequeConnections = Ids
  /\ link = [c \in Ids |-> "ready"]
  /\ ClientConnections = [c \in Ids |-> Server!NoPeer]
  /\ m_qMessagesIn = <<>>
  /\ posted = {}

Running == status = "running"

\* a step of the process of one client
Does(A) == Running /\ A /\ UNCHANGED serverVars

\* the server's asio thread: a message of client c arrives
Arrive(c) ==
  /\ toServer[c] # <<>>
  /\ Server!Receive(c, Head(toServer[c]))
  /\ toServer' = [toServer EXCEPT ![c] = Tail(@)]
  /\ UNCHANGED <<proc, toClient>>

PostedTo(c) == {p \in posted' : p.to = c /\ link[c] = "ready"}

\* the server's main thread: at most one message is posted to each client
Handle ==
  /\ Server!OnMessage
  /\ toClient' = [c \in Ids |->
       IF PostedTo(c) = {} THEN toClient[c]
       ELSE Append(toClient[c], (CHOOSE p \in PostedTo(c) : TRUE).msg)]
  /\ UNCHANGED <<proc, toServer>>

\* the server's asio thread finds that the process of client c has ended;
\* what was still on its way is lost
Disconnect(c) ==
  /\ proc[c].ui = "gone"
  /\ Server!SocketCloses(c)
  /\ toServer' = [toServer EXCEPT ![c] = <<>>]
  /\ toClient' = [toClient EXCEPT ![c] = <<>>]
  /\ UNCHANGED proc

Next == Handle \/ \E c \in Ids : Does(Client!ClientStep(c)) \/ Arrive(c) \/ Disconnect(c)

Spec == Init /\ [][Next]_vars

\* The steps in which a thread takes muxConnect.
UiLocks(c) == Client!LockAndWatch(c) \/ Client!Relock(c)
ExecutorLocks(c) == Client!Refused(c) \/ Client!AcceptedNotifies(c) \/ Client!Declined(c)

\* Every thread is scheduled; a mutex that is released again and again is in
\* the end granted to the thread that waits for it; a user gives the Enter the
\* program asks for.  Nobody has to type a command.
FairSpec ==
  /\ Spec
  /\ WF_vars(Handle)
  /\ \A c \in Ids :
       /\ WF_vars(Arrive(c))
       /\ WF_vars(Does(Client!UiStep(c)))
       /\ WF_vars(Does(Client!WatcherStep(c)))
       /\ WF_vars(Does(Client!ExecutorStep(c)))
       /\ WF_vars(Does(Client!EnterStep(c)))
       /\ SF_vars(Does(UiLocks(c)))
       /\ SF_vars(Does(ExecutorLocks(c)))

-----------------------------------------------------------------------------
(* The fields of server and clients, and every message on its way, have    *)
(* their types: a client sends only what OnMessage expects, whatever its   *)
(* three threads do (Client.cpp:9, Server.cpp:18).                         *)
TypeOK == Server!TypeOK /\ Client!TypeOK

(* Client.cpp:213 The watcher's lambda captures the command and the program*)
(* by reference: it must not run once the ui has left that ConnectTo.      *)
WatcherHasCommand == Client!WatcherHasCommand

Pops(c, type) ==
  /\ toClient[c] # <<>>
  /\ Head(toClient[c]).id = type
  /\ toClient'[c] = Tail(toClient[c])

(* Client.cpp:148 A text carries no sender: the client shows it as said by *)
(* ConnectedToId.  While users end nothing (no Decline, -close, ESC and no *)
(* leaving) that is its sender, or 0 when the reader is not in the chat.   *)
(* Once a chat has been closed, an answer may come late and be taken for   *)
(* another request: the texts of one client are then shown as another's.   *)
TextAttribution ==
  [][\A c \in Ids : Pops(c, "TextClient")
       => proc[c].ConnectedToId \in {0, Head(toClient[c]).arg}]_vars

(* Client.cpp:236 A ConnectTo opens a chat whenever ConnectedToId is set.  *)
(* While users end nothing it is then set to the client that was asked, not*)
(* to one whose request was received meanwhile.                            *)
ChatWithAsked ==
  [][\A c \in Ids : proc[c].ui = "checkChat" /\ proc'[c].ui = "chat"
       => proc[c].ConnectedToId = proc[c].id]_vars

(* Client.cpp:124 ExecuteMessages takes muxConnect, which a chat opened by *)
(* ConnectTo keeps until it ends: messages must not stay unread because of *)
(* that.  (While users end nothing, and while the server runs.)            *)
MessagesRead ==
  \A c \in Ids : toClient[c] # <<>> ~> toClient[c] = <<>> \/ ~ Running

(* Client.cpp:238 A ConnectTo that is over waits for its watcher to end    *)
(* and returns to the prompt: the id must not come to be equal to the one  *)
(* asked for again, by a request of the client that was asked, so that the *)
(* watcher goes on and the ui waits for it.  (While users end nothing.)    *)
PromptReturns ==
  \A c \in Ids :
    proc[c].ui = "join" ~> proc[c].ui # "join" \/ ~ Running

-----------------------------------------------------------------------------
(* The messages on their way, as ChatProtocol sees them *)

Requests == {m \in Message : m.id = "RequestToClient"}
Asks == {m \in Requests : m.arg \notin {NotFound, Busy}}
Answers == {m \in Message : m.id = "RequestAnswer"}
TextsOf(id) == {m \in Message : m.id = "TextClient" /\ m.arg = id}

Has(s, S) == \E i \in DOMAIN s : s[i] \in S
Count(s, S) == Cardinality({i \in DOMAIN s : s[i] \in S})

\* to client c; from client c, on its connection or in the server's queue
Due(c, S) == Has(toClient[c], S)
From(c, S) == {e \in [remote : Ids, msg : Message] : e.remote = c /\ e.msg \in S}
Sent(c, S) == Has(toServer[c], S) \/ Has(m_qMessagesIn, From(c, S))

Peer(c) == ClientConnections[c]

\* The ui waits for the id it asked for, and nothing has changed the request.
Waits == {"lock", "test", "asleep", "woken"}
Pending(p) == p.ui \in Waits /\ p.ConnectionRequestId = p.id

\* a request has been read that can still be accepted
InChat == {"chat", "send"}
Accepting(p) == p.ui \in {"accept", "connect"}
Holds(p) == p.ConnectionRequestId # 0 /\ ~ Pending(p) /\ p.ui \notin InChat /\ ~ Accepting(p)

\* an answer of c is on its way to its peer
AnswerDue(c) == Peer(c) # 0 /\ Due(Peer(c), Answers)

Owed(c) ==
  IF Sent(c, Answers) \/ AnswerDue(c) THEN "answer"
  ELSE IF Due(c, Asks) \/ Holds(proc[c]) THEN "request"
  ELSE "nothing"

Unread(c) ==
  Count(toServer[c], TextsOf(c)) + Count(m_qMessagesIn, From(c, TextsOf(c)))
    + IF Peer(c) = 0 THEN 0 ELSE Count(toClient[Peer(c)], TextsOf(c))

\* the chat that a process is in or has read the answer for
ChatOf(p) == IF p.executor = "answered" THEN p.answered ELSE p.ConnectedToId

Protocol == INSTANCE ChatProtocol WITH
  asks <- [c \in Ids |-> proc[c].id],
  peer <- ClientConnections,
  owed <- [c \in Ids |-> Owed(c)],
  accepting <- [c \in Ids |-> Accepting(proc[c])],
  chat <- [c \in Ids |-> ChatOf(proc[c])],
  unread <- [c \in Ids |-> Unread(c)]

(* Server.cpp:68 pairs two clients before the asked one has answered, and  *)
(* nothing on the wire says to which request an answer belongs.  While     *)
(* users end nothing the client that asked still waits when the answer is  *)
(* read, a chat opens only by an answer, and no text comes twice.          *)
ProtocolKept == Protocol!Spec

-----------------------------------------------------------------------------
(* README.md:3 "Centralized console server and client for message          *)
(* exchange": no use of the clients' commands ends the server.  It holds   *)
(* while users end nothing; two users who close one chat refute it.        *)
NoThrow == status # "out_of_range"

Quiet ==
  /\ Running
  /\ m_qMessagesIn = <<>>
  /\ \A c \in Ids : toServer[c] = <<>> /\ toClient[c] = <<>> /\ proc[c].executor = "idle"

(* Client.cpp:127 "No such client exist" ends the request: once everything *)
(* sent has been handled, nobody waits for an id that no client has.       *)
RefusedIsReleased == Quiet => \A c \in Ids : proc[c].ui = "asleep" => proc[c].id \in Ids

(* Client.cpp:208 "Press ESC key to abort request": after ESC the program  *)
(* asks for Enter and returns to the prompt.  The ui must not wait, with   *)
(* muxConnect, for the end of a watcher that waits for muxConnect.         *)
AbortReturns ==
  \A c \in Ids :
    ~ (proc[c].ui = "join" /\ proc[c].muxConnect = "ui" /\ proc[c].watcher = "locking")
=============================================================================
