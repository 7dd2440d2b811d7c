---------------------------- MODULE ChatServer -----------------------------
(***************************************************************************)
(* The server program: CustomServer (ChatServer/Server.cpp) on top of      *)
(* server_interface (Net_chat/net_server.h).                               *)
(*                                                                         *)
(* Two threads act: the asio thread accepts connections, validates them,   *)
(* reads messages into m_qMessagesIn and closes sockets that fail; the     *)
(* main thread pops m_qMessagesIn and runs OnMessage.  What OnMessage      *)
(* sends is recorded in posted, the connection::Send calls of the last     *)
(* step; a module that composes this one delivers them.                    *)
(***************************************************************************)
EXTENDS ChatMessages

CONSTANT MaxQueue     \* bound of the model: length of m_qMessagesIn

NoPeer == 0           \* key absent from ClientConnections

ASSUME QueueAssumption == MaxQueue \in Nat

VARIABLES
  status,               \* "running", or why the process is gone
  nIDCounter,
  m_dequeConnections,   \* ids of the connections the server holds (ids are
                        \* unique and ascending, so the set determines the deque)
  link,                 \* the socket of each connection
  ClientConnections,    \* peer of each id, NoPeer when the key is absent
  m_qMessagesIn,
  posted                \* Sends made by the last step

vars == <<status, nIDCounter, m_dequeConnections, link, ClientConnections,
          m_qMessagesIn, posted>>

Init ==
  /\ status = "running"
  /\ nIDCounter = FirstId
  /\ m_dequeConnections = {}
  /\ link = [c \in Ids |-> "none"]
  /\ ClientConnections = [c \in Ids |-> NoPeer]
  /\ m_qMessagesIn = <<>>
  /\ posted = {}

IsConnected(c) == link[c] \in {"validating", "ready"}
Live == {c \in m_dequeConnections : IsConnected(c)}
Paired(c) == ClientConnections[c] # NoPeer

To(c, m) == [to |-> c, msg |-> m]

\* OnClientConnect's answer to a new connection
Welcome(c) == {To(c, Msg("ServerAccept", c))}

-----------------------------------------------------------------------------
(* The asio thread *)

\* Mutant: OnClientConnect increments nIDCounter too.
AcceptCountsTwice ==
  /\ status = "running"
  /\ nIDCounter \in Ids
  /\ nIDCounter' = nIDCounter + 2
  /\ m_dequeConnections' = m_dequeConnections \cup {nIDCounter}
  /\ link' = [link EXCEPT ![nIDCounter] = "validating"]
  /\ posted' = Welcome(nIDCounter)
  /\ UNCHANGED <<status, ClientConnections, m_qMessagesIn>>

\* OnClientConnect posts the ServerAccept before ConnectToClient starts the
\* handshake; CustomServer approves every connection.
Accept ==
  /\ status = "running"
  /\ nIDCounter \in Ids
  /\ nIDCounter' = nIDCounter + 1
  /\ m_dequeConnections' = m_dequeConnections \cup {nIDCounter}
  /\ link' = [link EXCEPT ![nIDCounter] = "validating"]
  /\ posted' = Welcome(nIDCounter)
  /\ UNCHANGED <<status, ClientConnections, m_qMessagesIn>>

\* socket.remote_endpoint() throws when the peer has already gone: nothing
\* catches it in the thread that runs m_context.run()
AcceptGone ==
  /\ status = "running"
  /\ status' = "endpoint_error"
  /\ posted' = {}
  /\ UNCHANGED <<nIDCounter, m_dequeConnections, link, ClientConnections, m_qMessagesIn>>

SetLink(c, s) ==
  /\ status = "running"
  /\ link' = [link EXCEPT ![c] = s]
  /\ posted' = {}
  /\ UNCHANGED <<status, nIDCounter, m_dequeConnections, ClientConnections, m_qMessagesIn>>

Validated(c) == link[c] = "validating" /\ SetLink(c, "ready")

\* Wrong validation code, failed read or failed write.  Only the socket is
\* closed: the connection stays in the deque and in ClientConnections.
SocketCloses(c) == IsConnected(c) /\ SetLink(c, "closed")

\* AddToIncomimgMessageQueue
Receive(c, m) ==
  /\ status = "running"
  /\ link[c] = "ready"
  /\ Len(m_qMessagesIn) < MaxQueue
  /\ m_qMessagesIn' = Append(m_qMessagesIn, [remote |-> c, msg |-> m])
  /\ posted' = {}
  /\ UNCHANGED <<status, nIDCounter, m_dequeConnections, link, ClientConnections>>

-----------------------------------------------------------------------------
(* The main thread: Update pops a message and calls OnMessage *)

Pop(type) ==
  /\ status = "running"
  /\ m_qMessagesIn # <<>>
  /\ Head(m_qMessagesIn).msg.id = type
  /\ m_qMessagesIn' = Tail(m_qMessagesIn)
  /\ UNCHANGED <<nIDCounter, link>>

client == Head(m_qMessagesIn).remote
msg == Head(m_qMessagesIn).msg

\* Mutant: only validated connections are kept.
SweepUnvalidated == m_dequeConnections' = {c \in m_dequeConnections : link[c] = "ready"}

\* MessageAllClient and GetClientList drop the connections they find closed
SweepClosed == m_dequeConnections' = Live

MessageAllClient(m, pIgnoreClient) ==
  /\ posted' = {To(c, m) : c \in Live \ {pIgnoreClient}}
  /\ SweepClosed

OnServerPing ==
  /\ Pop("ServerPing")
  /\ posted' = {To(client, msg)}
  /\ UNCHANGED <<status, m_dequeConnections, ClientConnections>>

OnMessageAll ==
  /\ Pop("MessageAll")
  /\ MessageAllClient(Msg("ServerMessage", client), client)
  /\ UNCHANGED <<status, ClientConnections>>

OnClientList ==
  /\ Pop("ClientList")
  /\ posted' = {To(client, ListMsg(Live))}
  /\ SweepClosed
  /\ UNCHANGED <<status, ClientConnections>>

\* Mutants: only the asking client's key is counted; one emplace is missing;
\* one erase is missing.
CanConnectOneKey(a, b) == ~ Paired(a) /\ a # b
ConnectOneWay(a, b) == ClientConnections' = [ClientConnections EXCEPT ![a] = b]
DisconnectOneWay(a, b) ==
  IF Paired(a) /\ Paired(b) /\ a # b
  THEN ClientConnections' = [ClientConnections EXCEPT ![a] = NoPeer] /\ UNCHANGED status
  ELSE status' = "bad_erase" /\ UNCHANGED ClientConnections

CanConnect(a, b) == ~ Paired(a) /\ ~ Paired(b) /\ a # b

ConnectClients(a, b) ==
  ClientConnections' = [ClientConnections EXCEPT ![a] = b, ![b] = a]

\* erase(find(x)) is undefined when x is not a key
DisconnectClients(a, b) ==
  IF Paired(a) /\ Paired(b) /\ a # b
  THEN /\ ClientConnections' = [ClientConnections EXCEPT ![a] = NoPeer, ![b] = NoPeer]
       /\ UNCHANGED status
  ELSE status' = "bad_erase" /\ UNCHANGED ClientConnections

\* Mutant: the asked client is told its own id instead of the asking one's.
RequestNamesAsked ==
  /\ Pop("RequestToClient")
  /\ LET ID == msg.arg IN
       IF ID \notin m_dequeConnections
       THEN /\ posted' = {To(client, Msg("RequestToClient", NotFound))}
            /\ UNCHANGED ClientConnections
       ELSE IF CanConnect(client, ID)
       THEN /\ ConnectClients(client, ID)
            /\ posted' = {To(ID, Msg("RequestToClient", ID))}
       ELSE /\ posted' = {To(client, Msg("RequestToClient", Busy))}
            /\ UNCHANGED ClientConnections
  /\ UNCHANGED <<status, m_dequeConnections>>

OnRequestToClient ==
  /\ Pop("RequestToClient")
  /\ LET ID == msg.arg IN
       IF ID \notin m_dequeConnections
       THEN /\ posted' = {To(client, Msg("RequestToClient", NotFound))}
            /\ UNCHANGED ClientConnections
       ELSE IF CanConnect(client, ID)
       THEN /\ ConnectClients(client, ID)
            /\ posted' = {To(ID, Msg("RequestToClient", client))}
       ELSE /\ posted' = {To(client, Msg("RequestToClient", Busy))}
            /\ UNCHANGED ClientConnections
  /\ UNCHANGED <<status, m_dequeConnections>>

\* ClientConnections.at(id) throws out_of_range and nothing catches it
AtThrows(type) ==
  /\ Pop(type)
  /\ ~ Paired(client)
  /\ status' = "out_of_range"
  /\ posted' = {}
  /\ UNCHANGED <<m_dequeConnections, ClientConnections>>

\* the handlers that look up the sender's peer
PeerPop(type) == Pop(type) /\ Paired(client) /\ UNCHANGED m_dequeConnections
Peer == ClientConnections[client]

OnTextClient ==
  /\ PeerPop("TextClient")
  /\ IF Peer \in m_dequeConnections /\ ~ IsConnected(Peer)
     THEN /\ DisconnectClients(Peer, client)
          /\ posted' = {To(client, Msg("CloseClient", 0))}
     ELSE /\ posted' = {To(c, msg) : c \in m_dequeConnections \cap {Peer}}
          /\ UNCHANGED <<status, ClientConnections>>

\* the answer is relayed whatever its code, and the pair is kept
OnRequestAnswer ==
  /\ PeerPop("RequestAnswer")
  /\ posted' = {To(c, msg) : c \in m_dequeConnections \cap {Peer}}
  /\ UNCHANGED <<status, ClientConnections>>

OnCloseClient ==
  /\ PeerPop("CloseClient")
  /\ posted' = {To(c, Msg("CloseClient", 0)) : c \in m_dequeConnections \cap {Peer}}
  /\ DisconnectClients(client, Peer)

OnMessage ==
  \/ OnServerPing \/ OnMessageAll \/ OnClientList \/ OnRequestToClient
  \/ OnTextClient \/ OnRequestAnswer \/ OnCloseClient
  \/ \E type \in {"TextClient", "RequestAnswer", "CloseClient"} : AtThrows(type)

-----------------------------------------------------------------------------
AsioStep ==
  \/ Accept \/ AcceptGone
  \/ \E c \in Ids : Validated(c) \/ SocketCloses(c)

Next ==
  \/ AsioStep
  \/ OnMessage
  \/ \E c \in Ids, m \in ClientMessage : Receive(c, m)

Spec == Init /\ [][Next]_vars

-----------------------------------------------------------------------------
TypeOK ==
  /\ status \in {"running", "endpoint_error", "out_of_range", "bad_erase"}
  /\ nIDCounter \in Ids \cup {FirstId + MaxClients}
  /\ m_dequeConnections \in SUBSET Ids
  /\ link \in [Ids -> {"none", "validating", "ready", "closed"}]
  /\ ClientConnections \in [Ids -> Ids \cup {NoPeer}]
  /\ m_qMessagesIn \in Seq([remote : Ids, msg : ClientMessage])
  /\ posted \in SUBSET [to : Ids, msg : Message]

(* ClientConnections is filled and emptied by two emplaces and two erases  *)
(* (net_server.h:160): it must always be a symmetric matching.             *)
PairsSymmetric ==
  \A a \in Ids : Paired(a) =>
    /\ ClientConnections[a] # a
    /\ ClientConnections[ClientConnections[a]] = a

(* DisconnectClients erases find(A) and find(B) unchecked: no sequence of  *)
(* messages and departures may make it erase end().                        *)
EraseDefined == status # "bad_erase"

(* The sweeps in MessageAllClient and GetClientList do not tell            *)
(* ClientConnections: a peer missing from the deque must be a departed one,*)
(* or a live client would be paired with an id nobody can reach.           *)
PeerHeldOrGone ==
  \A a \in Ids : Paired(a) =>
    \/ ClientConnections[a] \in m_dequeConnections
    \/ link[ClientConnections[a]] = "closed"

(* Text and answers carry no sender: the receiver takes them to be from    *)
(* its peer.  They go only to a client whose own peer is the sender.       *)
RelayedBetweenPeers ==
  [][\A p \in posted' : p.msg.id \in {"TextClient", "RequestAnswer"} =>
       ClientConnections[p.to] = client]_vars
=============================================================================
