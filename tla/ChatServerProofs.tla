------------------------- MODULE ChatServerProofs -------------------------
(***************************************************************************)
(* TLAPS proofs about ChatServer, for any number of clients, any queue     *)
(* length and any ids a user may type: whatever the clients send and       *)
(* whenever they leave, the pairs stay a symmetric matching of clients     *)
(* that are held or gone, no erase is undefined, and text reaches only the *)
(* peer of its sender.                                                     *)
(***************************************************************************)
EXTENDS ChatServer, SequenceTheorems, TLAPS

Known(c) == c \in m_dequeConnections \/ link[c] = "closed"

(* Every open socket belongs to a held connection, every held connection   *)
(* has a socket, and the sender of a queued message is held or gone: a     *)
(* sweep between Receive and OnMessage may have dropped it.                *)
SocketsHeld ==
  /\ \A c \in Ids : IsConnected(c) => c \in m_dequeConnections
  /\ \A c \in m_dequeConnections : link[c] # "none"
  /\ \A i \in 1 .. Len(m_qMessagesIn) : Known(m_qMessagesIn[i].remote)

IInv == TypeOK /\ PairsSymmetric /\ EraseDefined /\ PeerHeldOrGone /\ SocketsHeld

Posts == SUBSET [to : Ids, msg : Message]

-----------------------------------------------------------------------------
(* Facts about the constants and the messages *)

LEMMA IdFacts ==
  /\ FirstId \in Ids \cup {FirstId + MaxClients}
  /\ \A c \in Ids : c \in Nat /\ c # NoPeer /\ c + 1 \in Ids \cup {FirstId + MaxClients}
BY IdAssumption DEF IdAssumption, Ids, FirstId, NoPeer

LEMMA MsgTyped ==
  ASSUME NEW t \in MsgTypes, NEW a \in Args
  PROVE  Msg(t, a) \in Message
BY DEF Msg, Message

LEMMA ClientMessageTyped == ClientMessage \subseteq Message
<1> DEFINE T == {"ServerPing", "MessageAll", "ClientList", "CloseClient"}
<1>1. T \cup {"TextClient", "RequestToClient", "RequestAnswer"} \subseteq MsgTypes
  BY DEF MsgTypes
<1>2. {0, 1} \subseteq Args /\ Ids \cup OtherIds \subseteq Args
  BY DEF Args
<1>3. ASSUME NEW m \in ClientMessage PROVE m \in Message
  <2>1. CASE \E t \in T : m = Msg(t, 0)
    BY <1>1, <1>2, <2>1, MsgTyped
  <2>2. CASE \E i \in Ids \cup OtherIds : m = Msg("RequestToClient", i)
    BY <1>1, <1>2, <2>2, MsgTyped
  <2>3. CASE \E a \in {0, 1} : m = Msg("RequestAnswer", a)
    BY <1>1, <1>2, <2>3, MsgTyped
  <2>4. CASE \E i \in Ids : m = Msg("TextClient", i)
    BY <1>1, <1>2, <2>4, MsgTyped
  <2>5. QED
    BY <1>3, <2>1, <2>2, <2>3, <2>4 DEF ClientMessage
<1>4. QED
  BY <1>3

LEMMA ToTyped ==
  ASSUME NEW c \in Ids, NEW m \in Message
  PROVE  To(c, m) \in [to : Ids, msg : Message]
BY DEF To

(* Popping yields a typed message whose sender is held or gone. *)
LEMMA PopFacts ==
  ASSUME TypeOK, SocketsHeld, NEW type, Pop(type)
  PROVE  /\ client \in Ids /\ msg \in ClientMessage /\ msg.id = type
         /\ Known(client)
         /\ m_qMessagesIn' \in Seq([remote : Ids, msg : ClientMessage])
         /\ Len(m_qMessagesIn') = Len(m_qMessagesIn) - 1
         /\ \A i \in 1 .. Len(m_qMessagesIn') : m_qMessagesIn'[i] = m_qMessagesIn[i + 1]
<1> DEFINE Item == [remote : Ids, msg : ClientMessage]
<1>1. m_qMessagesIn \in Seq(Item) /\ m_qMessagesIn # <<>>
  BY DEF TypeOK, Pop
<1> HIDE DEF Item
<1>2. Head(m_qMessagesIn) \in Item
  BY <1>1
<1>3. Head(m_qMessagesIn) = m_qMessagesIn[1] /\ 1 \in 1 .. Len(m_qMessagesIn)
  BY <1>1
<1>8. /\ Tail(m_qMessagesIn) \in Seq(Item)
      /\ Len(Tail(m_qMessagesIn)) = Len(m_qMessagesIn) - 1
      /\ \A i \in 1 .. Len(Tail(m_qMessagesIn)) : Tail(m_qMessagesIn)[i] = m_qMessagesIn[i + 1]
  BY <1>1
<1>4. Known(client)
  BY <1>3 DEF SocketsHeld, client
<1>5. client \in Ids /\ msg \in ClientMessage /\ msg.id = type
  BY <1>2 DEF client, msg, Pop, Item
<1>6. m_qMessagesIn' = Tail(m_qMessagesIn)
  BY DEF Pop
<1>7. QED
  BY <1>8, <1>4, <1>5, <1>6 DEF Item

(* The argument of a request is a typed id. *)
LEMMA RequestArg ==
  ASSUME NEW m \in ClientMessage, m.id = "RequestToClient"
  PROVE  m.arg \in Ids \cup OtherIds
BY DEF ClientMessage, Msg

-----------------------------------------------------------------------------
(* The two updates of ClientConnections *)

LEMMA ConnectInv ==
  ASSUME TypeOK, PairsSymmetric, PeerHeldOrGone,
         NEW a \in Ids, NEW b \in Ids, CanConnect(a, b), ConnectClients(a, b),
         Known(a), Known(b), UNCHANGED <<m_dequeConnections, link>>
  PROVE  /\ ClientConnections' \in [Ids -> Ids \cup {NoPeer}]
         /\ PairsSymmetric' /\ PeerHeldOrGone'
<1>1. /\ a # b /\ ClientConnections[a] = NoPeer /\ ClientConnections[b] = NoPeer
      /\ a # NoPeer /\ b # NoPeer
  BY IdFacts DEF CanConnect, Paired
<1>2. /\ ClientConnections' \in [Ids -> Ids \cup {NoPeer}]
      /\ ClientConnections'[a] = b /\ ClientConnections'[b] = a
      /\ \A c \in Ids \ {a, b} : ClientConnections'[c] = ClientConnections[c]
  BY <1>1 DEF ConnectClients, TypeOK
<1>3. \A c \in Ids \ {a, b} : ClientConnections[c] \notin {a, b}
  BY <1>1, IdFacts DEF PairsSymmetric, Paired
<1>4. PairsSymmetric'
  BY <1>1, <1>2, <1>3 DEF PairsSymmetric, Paired, TypeOK
<1>5. PeerHeldOrGone'
  BY <1>1, <1>2 DEF PeerHeldOrGone, Paired, Known
<1>6. QED
  BY <1>2, <1>4, <1>5

LEMMA DisconnectInv ==
  ASSUME TypeOK, PairsSymmetric, PeerHeldOrGone,
         NEW a \in Ids, NEW b \in Ids, ClientConnections[a] = b, DisconnectClients(a, b),
         UNCHANGED <<m_dequeConnections, link>>
  PROVE  /\ ClientConnections' \in [Ids -> Ids \cup {NoPeer}]
         /\ status' = status
         /\ PairsSymmetric' /\ PeerHeldOrGone'
<1>1. /\ a # b /\ ClientConnections[b] = a
      /\ Paired(a) /\ Paired(b)
      /\ a # NoPeer /\ b # NoPeer
  BY IdFacts DEF PairsSymmetric, Paired
<1>2. /\ status' = status
      /\ ClientConnections' = [ClientConnections EXCEPT ![a] = NoPeer, ![b] = NoPeer]
  BY <1>1 DEF DisconnectClients
<1>3. /\ ClientConnections' \in [Ids -> Ids \cup {NoPeer}]
      /\ ClientConnections'[a] = NoPeer /\ ClientConnections'[b] = NoPeer
      /\ \A c \in Ids \ {a, b} : ClientConnections'[c] = ClientConnections[c]
  BY <1>2 DEF TypeOK
<1>4. \A c \in Ids \ {a, b} : ClientConnections[c] \notin {a, b}
  BY <1>1 DEF PairsSymmetric, Paired
<1>5. PairsSymmetric'
  BY <1>3, <1>4 DEF PairsSymmetric, Paired, TypeOK
<1>6. PeerHeldOrGone'
  BY <1>3 DEF PeerHeldOrGone, Paired
<1>7. QED
  BY <1>2, <1>3, <1>5, <1>6

(* Handling a message keeps the queue's senders known, swept or not. *)
LEMMA PopInv ==
  ASSUME TypeOK, SocketsHeld, NEW type, Pop(type),
         SweepClosed \/ UNCHANGED m_dequeConnections
  PROVE  /\ SocketsHeld'
         /\ m_dequeConnections' \in SUBSET Ids
         /\ PeerHeldOrGone /\ UNCHANGED ClientConnections => PeerHeldOrGone'
<1>1. link' = link
  BY DEF Pop
<1>2. \A c \in m_dequeConnections : c \in m_dequeConnections' \/ link[c] = "closed"
  BY DEF SweepClosed, Live, IsConnected, SocketsHeld, TypeOK
<1>3. m_dequeConnections' \subseteq m_dequeConnections
  BY DEF SweepClosed, Live
<1>4. \A c \in Ids : IsConnected(c) => c \in m_dequeConnections'
  BY DEF SweepClosed, Live, SocketsHeld
<1>5. \A c \in Ids : Known(c) => Known(c)'
  BY <1>1, <1>2 DEF Known
<1>6. /\ m_qMessagesIn' \in Seq([remote : Ids, msg : ClientMessage])
      /\ Len(m_qMessagesIn') = Len(m_qMessagesIn) - 1
      /\ \A i \in 1 .. Len(m_qMessagesIn') : m_qMessagesIn'[i] = m_qMessagesIn[i + 1]
  BY PopFacts
<1>7. ASSUME NEW i \in 1 .. Len(m_qMessagesIn') PROVE Known(m_qMessagesIn[i].remote)'
  <2>1. m_qMessagesIn'[i] \in [remote : Ids, msg : ClientMessage]
    BY <1>6, ElementOfSeq
  <2>2. m_qMessagesIn'[i].remote \in Ids
    BY <2>1
  <2>3. Len(m_qMessagesIn) \in Nat /\ i \in Nat
    BY DEF TypeOK
  <2>4. i + 1 \in 1 .. Len(m_qMessagesIn)
    BY <1>6, <2>3
  <2>5. Known(m_qMessagesIn'[i].remote)
    BY <1>6, <2>4 DEF SocketsHeld
  <2>6. QED
    BY <1>1, <1>2, <2>2, <2>5 DEF Known
<1>8. SocketsHeld'
  <2>1. \A c \in Ids : IsConnected(c)' => c \in m_dequeConnections'
    BY <1>1, <1>4 DEF IsConnected
  <2>2. \A c \in m_dequeConnections' : link'[c] # "none"
    BY <1>1, <1>3 DEF SocketsHeld
  <2>3. QED
    BY <1>7, <2>1, <2>2 DEF SocketsHeld
<1>9. QED
  BY <1>1, <1>2, <1>3, <1>8 DEF PeerHeldOrGone, Paired, TypeOK

-----------------------------------------------------------------------------
(* Initial states and the asio thread's actions *)

LEMMA InitInv == Init => IInv
<1> SUFFICES ASSUME Init PROVE IInv
  OBVIOUS
<1>1. TypeOK
  BY IdFacts DEF Init, TypeOK
<1>2. PairsSymmetric /\ EraseDefined /\ PeerHeldOrGone
  BY DEF Init, PairsSymmetric, EraseDefined, PeerHeldOrGone, Paired
<1>3. SocketsHeld
  BY DEF Init, SocketsHeld, IsConnected
<1>4. QED
  BY <1>1, <1>2, <1>3 DEF IInv

LEMMA AcceptInv == IInv /\ Accept => IInv'
<1> SUFFICES ASSUME IInv, Accept PROVE IInv'
  OBVIOUS
<1> DEFINE n == nIDCounter
<1>1. n \in Ids /\ n + 1 \in Ids \cup {FirstId + MaxClients}
  BY IdFacts DEF Accept
<1>2. Welcome(n) \in Posts
  <2>1. "ServerAccept" \in MsgTypes /\ n \in Args
    BY <1>1 DEF MsgTypes, Args
  <2>2. QED
    BY <1>1, <2>1, MsgTyped, ToTyped DEF Posts, Welcome
<1>3. TypeOK'
  BY <1>1, <1>2 DEF IInv, TypeOK, Accept, Posts
<1>4. PairsSymmetric' /\ EraseDefined'
  BY DEF IInv, Accept, PairsSymmetric, EraseDefined, Paired
<1>5. /\ \A c \in Ids \ {n} : link'[c] = link[c]
      /\ link'[n] = "validating"
      /\ n \in m_dequeConnections'
      /\ m_dequeConnections \subseteq m_dequeConnections'
      /\ m_dequeConnections' \ {n} \subseteq m_dequeConnections
  BY <1>1 DEF Accept, IInv, TypeOK
<1>6. PeerHeldOrGone'
  BY <1>1, <1>5 DEF IInv, TypeOK, Accept, PeerHeldOrGone, Paired
<1>7. SocketsHeld'
  <2>1. \A c \in Ids : IsConnected(c)' => c \in m_dequeConnections'
    BY <1>5 DEF IInv, SocketsHeld, IsConnected
  <2>2. \A c \in m_dequeConnections' : link'[c] # "none"
    BY <1>5 DEF IInv, SocketsHeld, TypeOK
  <2>3. ASSUME NEW i \in 1 .. Len(m_qMessagesIn) PROVE Known(m_qMessagesIn[i].remote)'
    <3>1. m_qMessagesIn[i] \in [remote : Ids, msg : ClientMessage]
      BY ElementOfSeq DEF IInv, TypeOK
    <3>2. m_qMessagesIn[i].remote \in Ids
      BY <3>1
    <3>3. Known(m_qMessagesIn[i].remote)
      BY DEF IInv, SocketsHeld
    <3>4. m_qMessagesIn' = m_qMessagesIn
      BY DEF Accept
    <3>5. QED
      BY <1>5, <3>2, <3>3, <3>4 DEF Known
  <2>4. m_qMessagesIn' = m_qMessagesIn
    BY DEF Accept
  <2>5. QED
    BY <2>1, <2>2, <2>3, <2>4 DEF SocketsHeld
<1>8. QED
  BY <1>3, <1>4, <1>6, <1>7 DEF IInv

(* A socket that changes state without becoming new or reopening. *)
LEMMA SetLinkInv ==
  ASSUME IInv, NEW c \in Ids, IsConnected(c), NEW s \in {"ready", "closed"}, SetLink(c, s)
  PROVE  IInv'
<1>1. link' = [link EXCEPT ![c] = s]
  BY DEF SetLink
<1>2. /\ UNCHANGED <<status, nIDCounter, m_dequeConnections, ClientConnections, m_qMessagesIn>>
      /\ posted' = {}
  BY DEF SetLink
<1>3. TypeOK'
  BY <1>1, <1>2 DEF IInv, TypeOK
<1>4. PairsSymmetric' /\ EraseDefined'
  BY <1>2 DEF IInv, PairsSymmetric, EraseDefined, Paired
<1>5. \A d \in Ids : link'[d] = IF d = c THEN s ELSE link[d]
  BY <1>1 DEF IInv, TypeOK
<1>6. link[c] # "closed" /\ c \in m_dequeConnections
  BY DEF IInv, SocketsHeld, IsConnected
<1>7. PeerHeldOrGone'
  BY <1>2, <1>5, <1>6 DEF IInv, TypeOK, PeerHeldOrGone, Paired
<1>8. SocketsHeld'
  <2>1. \A d \in Ids : IsConnected(d)' => d \in m_dequeConnections'
    BY <1>2, <1>5, <1>6 DEF IInv, SocketsHeld, IsConnected
  <2>2. \A d \in m_dequeConnections' : link'[d] # "none"
    BY <1>2, <1>5 DEF IInv, SocketsHeld, TypeOK
  <2>3. ASSUME NEW i \in 1 .. Len(m_qMessagesIn) PROVE Known(m_qMessagesIn[i].remote)'
    <3>1. m_qMessagesIn[i] \in [remote : Ids, msg : ClientMessage]
      BY ElementOfSeq DEF IInv, TypeOK
    <3>2. m_qMessagesIn[i].remote \in Ids
      BY <3>1
    <3>3. Known(m_qMessagesIn[i].remote)
      BY DEF IInv, SocketsHeld
    <3>4. QED
      BY <1>2, <1>5, <1>6, <3>2, <3>3 DEF Known
  <2>4. QED
    BY <1>2, <2>1, <2>2, <2>3 DEF SocketsHeld
<1>9. QED
  BY <1>3, <1>4, <1>7, <1>8 DEF IInv

LEMMA ReceiveInv ==
  ASSUME IInv, NEW c \in Ids, NEW m \in ClientMessage, Receive(c, m)
  PROVE  IInv'
<1> DEFINE Item == [remote : Ids, msg : ClientMessage]
           item == [remote |-> c, msg |-> m]
<1>1. item \in Item
  OBVIOUS
<1>2. m_qMessagesIn' = Append(m_qMessagesIn, item)
  BY DEF Receive
<1>3. /\ UNCHANGED <<status, nIDCounter, m_dequeConnections, link, ClientConnections>>
      /\ posted' = {}
      /\ link[c] = "ready"
  BY DEF Receive
<1>4. item.remote = c
  OBVIOUS
<1>5. m_qMessagesIn \in Seq(Item)
  BY DEF IInv, TypeOK
<1> HIDE DEF Item, item
<1>6. /\ m_qMessagesIn' \in Seq(Item)
      /\ Len(m_qMessagesIn') = Len(m_qMessagesIn) + 1
      /\ \A i \in 1 .. Len(m_qMessagesIn) : m_qMessagesIn'[i] = m_qMessagesIn[i]
      /\ m_qMessagesIn'[Len(m_qMessagesIn) + 1] = item
  BY <1>1, <1>2, <1>5, AppendProperties
<1>7. TypeOK'
  BY <1>3, <1>6 DEF IInv, TypeOK, Item
<1>8. PairsSymmetric' /\ EraseDefined' /\ PeerHeldOrGone'
  BY <1>3 DEF IInv, PairsSymmetric, EraseDefined, PeerHeldOrGone, Paired
<1>9. Known(c)
  BY <1>3 DEF IInv, SocketsHeld, IsConnected, Known
<1>10. ASSUME NEW i \in 1 .. Len(m_qMessagesIn') PROVE Known(m_qMessagesIn[i].remote)' 
  <2>1. Len(m_qMessagesIn) \in Nat
    BY <1>5
  <2>2. CASE i = Len(m_qMessagesIn) + 1
    BY <1>3, <1>4, <1>6, <1>9, <2>2 DEF Known
  <2>3. CASE i \in 1 .. Len(m_qMessagesIn)
    BY <1>3, <1>6, <2>3 DEF IInv, SocketsHeld, Known
  <2>4. QED
    BY <1>6, <2>1, <2>2, <2>3
<1>11. SocketsHeld'
  BY <1>3, <1>10 DEF IInv, SocketsHeld, IsConnected
<1>12. QED
  BY <1>7, <1>8, <1>11 DEF IInv

-----------------------------------------------------------------------------
(* The handlers of OnMessage *)

(* What a handler has to show of its own: the pairs it leaves behind. *)
LEMMA HandlerInv ==
  ASSUME IInv, NEW type, Pop(type),
         SweepClosed \/ UNCHANGED m_dequeConnections,
         status' \in {"running", "out_of_range"},
         ClientConnections' \in [Ids -> Ids \cup {NoPeer}],
         PairsSymmetric', PeerHeldOrGone', posted' \in Posts
  PROVE  IInv'
<1>1. SocketsHeld' /\ m_dequeConnections' \in SUBSET Ids
  BY PopInv DEF IInv
<1>2. m_qMessagesIn' \in Seq([remote : Ids, msg : ClientMessage])
  BY PopFacts DEF IInv
<1>3. UNCHANGED <<nIDCounter, link>>
  BY DEF Pop
<1>4. TypeOK'
  BY <1>1, <1>2, <1>3 DEF IInv, TypeOK, Posts
<1>5. EraseDefined'
  BY DEF EraseDefined
<1>6. QED
  BY <1>1, <1>4, <1>5 DEF IInv

(* The handlers that leave the pairs alone. *)
LEMMA KeepPairsInv ==
  ASSUME IInv, NEW type, Pop(type),
         SweepClosed \/ UNCHANGED m_dequeConnections,
         status' \in {status, "out_of_range"},
         UNCHANGED ClientConnections, posted' \in Posts
  PROVE  IInv'
<1>1. status' \in {"running", "out_of_range"}
  BY DEF Pop
<1>2. PeerHeldOrGone'
  BY PopInv DEF IInv
<1>3. PairsSymmetric' /\ ClientConnections' \in [Ids -> Ids \cup {NoPeer}]
  BY DEF IInv, TypeOK, PairsSymmetric, Paired
<1>4. QED
  BY <1>1, <1>2, <1>3, HandlerInv

LEMMA PostsTo ==
  ASSUME NEW C \in SUBSET Ids, NEW m \in Message
  PROVE  {To(c, m) : c \in C} \in Posts
BY ToTyped DEF Posts

LEMMA PostsOne ==
  ASSUME NEW c \in Ids, NEW m \in Message
  PROVE  {To(c, m)} \in Posts
BY ToTyped DEF Posts

LEMMA NoArgTyped ==
  ASSUME NEW t \in MsgTypes
  PROVE  Msg(t, 0) \in Message
BY MsgTyped DEF Args

LEMMA EchoInv ==
  ASSUME IInv, OnServerPing \/ OnMessageAll \/ OnClientList
  PROVE  IInv'
<1>1. CASE OnServerPing
  <2>1. client \in Ids /\ msg \in Message
    BY <1>1, PopFacts, ClientMessageTyped DEF IInv, OnServerPing
  <2>2. posted' \in Posts
    BY <1>1, <2>1, PostsOne DEF OnServerPing
  <2>3. QED
    BY <1>1, <2>2, KeepPairsInv DEF OnServerPing
<1>2. CASE OnMessageAll
  <2>1. client \in Ids
    BY <1>2, PopFacts DEF IInv, OnMessageAll
  <2>2. Msg("ServerMessage", client) \in Message
    BY <2>1, MsgTyped DEF MsgTypes, Args
  <2>3. Live \ {client} \in SUBSET Ids
    BY DEF IInv, TypeOK, Live
  <2>4. posted' \in Posts
    BY <1>2, <2>2, <2>3, PostsTo DEF OnMessageAll, MessageAllClient
  <2>5. QED
    BY <1>2, <2>4, KeepPairsInv DEF OnMessageAll, MessageAllClient
<1>3. CASE OnClientList
  <2>1. client \in Ids
    BY <1>3, PopFacts DEF IInv, OnClientList
  <2>2. Live \in SUBSET Ids
    BY DEF IInv, TypeOK, Live
  <2>3. ListMsg(Live) \in Message
    BY <2>2 DEF ListMsg, Message, MsgTypes, Args
  <2>4. posted' \in Posts
    BY <1>3, <2>1, <2>3, PostsOne DEF OnClientList
  <2>5. QED
    BY <1>3, <2>4, KeepPairsInv DEF OnClientList
<1>4. QED
  BY <1>1, <1>2, <1>3

LEMMA RequestInv == IInv /\ OnRequestToClient => IInv'
<1> SUFFICES ASSUME IInv, OnRequestToClient PROVE IInv'
  OBVIOUS
<1> DEFINE ID == msg.arg
<1>1. /\ Pop("RequestToClient")
      /\ UNCHANGED <<status, m_dequeConnections>>
      /\ status' = "running"
  BY DEF OnRequestToClient, Pop
<1>2. client \in Ids /\ Known(client)
  BY <1>1, PopFacts DEF IInv
<1>3. \A a \in Ids \cup {NotFound, Busy} : Msg("RequestToClient", a) \in Message
  BY MsgTyped DEF MsgTypes, Args, NotFound, Busy
<1>4. CASE ID \notin m_dequeConnections \/ ~ CanConnect(client, ID)
  <2>1. posted' \in Posts /\ UNCHANGED ClientConnections
    BY <1>2, <1>3, <1>4, PostsOne DEF OnRequestToClient
  <2>2. QED
    BY <1>1, <2>1, KeepPairsInv
<1>5. CASE ID \in m_dequeConnections /\ CanConnect(client, ID)
  <2>1. ConnectClients(client, ID) /\ posted' = {To(ID, Msg("RequestToClient", client))}
    BY <1>5 DEF OnRequestToClient
  <2>2. ID \in Ids /\ Known(ID)
    BY <1>5 DEF IInv, TypeOK, Known
  <2>3. posted' \in Posts
    BY <1>2, <1>3, <2>1, <2>2, PostsOne
  <2>4. link' = link
    BY <1>1 DEF Pop
  <2>5. /\ ClientConnections' \in [Ids -> Ids \cup {NoPeer}]
        /\ PairsSymmetric' /\ PeerHeldOrGone'
    <3> HIDE DEF ID
    <3>1. QED
      BY <1>1, <1>2, <1>5, <2>1, <2>2, <2>4, ConnectInv DEF IInv
  <2>6. QED
    BY <1>1, <2>3, <2>5, HandlerInv
<1>6. QED
  BY <1>4, <1>5

LEMMA ThrowInv ==
  ASSUME IInv, NEW type, AtThrows(type)
  PROVE  IInv'
<1>1. posted' \in Posts
  BY DEF AtThrows, Posts
<1>2. QED
  BY <1>1, KeepPairsInv DEF AtThrows

(* A paired sender and its peer name each other. *)
LEMMA PeerFacts ==
  ASSUME IInv, NEW type, PeerPop(type)
  PROVE  /\ client \in Ids /\ Peer \in Ids
         /\ ClientConnections[client] = Peer /\ ClientConnections[Peer] = client
         /\ Pop(type) /\ status = "running" /\ UNCHANGED <<m_dequeConnections, link>>
         /\ msg \in Message
         /\ \A m \in Message : {To(c, m) : c \in m_dequeConnections \cap {Peer}} \in Posts
<1>1. Pop(type) /\ Paired(client) /\ UNCHANGED m_dequeConnections
  BY DEF PeerPop
<1>2. client \in Ids /\ msg \in ClientMessage
  BY <1>1, PopFacts DEF IInv
<1>3. Peer \in Ids /\ ClientConnections[Peer] = client
  BY <1>1, <1>2 DEF IInv, TypeOK, PairsSymmetric, Paired, Peer
<1>4. \A m \in Message : {To(c, m) : c \in m_dequeConnections \cap {Peer}} \in Posts
  BY <1>3, PostsTo
<1>5. QED
  BY <1>1, <1>2, <1>3, <1>4, ClientMessageTyped DEF Pop, Peer

LEMMA CloseIsMessage == Msg("CloseClient", 0) \in Message
BY NoArgTyped DEF MsgTypes

LEMMA TextInv == IInv /\ OnTextClient => IInv'
<1> SUFFICES ASSUME IInv, OnTextClient PROVE IInv'
  OBVIOUS
<1>1. PeerPop("TextClient")
  BY DEF OnTextClient
<1>2. CASE Peer \in m_dequeConnections /\ ~ IsConnected(Peer)
  <2>1. DisconnectClients(Peer, client) /\ posted' = {To(client, Msg("CloseClient", 0))}
    BY <1>2 DEF OnTextClient
  <2>2. posted' \in Posts
    BY <1>1, <2>1, PeerFacts, CloseIsMessage, PostsOne
  <2>3. /\ ClientConnections' \in [Ids -> Ids \cup {NoPeer}]
        /\ status' = status /\ PairsSymmetric' /\ PeerHeldOrGone'
    BY <1>1, <2>1, PeerFacts, DisconnectInv DEF IInv
  <2>4. QED
    BY <1>1, <2>2, <2>3, PeerFacts, HandlerInv
<1>3. CASE ~ (Peer \in m_dequeConnections /\ ~ IsConnected(Peer))
  <2>1. /\ posted' = {To(c, msg) : c \in m_dequeConnections \cap {Peer}}
        /\ UNCHANGED <<status, ClientConnections>>
    BY <1>3 DEF OnTextClient
  <2>2. QED
    BY <1>1, <2>1, PeerFacts, KeepPairsInv
<1>4. QED
  BY <1>2, <1>3

LEMMA AnswerInv == IInv /\ OnRequestAnswer => IInv'
<1> SUFFICES ASSUME IInv, OnRequestAnswer PROVE IInv'
  OBVIOUS
<1>1. /\ PeerPop("RequestAnswer")
      /\ posted' = {To(c, msg) : c \in m_dequeConnections \cap {Peer}}
      /\ UNCHANGED <<status, ClientConnections>>
  BY DEF OnRequestAnswer
<1>2. QED
  BY <1>1, PeerFacts, KeepPairsInv

LEMMA CloseInv == IInv /\ OnCloseClient => IInv'
<1> SUFFICES ASSUME IInv, OnCloseClient PROVE IInv'
  OBVIOUS
<1>1. /\ PeerPop("CloseClient")
      /\ posted' = {To(c, Msg("CloseClient", 0)) : c \in m_dequeConnections \cap {Peer}}
      /\ DisconnectClients(client, Peer)
  BY DEF OnCloseClient
<1>2. posted' \in Posts
  BY <1>1, PeerFacts, CloseIsMessage
<1>3. /\ ClientConnections' \in [Ids -> Ids \cup {NoPeer}]
      /\ status' = status /\ PairsSymmetric' /\ PeerHeldOrGone'
  BY <1>1, PeerFacts, DisconnectInv DEF IInv
<1>4. QED
  BY <1>1, <1>2, <1>3, PeerFacts, HandlerInv

LEMMA OnMessageInv == IInv /\ OnMessage => IInv'
BY EchoInv, RequestInv, TextInv, AnswerInv, CloseInv, ThrowInv DEF OnMessage

LEMMA NextInv == IInv /\ [Next]_vars => IInv'
<1> SUFFICES ASSUME IInv, [Next]_vars PROVE IInv'
  OBVIOUS
<1>1. CASE Accept
  BY <1>1, AcceptInv
<1>2. CASE AcceptGone
  <2>1. TypeOK'
    BY <1>2 DEF AcceptGone, IInv, TypeOK
  <2>2. (PairsSymmetric /\ EraseDefined /\ PeerHeldOrGone)'
    BY <1>2 DEF AcceptGone, IInv, PairsSymmetric, EraseDefined, PeerHeldOrGone, Paired
  <2>3. SocketsHeld'
    BY <1>2 DEF AcceptGone, IInv, SocketsHeld, IsConnected, Known
  <2>4. QED
    BY <2>1, <2>2, <2>3 DEF IInv
<1>3. ASSUME NEW c \in Ids, Validated(c) PROVE IInv'
  BY <1>3, SetLinkInv DEF Validated, IsConnected
<1>4. ASSUME NEW c \in Ids, SocketCloses(c) PROVE IInv'
  BY <1>4, SetLinkInv DEF SocketCloses
<1>5. CASE OnMessage
  BY <1>5, OnMessageInv
<1>6. ASSUME NEW c \in Ids, NEW m \in ClientMessage, Receive(c, m) PROVE IInv'
  BY <1>6, ReceiveInv
<1>7. CASE UNCHANGED vars
  <2>1. TypeOK'
    BY <1>7 DEF vars, IInv, TypeOK
  <2>2. (PairsSymmetric /\ EraseDefined /\ PeerHeldOrGone)'
    BY <1>7 DEF vars, IInv, PairsSymmetric, EraseDefined, PeerHeldOrGone, Paired
  <2>3. SocketsHeld'
    BY <1>7 DEF vars, IInv, SocketsHeld, IsConnected, Known
  <2>4. QED
    BY <2>1, <2>2, <2>3 DEF IInv
<1>8. QED
  BY <1>1, <1>2, <1>3, <1>4, <1>5, <1>6, <1>7 DEF Next, AsioStep

-----------------------------------------------------------------------------
(* The server's state stays in the inductive invariant, whatever its       *)
(* clients send and whenever their sockets close (net_server.h:177).       *)
THEOREM Invariance == Spec => []IInv
BY InitInv, NextInv, PTL DEF Spec

(* Type correctness of the server's fields. *)
THEOREM TypeCorrect == Spec => []TypeOK
<1>1. IInv => TypeOK
  BY DEF IInv
<1>2. QED
  BY Invariance, <1>1, PTL

(* ConnectClients and DisconnectClients (net_server.h:160) keep            *)
(* ClientConnections a symmetric matching.                                 *)
THEOREM PairsStaySymmetric == Spec => []PairsSymmetric
<1>1. IInv => PairsSymmetric
  BY DEF IInv
<1>2. QED
  BY Invariance, <1>1, PTL

(* DisconnectClients (net_server.h:171) never erases end(). *)
THEOREM EraseIsDefined == Spec => []EraseDefined
<1>1. IInv => EraseDefined
  BY DEF IInv
<1>2. QED
  BY Invariance, <1>1, PTL

(* A peer that MessageAllClient or GetClientList swept (net_server.h:105)  *)
(* had closed its socket.                                                  *)
THEOREM PeerIsHeldOrGone == Spec => []PeerHeldOrGone
<1>1. IInv => PeerHeldOrGone
  BY DEF IInv
<1>2. QED
  BY Invariance, <1>1, PTL

LEMMA StepRelays ==
  ASSUME IInv, [Next]_vars
  PROVE  [\A p \in posted' : p.msg.id \in {"TextClient", "RequestAnswer"} =>
            ClientConnections[p.to] = client]_vars
<1> DEFINE Relays == \A p \in posted' : p.msg.id \in {"TextClient", "RequestAnswer"} =>
                       ClientConnections[p.to] = client
<1>1. CASE OnTextClient \/ OnRequestAnswer
  <2>1. ClientConnections[Peer] = client
    BY <1>1, PeerFacts DEF OnTextClient, OnRequestAnswer
  <2>2. \A p \in posted' : p.msg.id \in {"TextClient", "RequestAnswer"} => p.to = Peer
    BY <1>1 DEF OnTextClient, OnRequestAnswer, To, Msg
  <2>3. QED
    BY <2>1, <2>2
<1>2. CASE OnServerPing \/ OnMessageAll \/ OnClientList \/ OnRequestToClient \/ OnCloseClient
  BY <1>2 DEF OnServerPing, OnMessageAll, OnClientList, OnRequestToClient, OnCloseClient,
              Pop, MessageAllClient, To, Msg, ListMsg, msg
<1>3. CASE AsioStep
  BY <1>3 DEF AsioStep, Accept, Welcome, AcceptGone, Validated, SocketCloses, SetLink, To, Msg
<1>4. ASSUME NEW c \in Ids, NEW m \in ClientMessage, Receive(c, m) PROVE Relays
  BY <1>4 DEF Receive
<1>5. ASSUME NEW type, AtThrows(type) PROVE Relays
  BY <1>5 DEF AtThrows
<1>6. QED
  BY <1>1, <1>2, <1>3, <1>4, <1>5 DEF Next, OnMessage

(* Text and answers reach only the client whose peer sent them             *)
(* (Server.cpp:93, :116): TextClient messages carry no sender.             *)
THEOREM RelayIsBetweenPeers == Spec => RelayedBetweenPeers
<1>1. IInv /\ [Next]_vars =>
        [\A p \in posted' : p.msg.id \in {"TextClient", "RequestAnswer"} =>
            ClientConnections[p.to] = client]_vars
  BY StepRelays
<1>2. QED
  BY Invariance, <1>1, PTL DEF Spec, RelayedBetweenPeers
=============================================================================
