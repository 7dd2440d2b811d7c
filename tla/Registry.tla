------------------------------ MODULE Registry -----------------------------
(***************************************************************************)
(* The server's m_dequeConnections (Net_chat/net_server.h), entry by       *)
(* entry: ChatServer takes an acceptance or a sweep for one step, here the *)
(* asio thread accepts and closes between any two entries that the main    *)
(* thread visits, between its std::remove and its erase, and between a     *)
(* push_back and the back() that follows it.  The deque has no lock.  What *)
(* asio does for a connection is one step in which its socket is closed or *)
(* a message of it is queued; Connection has the detail.                   *)
(*                                                                         *)
(* A push_back while the main thread iterates, removes or erases is        *)
(* undefined.  Either it takes effect between two steps of the main        *)
(* thread, or the program does something else: it ends (AcceptRaces).      *)
(***************************************************************************)
EXTENDS Integers, Sequences, SequencesExt

CONSTANTS
  MaxConnections,   \* bound of the model: connections accepted
  MaxMessages       \* bound of the model: messages read

FirstId == 10000
NoOne == 0          \* a null shared_ptr; no connection

Conns == 1 .. MaxConnections
\* RequestToClient stands for the four types whose handlers look for an id.
Kinds == {"MessageAll", "ClientList", "RequestToClient"}

ASSUME RegistryAssumption == MaxConnections \in Nat /\ MaxMessages \in Nat

VARIABLES
  m_dequeConnections,   \* connections and null pointers
  nIDCounter,
  sock,                 \* the socket of each connection
  id,                   \* 0 until ConnectToClient
  told,                 \* the id each connection's ServerAccept names
  accepting,            \* between push_back and back(): the new connection
  showing,              \* between ConnectToClient and the back() that follows
  m_qMessagesIn,        \* [remote, kind]
  read,                 \* how many messages were read
  task,                 \* the loop of the main thread
  lost,                 \* connections that an erase has dropped with the nulls
  status

vars == <<m_dequeConnections, nIDCounter, sock, id, told, accepting, showing,
          m_qMessagesIn, read, task, lost, status>>

\* task.throughout and task.reached record, for the properties, who has been
\* held and connected since the loop began and whom it has sent to or listed.
Idle == [pc |-> "idle", kind |-> "MessageAll", client |-> NoOne, i |-> 1, end |-> 0,
         InvalidClientExists |-> FALSE, throughout |-> {}, reached |-> {}]

Init ==
  /\ m_dequeConnections = <<>>
  /\ nIDCounter = FirstId
  /\ sock = [c \in Conns |-> "none"]
  /\ id = [c \in Conns |-> 0]
  /\ told = [c \in Conns |-> 0]
  /\ accepting = NoOne
  /\ showing = FALSE
  /\ m_qMessagesIn = <<>>
  /\ read = 0
  /\ task = Idle
  /\ lost = {}
  /\ status = "running"

Held == ToSet(m_dequeConnections) \ {NoOne}
IsConnected(c) == sock[c] = "open"
Running == status = "running"

-----------------------------------------------------------------------------
(* The asio thread *)

Accepted == {c \in Conns : sock[c] # "none"}

\* the asio thread is not in the accept handler
AsioFree == Running /\ accepting = NoOne /\ ~ showing

\* A new connection, OnClientConnect and push_back.
AcceptPush ==
  /\ AsioFree
  /\ \E c \in Conns :
       /\ Accepted = 1 .. c - 1
       /\ sock' = [sock EXCEPT ![c] = "open"]
       /\ told' = [told EXCEPT ![c] = nIDCounter]
       /\ accepting' = c
       /\ m_dequeConnections' = Append(m_dequeConnections, c)
  /\ UNCHANGED <<nIDCounter, id, showing, m_qMessagesIn, read, task, lost, status>>

\* The push_back invalidates the iterators of the main thread, or its writes and
\* the main thread's mix.
AcceptRaces ==
  /\ AsioFree
  /\ Accepted # Conns
  /\ task.pc # "idle"
  /\ status' = "undefined"
  /\ UNCHANGED <<m_dequeConnections, nIDCounter, sock, id, told, accepting, showing,
                 m_qMessagesIn, read, task, lost>>

\* Mutant: the connection is given the next id.
NextId == nIDCounter + 1
GivenId == nIDCounter

\* back() of an empty deque, or of a null pointer, ends the program
HasBack == m_dequeConnections # <<>> /\ Last(m_dequeConnections) # NoOne

\* back()->ConnectToClient(this, nIDCounter++), which leaves a closed socket alone
AcceptConnect ==
  /\ Running
  /\ accepting # NoOne
  /\ accepting' = NoOne
  /\ nIDCounter' = nIDCounter + 1
  /\ \/ /\ HasBack
        /\ id' = IF IsConnected(Last(m_dequeConnections))
                 THEN [id EXCEPT ![Last(m_dequeConnections)] = GivenId] ELSE id
        /\ showing' = TRUE
        /\ UNCHANGED status
     \/ ~ HasBack /\ status' = "bad_back" /\ UNCHANGED <<id, showing>>
  /\ UNCHANGED <<m_dequeConnections, sock, told, m_qMessagesIn, read, task, lost>>

\* back()->GetID()
AcceptShow ==
  /\ Running
  /\ showing
  /\ showing' = FALSE
  /\ status' = IF HasBack THEN "running" ELSE "bad_back"
  /\ UNCHANGED <<m_dequeConnections, nIDCounter, sock, id, told, accepting, m_qMessagesIn,
                 read, task, lost>>

\* a read or a write fails
SocketCloses(c) ==
  /\ AsioFree
  /\ IsConnected(c)
  /\ sock' = [sock EXCEPT ![c] = "closed"]
  /\ task' = [task EXCEPT !.throughout = @ \ {c}]
  /\ UNCHANGED <<m_dequeConnections, nIDCounter, id, told, accepting, showing,
                 m_qMessagesIn, read, lost, status>>

\* AddToIncomimgMessageQueue: the message holds its connection.  What the handlers
\* of a lost connection do is left out.
Receive(c, kind) ==
  /\ AsioFree
  /\ IsConnected(c) /\ c \in Held
  /\ read < MaxMessages
  /\ read' = read + 1
  /\ m_qMessagesIn' = Append(m_qMessagesIn, [remote |-> c, kind |-> kind])
  /\ UNCHANGED <<m_dequeConnections, nIDCounter, sock, id, told, accepting, showing, task,
                 lost, status>>

-----------------------------------------------------------------------------
(* The main thread *)

NotMain == <<nIDCounter, sock, id, told, accepting, showing, read>>

\* Mutant: an iteration that leaves out its last entry.
EndBeforeLast == Len(m_dequeConnections) - 1

EndOfDeque == Len(m_dequeConnections)

\* Update pops a message; its handler begins to iterate
LoopBegin ==
  /\ Running
  /\ task.pc = "idle"
  /\ m_qMessagesIn # <<>>
  /\ m_qMessagesIn' = Tail(m_qMessagesIn)
  /\ task' = [Idle EXCEPT !.pc = "loop", !.kind = Head(m_qMessagesIn).kind,
                          !.client = Head(m_qMessagesIn).remote,
                          !.end = EndOfDeque,
                          !.throughout = {c \in Held : IsConnected(c)}]
  /\ UNCHANGED <<m_dequeConnections, lost, status, NotMain>>

Visiting(kinds) ==
  /\ Running
  /\ task.pc = "loop" /\ task.i <= task.end
  /\ task.kind \in kinds
  /\ UNCHANGED <<m_qMessagesIn, lost, NotMain>>

Entry == m_dequeConnections[task.i]

\* MessageAllClient, GetClientList: one entry.  OnClientDisconnect asks the
\* client for its id, so a null pointer ends the program.
SweepEntry ==
  /\ Visiting({"MessageAll", "ClientList"})
  /\ IF Entry = NoOne
     THEN status' = "null_client" /\ UNCHANGED <<m_dequeConnections, task>>
     ELSE IF IsConnected(Entry)
     THEN /\ task' = [task EXCEPT !.i = @ + 1, !.reached = @ \cup {Entry}]
          /\ UNCHANGED <<m_dequeConnections, status>>
     ELSE /\ task' = [task EXCEPT !.i = @ + 1, !.InvalidClientExists = TRUE]
          /\ m_dequeConnections' = [m_dequeConnections EXCEPT ![task.i] = NoOne]
          /\ UNCHANGED status

\* The handlers that look for an id: client_->GetID() of one entry, which is the
\* one they look for or not.
FindEntry ==
  /\ Visiting({"RequestToClient"})
  /\ IF Entry = NoOne
     THEN status' = "null_client" /\ UNCHANGED task
     ELSE /\ task' \in {Idle, [task EXCEPT !.i = @ + 1, !.reached = @ \cup {Entry}]}
          /\ UNCHANGED status
  /\ UNCHANGED m_dequeConnections

\* Mutants: a sweep is over without erase(remove(...)); remove keeps nothing.
NeverErases == FALSE
KeepNone(deque) == <<>>

MustErase == task.InvalidClientExists
KeepNonNull(deque) ==
  LET kept[k \in 0 .. Len(deque)] ==
        IF k = 0 THEN <<>>
        ELSE IF deque[k] = NoOne THEN kept[k - 1] ELSE Append(kept[k - 1], deque[k])
  IN  kept[Len(deque)]

LoopEnd ==
  /\ Running
  /\ task.pc = "loop"
  /\ task.i > task.end
  /\ task' = IF MustErase THEN [task EXCEPT !.pc = "remove"] ELSE Idle
  /\ UNCHANGED <<m_dequeConnections, m_qMessagesIn, lost, status, NotMain>>

\* std::remove moves the entries it keeps to the front and leaves null pointers
\* behind them; task.i is the position it returns.
RemoveNulls ==
  /\ Running
  /\ task.pc = "remove"
  /\ LET kept == KeepNonNull(m_dequeConnections)
         len == Len(m_dequeConnections)
     IN  /\ m_dequeConnections' = [k \in 1 .. len |-> IF k <= Len(kept) THEN kept[k] ELSE NoOne]
         /\ task' = [task EXCEPT !.pc = "erase", !.i = Len(kept) + 1, !.end = len]
  /\ UNCHANGED <<m_qMessagesIn, lost, status, NotMain>>

\* erase; its end() is evaluated before or after remove, and before or after what
\* the asio thread has pushed in the meantime
Erase ==
  /\ Running
  /\ task.pc = "erase"
  /\ \E last \in task.end .. Len(m_dequeConnections) :
       /\ m_dequeConnections' = SubSeq(m_dequeConnections, 1, task.i - 1)
                                  \o SubSeq(m_dequeConnections, last + 1, Len(m_dequeConnections))
       /\ lost' = lost \cup {m_dequeConnections[k] : k \in task.end + 1 .. last}
  /\ task' = Idle
  /\ UNCHANGED <<m_qMessagesIn, status, NotMain>>

-----------------------------------------------------------------------------
AsioStep ==
  \/ AcceptPush \/ AcceptRaces \/ AcceptConnect \/ AcceptShow
  \/ \E c \in Conns : SocketCloses(c)
  \/ \E c \in Conns, kind \in Kinds : Receive(c, kind)

MainStep == LoopBegin \/ SweepEntry \/ FindEntry \/ LoopEnd \/ RemoveNulls \/ Erase

Next == AsioStep \/ MainStep

Spec == Init /\ [][Next]_vars

-----------------------------------------------------------------------------
(* Properties *)

GivenIds == FirstId .. FirstId + MaxConnections - 1
Items == [remote : Conns, kind : Kinds]
Tasks == [pc : {"idle", "loop", "remove", "erase"}, kind : Kinds, client : Conns \cup {NoOne},
          i : 1 .. MaxConnections + 1, end : 0 .. MaxConnections,
          InvalidClientExists : BOOLEAN,
          throughout : SUBSET Conns, reached : SUBSET Conns]

\* The type invariant.
TypeOK ==
  /\ m_dequeConnections \in Seq(Conns \cup {NoOne})
  /\ nIDCounter \in GivenIds \cup {FirstId + MaxConnections}
  /\ sock \in [Conns -> {"none", "open", "closed"}]
  /\ id \in [Conns -> GivenIds \cup {0}]
  /\ told \in [Conns -> GivenIds \cup {0}]
  /\ accepting \in Conns \cup {NoOne}
  /\ showing \in BOOLEAN
  /\ m_qMessagesIn \in Seq(Items)
  /\ read \in 0 .. MaxMessages
  /\ task \in Tasks
  /\ lost \in SUBSET Conns
  /\ status \in {"running", "bad_back", "null_client", "undefined"}

\* Between two sweeps the deque holds no null pointer: no handler dereferences
\* one, whatever the asio thread does during a sweep.
NoNullClient == status # "null_client"

\* The deque is the only thing that keeps a connection whose handlers run: one
\* that was not lost in an erase stays in it until its socket is closed.
OpenAreHeld == \A c \in Conns : IsConnected(c) => c \in Held \cup lost

\* OnClientConnect announces the id before ConnectToClient assigns it through
\* back(): unless an entry was lost, they agree, and the ids are different.
IdIsTheOneTold ==
  lost = {} => \A c \in Conns :
    id[c] # 0 => id[c] = told[c] /\ \A d \in Conns \ {c} : id[d] # id[c]

\* The accept handler calls a member of back() after its push_back: there is no
\* such object only between a sweep's remove and its erase, when null pointers
\* are at the back, or after an erase that has dropped a new entry with them.
BackDefined == status = "bad_back" => task.pc = "erase" \/ lost # {}

\* A loop that comes to its end has reached every connection that was held and
\* connected from its beginning on, whoever came or went meanwhile: nobody is
\* left out of a broadcast or a list, or not found.
LoopReachesAll ==
  [][task.pc = "loop" /\ task.i > task.end /\ task'.pc # "loop"
       => task.throughout \subseteq task.reached]_vars
=============================================================================
