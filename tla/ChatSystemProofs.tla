------------------------- MODULE ChatSystemProofs -------------------------
(***************************************************************************)
(* For any clients, commands and messages: the watcher of a ConnectTo ends *)
(* before the command does; what client and server send each other is what *)
(* the other expects, so that the invariants of ChatServer (proved in      *)
(* ChatServerProofs) hold in the composed system.  While users end nothing,*)
(* every request has at most one answer, which the client that asked waits *)
(* for: texts are those of the pair, at() always finds the peer, and the   *)
(* system implements ChatProtocol.                                         *)
(***************************************************************************)
EXTENDS ChatSystem, TLAPS, FiniteSetTheorems, FunctionTheorems

Fields == {"ui", "watcher", "executor", "id", "ConnectedToId", "ConnectionRequestId",
           "connecting", "answered", "muxConnect", "typed"}

AfterWait == {"checkChat", "join", "chat", "send", "close", "clear", "reset"}
InCommand == {"test", "asleep", "woken"} \cup AfterWait

(* A watcher runs only inside its command, and once the ui has left the    *)
(* wait it holds muxConnect until the watcher has ended: a chat that ends  *)
(* can tell by the lock that there is a watcher to wait for.               *)
Guarded(p) ==
  /\ DOMAIN p = Fields
  /\ p.watcher # "none" => p.ui \in InCommand
  /\ p.ui = "test" => p.muxConnect = "ui"
  /\ p.watcher # "none" /\ p.ui \in AfterWait => p.muxConnect = "ui"
  /\ p.watcher = "enter" => p.muxConnect = "watcher"

IInv == DOMAIN proc = Ids /\ \A c \in Ids : Guarded(proc[c])

LEMMA SameIds == Client!Ids = Ids
BY DEF Client!Ids, Ids, Client!FirstId, FirstId

LEMMA ImpliesWatcherHasCommand == IInv => WatcherHasCommand
BY SameIds DEF IInv, Guarded, InCommand, AfterWait, WatcherHasCommand, Client!WatcherHasCommand

LEMMA InitIInv == Init => IInv
BY SameIds DEF Init, Client!Init, Client!InitProc, IInv, Guarded, Fields, InCommand, AfterWait

LEMMA UiKeeps ==
  ASSUME IInv, NEW c \in Ids, Client!UiStep(c)
  PROVE  IInv'
<1> USE DEF IInv, Guarded, Fields, InCommand, AfterWait, Client!At, Client!Go
<1>1. CASE Client!SetRequest(c)
  BY <1>1 DEF Client!SetRequest
<1>2. CASE Client!LockAndWatch(c)
  BY <1>2 DEF Client!LockAndWatch
<1>3. CASE Client!TestRequest(c)
  BY <1>3 DEF Client!TestRequest
<1>4. CASE Client!Relock(c)
  BY <1>4 DEF Client!Relock
<1>5. CASE Client!CheckChat(c)
  BY <1>5 DEF Client!CheckChat
<1>6. CASE Client!Join(c)
  BY <1>6 DEF Client!Join
<1>7. CASE Client!AcceptConnects(c)
  BY <1>7 DEF Client!AcceptConnects
<1>8. CASE Client!SendToClient(c)
  BY <1>8 DEF Client!SendToClient
<1>9. CASE Client!CloseChat(c)
  BY <1>9 DEF Client!CloseChat
<1>10. CASE Client!ClearConnected(c) \/ Client!ResetRequest(c)
  BY <1>10 DEF Client!ClearConnected, Client!ResetRequest
<1>11. CASE Client!AcceptReads(c)
  BY <1>11 DEF Client!AcceptReads
<1>12. QED
  BY <1>1, <1>2, <1>3, <1>4, <1>5, <1>6, <1>7, <1>8, <1>9, <1>10, <1>11 DEF Client!UiStep

LEMMA WatcherKeeps ==
  ASSUME IInv, NEW c \in Ids, Client!WatcherStep(c) \/ Client!EnterStep(c) \/ Client!SpuriousWakeup(c)
  PROVE  IInv'
<1> USE DEF IInv, Guarded, Fields, InCommand, AfterWait, Client!At, Client!Go, Client!Notified
<1>1. CASE Client!WatchAgain(c)
  BY <1>1 DEF Client!WatchAgain
<1>2. CASE Client!WatchEnds(c)
  BY <1>2 DEF Client!WatchEnds
<1>3. CASE Client!WatchClear(c) \/ Client!WatchReset(c)
  BY <1>3 DEF Client!WatchClear, Client!WatchReset
<1>4. CASE Client!WatchNotify(c)
  BY <1>4 DEF Client!WatchNotify
<1>5. CASE Client!WatchEnter(c)
  BY <1>5 DEF Client!WatchEnter
<1>6. CASE Client!LeaveChat(c)
  BY <1>6 DEF Client!LeaveChat
<1>7. CASE Client!SpuriousWakeup(c)
  BY <1>7 DEF Client!SpuriousWakeup
<1>8. QED
  BY <1>1, <1>2, <1>3, <1>4, <1>5, <1>6, <1>7 DEF Client!WatcherStep, Client!EnterStep

LEMMA ExecutorKeeps ==
  ASSUME IInv, NEW c \in Ids, Client!ExecutorStep(c)
  PROVE  IInv'
<1> USE DEF IInv, Guarded, Fields, InCommand, AfterWait, Client!Notified, Client!RequestOver
<1>1. CASE Client!Shown(c)
  BY <1>1 DEF Client!Shown
<1>2. CASE Client!Refused(c)
  BY <1>2 DEF Client!Refused
<1>3. CASE Client!Requested(c)
  BY <1>3 DEF Client!Requested
<1>4. CASE Client!Answered(c) \/ Client!Accepted(c)
  BY <1>4 DEF Client!Answered, Client!Accepted
<1>5. CASE Client!AcceptedNotifies(c)
  BY <1>5 DEF Client!AcceptedNotifies
<1>6. CASE Client!Declined(c)
  BY <1>6 DEF Client!Declined
<1>7. CASE Client!Closed(c) \/ Client!ClosedResets(c)
  BY <1>7 DEF Client!Closed, Client!ClosedResets
<1>8. QED
  BY <1>1, <1>2, <1>3, <1>4, <1>5, <1>6, <1>7 DEF Client!ExecutorStep

LEMMA UserKeeps ==
  ASSUME IInv, NEW c \in Ids, Client!UserStep(c)
  PROVE  IInv'
<1> USE DEF IInv, Guarded, Fields, InCommand, AfterWait, Client!At, Client!Typed, Client!CanType
<1>1. ASSUME NEW id, Client!ConnectTo(c, id) PROVE IInv'
  BY <1>1 DEF Client!ConnectTo
<1>2. CASE Client!Accept(c)
  BY <1>2 DEF Client!Accept
<1>3. CASE Client!Decline(c)
  BY <1>3 DEF Client!Decline
<1>4. CASE Client!Ask(c)
  BY <1>4 DEF Client!Ask
<1>5. CASE Client!ChatLine(c, "Text", "send")
  BY <1>5 DEF Client!ChatLine
<1>6. CASE Client!ChatLine(c, "-close", "close")
  BY <1>6 DEF Client!ChatLine
<1>7. CASE Client!WatchClose(c)
  BY <1>7 DEF Client!WatchClose
<1>8. CASE Client!Leave(c)
  BY <1>8 DEF Client!Leave, Client!InitProc
<1>9. QED
  BY <1>1, <1>2, <1>3, <1>4, <1>5, <1>6, <1>7, <1>8 DEF Client!UserStep

-----------------------------------------------------------------------------
(* Only the steps of the clients change proc. *)

LEMMA NextKeeps == IInv /\ [Next]_vars => IInv'
<1> SUFFICES ASSUME IInv, [Next]_vars PROVE IInv'
  OBVIOUS
<1>1. ASSUME NEW c \in Ids, Client!ClientStep(c) PROVE IInv'
  BY <1>1, UiKeeps, WatcherKeeps, ExecutorKeeps, UserKeeps DEF Client!ClientStep
<1>2. CASE UNCHANGED proc
  BY <1>2 DEF IInv, Guarded
<1>3. QED
  BY <1>1, <1>2 DEF Next, Does, Handle, Arrive, Disconnect, vars, clientVars

(* Client.cpp:213 In every behaviour of the system, however its threads    *)
(* interleave and whatever the clients are sent, the watcher's lambda runs *)
(* only while the command that it refers to is being executed.             *)
THEOREM WatcherStaysInCommand == Spec => []WatcherHasCommand
<1>1. Spec => []IInv
  BY InitIInv, NextKeeps, PTL DEF Spec
<1>2. QED
  BY <1>1, ImpliesWatcherHasCommand, PTL

-----------------------------------------------------------------------------
(* The types of the clients *)

LEMMA SameMessages ==
  /\ Client!ClientMessage = ClientMessage /\ Client!Message = Message
  /\ \A t, a : Client!Msg(t, a) = Msg(t, a)
BY DEF Client!ClientMessage, ClientMessage, Client!Message, Message, Client!Msg, Msg, Client!Ids, Ids,
       Client!FirstId, FirstId, Client!MsgTypes, MsgTypes, Client!Args, Args

\* ids that the variables of a client may hold
Known == Ids \cup OtherIds \cup {0}

\* the state of one client's process
ProcType ==
  [ui : Client!Ui, watcher : Client!Watcher, executor : Client!Executor,
   id : Known, ConnectedToId : Known, ConnectionRequestId : Known,
   connecting : Known, answered : Known,
   muxConnect : {"free", "ui", "watcher"}, typed : 0 .. MaxTyped]

ProcsTyped == proc \in [Ids -> ProcType]
OutTyped == toServer \in [Ids -> Seq(ClientMessage)]
InTyped == toClient \in [Ids -> Seq(Message)]

LEMMA ClientTypes == Client!TypeOK <=> ProcsTyped /\ OutTyped /\ InTyped
BY SameIds, SameMessages DEF Client!TypeOK, ProcsTyped, OutTyped, InTyped, ProcType, Known

LEMMA SendTyped ==
  ASSUME NEW c \in Ids, NEW m \in ClientMessage, OutTyped, InTyped, Client!Send(c, m)
  PROVE  OutTyped' /\ InTyped'
BY DEF OutTyped, InTyped, Client!Send

LEMMA SilentTyped ==
  ASSUME OutTyped, InTyped, Client!Silent
  PROVE  OutTyped' /\ InTyped'
BY DEF OutTyped, InTyped, Client!Silent

LEMMA PopsTyped ==
  ASSUME NEW c \in Ids, OutTyped, InTyped, NEW types, Client!Pops(c, types)
  PROVE  OutTyped' /\ InTyped' /\ Head(toClient[c]) \in Message /\ Client!arg(c) \in Args
<1>1. toClient[c] \in Seq(Message) /\ toClient[c] # <<>>
  BY DEF InTyped, Client!Pops
<1>2. Head(toClient[c]) \in Message /\ Tail(toClient[c]) \in Seq(Message)
  BY <1>1
<1>3. toClient' = [toClient EXCEPT ![c] = Tail(toClient[c])] /\ toServer' = toServer
  BY DEF Client!Pops
<1>4. OutTyped' /\ InTyped'
  BY <1>2, <1>3 DEF OutTyped, InTyped
<1>5. QED
  BY <1>2, <1>4 DEF Message, Client!arg

LEMMA StateNames ==
  /\ "prompt" \in Client!Ui /\ "setRequest" \in Client!Ui /\ "lock" \in Client!Ui
  /\ "test" \in Client!Ui /\ "asleep" \in Client!Ui /\ "woken" \in Client!Ui
  /\ "checkChat" \in Client!Ui /\ "join" \in Client!Ui /\ "accept" \in Client!Ui
  /\ "chat" \in Client!Ui /\ "send" \in Client!Ui /\ "close" \in Client!Ui
  /\ "connect" \in Client!Ui /\ "clear" \in Client!Ui
  /\ "reset" \in Client!Ui /\ "gone" \in Client!Ui
  /\ "none" \in Client!Watcher /\ "started" \in Client!Watcher /\ "watching" \in Client!Watcher
  /\ "clear" \in Client!Watcher /\ "reset" \in Client!Watcher /\ "locking" \in Client!Watcher /\ "enter" \in Client!Watcher
  /\ "idle" \in Client!Executor /\ "answered" \in Client!Executor
  /\ "accepted" \in Client!Executor /\ "closed" \in Client!Executor /\ "gone" \in Client!Executor
  /\ \A pc \in Client!Ui : Client!Notified(pc) \in Client!Ui
  /\ 0 \in Known /\ Ids \subseteq Known /\ OtherIds \subseteq Known
BY DEF Known, Client!Ui, Client!Watcher, Client!Executor, Client!Notified

LEMMA MaxTypedNat == MaxTyped \in Nat
BY SystemAssumption

LEMMA InitProcTyped == Client!InitProc \in ProcType
<1>1. 0 \in 0 .. MaxTyped
  BY MaxTypedNat
<1>2. QED
  BY <1>1, StateNames DEF Client!InitProc, ProcType

\* a field of one process is set
LEMMA FieldSet ==
  ASSUME NEW f \in [Ids -> ProcType], NEW c \in Ids
  PROVE  /\ \A u \in Client!Ui : [f EXCEPT ![c].ui = u] \in [Ids -> ProcType]
         /\ \A w \in Client!Watcher : [f EXCEPT ![c].watcher = w] \in [Ids -> ProcType]
         /\ \A e \in Client!Executor : [f EXCEPT ![c].executor = e] \in [Ids -> ProcType]
         /\ \A i \in Known : /\ [f EXCEPT ![c].id = i] \in [Ids -> ProcType]
                              /\ [f EXCEPT ![c].ConnectedToId = i] \in [Ids -> ProcType]
                              /\ [f EXCEPT ![c].ConnectionRequestId = i] \in [Ids -> ProcType]
                              /\ [f EXCEPT ![c].connecting = i] \in [Ids -> ProcType]
                              /\ [f EXCEPT ![c].answered = i] \in [Ids -> ProcType]
         /\ \A m \in {"free", "ui", "watcher"} :
              [f EXCEPT ![c].muxConnect = m] \in [Ids -> ProcType]
         /\ \A n \in 0 .. MaxTyped : [f EXCEPT ![c].typed = n] \in [Ids -> ProcType]
<1> DEFINE p == f[c]
<1>1. p \in ProcType
  OBVIOUS
<1>2. \A q \in ProcType : [f EXCEPT ![c] = q] \in [Ids -> ProcType]
  OBVIOUS
<1>3. \A u \in Client!Ui : [p EXCEPT !.ui = u] \in ProcType
  BY <1>1 DEF ProcType
<1>4. \A w \in Client!Watcher : [p EXCEPT !.watcher = w] \in ProcType
  BY <1>1 DEF ProcType
<1>5. \A e \in Client!Executor : [p EXCEPT !.executor = e] \in ProcType
  BY <1>1 DEF ProcType
<1>6. \A i \in Known : [p EXCEPT !.id = i] \in ProcType
  BY <1>1 DEF ProcType
<1>7. \A i \in Known : [p EXCEPT !.ConnectedToId = i] \in ProcType
  BY <1>1 DEF ProcType
<1>8. \A i \in Known : [p EXCEPT !.ConnectionRequestId = i] \in ProcType
  BY <1>1 DEF ProcType
<1>9. \A m \in {"free", "ui", "watcher"} : [p EXCEPT !.muxConnect = m] \in ProcType
  BY <1>1 DEF ProcType
<1>10. \A n \in 0 .. MaxTyped : [p EXCEPT !.typed = n] \in ProcType
  BY <1>1 DEF ProcType
<1>11. \A i \in Known : [p EXCEPT !.connecting = i] \in ProcType
  BY <1>1 DEF ProcType
<1>12. \A i \in Known : [p EXCEPT !.answered = i] \in ProcType
  BY <1>1 DEF ProcType
<1>13. QED
  BY <1>2, <1>3, <1>4, <1>5, <1>6, <1>7, <1>8, <1>9, <1>10, <1>11, <1>12

LEMMA FieldIn ==
  ASSUME ProcsTyped, NEW c \in Ids
  PROVE  /\ proc[c].ui \in Client!Ui /\ proc[c].id \in Known
         /\ proc[c].ConnectedToId \in Known /\ proc[c].ConnectionRequestId \in Known
         /\ proc[c].connecting \in Known /\ proc[c].answered \in Known
         /\ proc[c].typed \in 0 .. MaxTyped
BY DEF ProcsTyped, ProcType

LEMMA UiTyped ==
  ASSUME ProcsTyped, NEW c \in Ids, Client!UiStep(c)
  PROVE  ProcsTyped'
<1> USE StateNames, FieldSet, FieldIn DEF ProcsTyped, Client!At, Client!Go
<1>1. CASE Client!SetRequest(c)
  BY <1>1 DEF Client!SetRequest
<1>2. CASE Client!LockAndWatch(c)
  BY <1>2 DEF Client!LockAndWatch
<1>3. CASE Client!TestRequest(c)
  BY <1>3 DEF Client!TestRequest
<1>4. CASE Client!Relock(c)
  BY <1>4 DEF Client!Relock
<1>5. CASE Client!CheckChat(c)
  BY <1>5 DEF Client!CheckChat
<1>6. CASE Client!Join(c)
  BY <1>6 DEF Client!Join
<1>7. CASE Client!AcceptConnects(c)
  BY <1>7 DEF Client!AcceptConnects
<1>8. CASE Client!SendToClient(c)
  BY <1>8 DEF Client!SendToClient
<1>9. CASE Client!CloseChat(c)
  BY <1>9 DEF Client!CloseChat
<1>10. CASE Client!ClearConnected(c)
  BY <1>10 DEF Client!ClearConnected
<1>11. CASE Client!ResetRequest(c)
  BY <1>11 DEF Client!ResetRequest
<1>12. CASE Client!AcceptReads(c)
  BY <1>12 DEF Client!AcceptReads
<1>13. QED
  BY <1>1, <1>2, <1>3, <1>4, <1>5, <1>6, <1>7, <1>8, <1>9, <1>10, <1>11, <1>12 DEF Client!UiStep

LEMMA WatcherTyped ==
  ASSUME ProcsTyped, NEW c \in Ids, Client!WatcherStep(c) \/ Client!EnterStep(c) \/ Client!SpuriousWakeup(c)
  PROVE  ProcsTyped'
<1> USE StateNames, FieldSet, FieldIn DEF ProcsTyped, Client!At, Client!Go
<1>1. CASE Client!WatchAgain(c)
  BY <1>1 DEF Client!WatchAgain
<1>2. CASE Client!WatchEnds(c)
  BY <1>2 DEF Client!WatchEnds
<1>3. CASE Client!WatchReset(c)
  BY <1>3 DEF Client!WatchReset
<1>8. CASE Client!WatchClear(c)
  BY <1>8 DEF Client!WatchClear
<1>4. CASE Client!WatchNotify(c)
  BY <1>4 DEF Client!WatchNotify
<1>5. CASE Client!WatchEnter(c)
  BY <1>5 DEF Client!WatchEnter
<1>6. CASE Client!LeaveChat(c)
  BY <1>6 DEF Client!LeaveChat
<1>7. CASE Client!SpuriousWakeup(c)
  BY <1>7 DEF Client!SpuriousWakeup
<1>9. QED
  BY <1>1, <1>2, <1>3, <1>4, <1>5, <1>6, <1>7, <1>8 DEF Client!WatcherStep, Client!EnterStep

LEMMA RequestOverTyped ==
  ASSUME ProcsTyped, NEW c \in Ids, NEW e \in Client!Executor, Client!RequestOver(c, e)
  PROVE  ProcsTyped'
<1> DEFINE p == [proc[c] EXCEPT !.executor = e, !.ConnectionRequestId = 0,
                                !.ui = Client!Notified(proc[c].ui)]
<1>1. p \in ProcType
  BY StateNames DEF ProcsTyped, ProcType
<1>2. proc' = [proc EXCEPT ![c] = p]
  BY DEF Client!RequestOver, ProcsTyped
<1> HIDE DEF p
<1>3. QED
  BY <1>1, <1>2 DEF ProcsTyped

LEMMA ExecutorTyped ==
  ASSUME ProcsTyped, OutTyped, InTyped, NEW c \in Ids, Client!ExecutorStep(c)
  PROVE  ProcsTyped' /\ OutTyped' /\ InTyped'
<1> USE StateNames, FieldSet, FieldIn
<1>1. CASE Client!Shown(c)
  BY <1>1, PopsTyped DEF Client!Shown, ProcsTyped
<1>2. CASE Client!Refused(c)
  <2>1. ProcsTyped'
    BY <1>2, RequestOverTyped DEF Client!Refused
  <2>2. QED
    BY <1>2, <2>1, PopsTyped DEF Client!Refused
<1>3. CASE Client!Requested(c)
  <2>1. OutTyped' /\ InTyped' /\ Client!arg(c) \in Args
    BY <1>3, PopsTyped DEF Client!Requested
  <2>2. Client!arg(c) \in Known
    BY <1>3, <2>1 DEF Client!Requested, Args, Known, Client!NotFound, Client!Busy
  <2>3. ProcsTyped'
    BY <1>3, <2>2 DEF Client!Requested, ProcsTyped
  <2>4. QED
    BY <2>1, <2>3
<1>4. CASE Client!Answered(c)
  <2>1. ProcsTyped'
    BY <1>4 DEF Client!Answered, ProcsTyped
  <2>2. QED
    BY <1>4, <2>1, PopsTyped DEF Client!Answered
<1>8. CASE Client!Accepted(c)
  <2>1. ProcsTyped'
    BY <1>8 DEF Client!Accepted, ProcsTyped
  <2>2. QED
    BY <1>8, <2>1, SilentTyped DEF Client!Accepted
<1>5. CASE Client!AcceptedNotifies(c)
  <2>1. ProcsTyped'
    BY <1>5, RequestOverTyped DEF Client!AcceptedNotifies
  <2>2. QED
    BY <1>5, <2>1, SilentTyped DEF Client!AcceptedNotifies
<1>6. CASE Client!Declined(c)
  <2>1. ProcsTyped'
    BY <1>6, RequestOverTyped DEF Client!Declined
  <2>2. QED
    BY <1>6, <2>1, PopsTyped DEF Client!Declined
<1>7. CASE Client!Closed(c)
  <2>1. ProcsTyped'
    BY <1>7 DEF Client!Closed, ProcsTyped
  <2>2. QED
    BY <1>7, <2>1, PopsTyped DEF Client!Closed
<1>9. CASE Client!ClosedResets(c)
  <2>1. ProcsTyped'
    BY <1>9 DEF Client!ClosedResets, ProcsTyped
  <2>2. QED
    BY <1>9, <2>1, SilentTyped DEF Client!ClosedResets
<1>10. QED
  BY <1>1, <1>2, <1>3, <1>4, <1>5, <1>6, <1>7, <1>8, <1>9 DEF Client!ExecutorStep

LEMMA MessagesTyped ==
  /\ \A t \in {"ServerPing", "MessageAll", "ClientList", "CloseClient"} :
       Client!Msg(t, 0) \in ClientMessage
  /\ \A a \in {0, 1} : Client!Msg("RequestAnswer", a) \in ClientMessage
  /\ \A c \in Ids : Client!Msg("TextClient", c) \in ClientMessage
  /\ \A id \in Ids \cup OtherIds : Client!Msg("RequestToClient", id) \in ClientMessage
BY SameMessages DEF ClientMessage

LEMMA UserTyped ==
  ASSUME ProcsTyped, OutTyped, InTyped, NEW c \in Ids, Client!UserStep(c)
  PROVE  ProcsTyped' /\ OutTyped' /\ InTyped'
<1> USE StateNames, FieldSet, FieldIn DEF Client!At, Client!Typed, Client!CanType
<1>0. proc[c].typed < MaxTyped =>
        [proc EXCEPT ![c].typed = proc[c].typed + 1] \in [Ids -> ProcType]
  <2>1. proc[c].typed < MaxTyped => proc[c].typed + 1 \in 0 .. MaxTyped
    BY MaxTypedNat
  <2>2. QED
    BY <2>1 DEF ProcsTyped
<1>1. ASSUME NEW id \in Ids \cup OtherIds, Client!ConnectTo(c, id)
      PROVE  ProcsTyped' /\ OutTyped' /\ InTyped'
  <2>1. ProcsTyped'
    BY <1>0, <1>1 DEF Client!ConnectTo, ProcsTyped
  <2>2. QED
    BY <1>1, <2>1, MessagesTyped, SendTyped DEF Client!ConnectTo
<1>2. CASE Client!Accept(c)
  <2>1. ProcsTyped'
    BY <1>0, <1>2 DEF Client!Accept, ProcsTyped
  <2>2. QED
    BY <1>2, <2>1, MessagesTyped, SendTyped DEF Client!Accept
<1>3. CASE Client!Decline(c)
  <2>1. ProcsTyped'
    BY <1>0, <1>3 DEF Client!Decline, ProcsTyped
  <2>2. QED
    BY <1>3, <2>1, MessagesTyped, SendTyped DEF Client!Decline
<1>4. CASE Client!Ask(c)
  <2>1. PICK ask \in {<<"Ping", "ServerPing">>, <<"HelloAll", "MessageAll">>,
                       <<"Clients", "ClientList">>} :
          Client!Typed(c, ask[1], "prompt") /\ Client!Send(c, Client!Msg(ask[2], 0))
    BY <1>4 DEF Client!Ask
  <2>2. ProcsTyped'
    BY <1>0, <2>1 DEF ProcsTyped
  <2>3. ask[2] \in {"ServerPing", "MessageAll", "ClientList", "CloseClient"}
    OBVIOUS
  <2>4. QED
    BY <2>1, <2>2, <2>3, MessagesTyped, SendTyped
<1>5. ASSUME NEW command, NEW pc \in {"send", "close"}, Client!ChatLine(c, command, pc)
      PROVE  ProcsTyped' /\ OutTyped' /\ InTyped'
  <2>1. ProcsTyped'
    BY <1>0, <1>5 DEF Client!ChatLine, ProcsTyped
  <2>2. QED
    BY <1>5, <2>1, SilentTyped DEF Client!ChatLine
<1>6. CASE Client!WatchClose(c)
  <2>1. ProcsTyped'
    BY <1>0, <1>6 DEF Client!WatchClose, ProcsTyped
  <2>2. QED
    BY <1>6, <2>1, MessagesTyped, SendTyped DEF Client!WatchClose
<1>7. CASE Client!Leave(c)
  <2> DEFINE p == [Client!InitProc EXCEPT !.ui = "gone", !.executor = "gone"]
  <2>1. p \in ProcType
    BY InitProcTyped DEF ProcType
  <2>2. proc' = [proc EXCEPT ![c] = p]
    BY <1>7 DEF Client!Leave
  <2> HIDE DEF p
  <2>3. ProcsTyped'
    BY <2>1, <2>2 DEF ProcsTyped
  <2>4. QED
    BY <1>7, <2>3, SilentTyped DEF Client!Leave
<1>8. QED
  BY <1>1, <1>2, <1>3, <1>4, <1>5, <1>6, <1>7, SameIds DEF Client!UserStep

LEMMA ClientStepTyped ==
  ASSUME ProcsTyped, OutTyped, InTyped, NEW c \in Ids, Client!ClientStep(c)
  PROVE  ProcsTyped' /\ OutTyped' /\ InTyped'
<1>1. CASE Client!UiStep(c)
  <2>1. ProcsTyped'
    BY <1>1, UiTyped
  <2>2. CASE Client!Silent
    BY <2>1, <2>2, SilentTyped
  <2>3. CASE Client!SendToClient(c)
    BY <2>1, <2>3, MessagesTyped, SendTyped DEF Client!SendToClient
  <2>4. CASE Client!CloseChat(c)
    BY <2>1, <2>4, MessagesTyped, SendTyped DEF Client!CloseChat
  <2>5. QED
    BY <1>1, <2>2, <2>3, <2>4
       DEF Client!UiStep, Client!SetRequest, Client!LockAndWatch, Client!TestRequest,
           Client!Relock, Client!CheckChat, Client!Join, Client!AcceptReads,
           Client!AcceptConnects, Client!ClearConnected, Client!ResetRequest, Client!Go
<1>2. CASE Client!WatcherStep(c) \/ Client!EnterStep(c) \/ Client!SpuriousWakeup(c)
  <2>1. ProcsTyped'
    BY <1>2, WatcherTyped
  <2>2. Client!Silent
    BY <1>2 DEF Client!WatcherStep, Client!EnterStep, Client!SpuriousWakeup, Client!WatchAgain,
                Client!WatchEnds, Client!WatchClear, Client!WatchReset, Client!WatchNotify,
                Client!WatchEnter, Client!LeaveChat, Client!Go
  <2>3. QED
    BY <2>1, <2>2, SilentTyped
<1>3. CASE Client!ExecutorStep(c)
  BY <1>3, ExecutorTyped
<1>4. CASE Client!UserStep(c)
  BY <1>4, UserTyped
<1>5. QED
  BY <1>1, <1>2, <1>3, <1>4 DEF Client!ClientStep

-----------------------------------------------------------------------------
(* The server in the system *)

ServerProofs == INSTANCE ChatServerProofs

LEMMA SameAssumptions == ServerProofs!IdAssumption /\ ServerProofs!QueueAssumption
BY IdAssumption, SystemAssumption
   DEF ServerProofs!IdAssumption, ServerProofs!QueueAssumption, ServerProofs!Ids, Ids,
       ServerProofs!FirstId, FirstId

LEMMA SameServerMessages ==
  /\ ServerProofs!Ids = Ids /\ ServerProofs!Message = Message
  /\ ServerProofs!ClientMessage = ClientMessage
  /\ Server!Ids = Ids /\ Server!ClientMessage = ClientMessage
BY DEF Server!ClientMessage, Server!Msg, Server!Ids, Server!FirstId,
       ServerProofs!ClientMessage, ClientMessage, ServerProofs!Message, Message,
       ServerProofs!Msg, Msg, ServerProofs!Ids, Ids, ServerProofs!FirstId, FirstId,
       ServerProofs!MsgTypes, MsgTypes, ServerProofs!Args, Args

LEMMA SameTyped == ServerProofs!TypeOK <=> Server!TypeOK
BY DEF ServerProofs!TypeOK, Server!TypeOK, ServerProofs!NoPeer, Server!NoPeer,
       ServerProofs!Ids, Server!Ids, ServerProofs!Message, Server!Message,
       ServerProofs!MsgTypes, Server!MsgTypes, ServerProofs!Args, Server!Args,
       ServerProofs!ClientMessage, Server!ClientMessage, ServerProofs!Msg, Server!Msg,
       ServerProofs!FirstId, Server!FirstId

LEMMA SameOnMessage == Server!OnMessage => ServerProofs!OnMessage
BY DEF ServerProofs!OnMessage, Server!OnMessage, ServerProofs!OnServerPing, Server!OnServerPing,
       ServerProofs!OnMessageAll, Server!OnMessageAll, ServerProofs!OnClientList,
       Server!OnClientList, ServerProofs!OnRequestToClient, Server!OnRequestToClient,
       ServerProofs!OnTextClient, Server!OnTextClient, ServerProofs!OnRequestAnswer,
       Server!OnRequestAnswer, ServerProofs!OnCloseClient, Server!OnCloseClient,
       ServerProofs!AtThrows, Server!AtThrows, ServerProofs!Pop, Server!Pop,
       ServerProofs!PeerPop, Server!PeerPop, ServerProofs!Peer, Server!Peer,
       ServerProofs!Paired, Server!Paired, ServerProofs!NoPeer, Server!NoPeer,
       ServerProofs!client, Server!client, ServerProofs!msg, Server!msg,
       ServerProofs!To, Server!To, ServerProofs!Msg, Server!Msg,
       ServerProofs!ListMsg, Server!ListMsg, ServerProofs!SweepClosed, Server!SweepClosed,
       ServerProofs!Live, Server!Live, ServerProofs!IsConnected, Server!IsConnected,
       ServerProofs!MessageAllClient, Server!MessageAllClient, ServerProofs!NotFound,
       Server!NotFound, ServerProofs!Busy, Server!Busy, ServerProofs!CanConnect,
       Server!CanConnect, ServerProofs!ConnectClients, Server!ConnectClients,
       ServerProofs!DisconnectClients, Server!DisconnectClients

LEMMA SameAsio ==
  ASSUME NEW c, NEW m
  PROVE  /\ Server!Receive(c, m) => ServerProofs!Receive(c, m)
         /\ Server!SocketCloses(c) => ServerProofs!SocketCloses(c)
BY DEF Server!Receive, ServerProofs!Receive, Server!SocketCloses, ServerProofs!SocketCloses,
       Server!IsConnected, ServerProofs!IsConnected, Server!SetLink, ServerProofs!SetLink

(* What the clients send is what the server expects: every step of the     *)
(* system is one of the server's, or leaves the server alone.              *)
LEMMA ServerStep ==
  ASSUME OutTyped, [Next]_vars
  PROVE  [Server!Next]_serverVars /\ [ServerProofs!Next]_(ServerProofs!vars)
<1>1. CASE UNCHANGED serverVars
  BY <1>1 DEF serverVars, ServerProofs!vars
<1>2. CASE Handle
  BY <1>2, SameOnMessage DEF Handle, Server!Next, ServerProofs!Next
<1>3. ASSUME NEW c \in Ids, Arrive(c)
      PROVE  Server!Next /\ ServerProofs!Next
  <2>1. toServer[c] \in Seq(ClientMessage) /\ toServer[c] # <<>>
    BY <1>3 DEF OutTyped, Arrive
  <2> DEFINE m == Head(toServer[c])
  <2>2. m \in ClientMessage
    BY <2>1
  <2>3. Server!Receive(c, m) /\ ServerProofs!Receive(c, m)
    BY <1>3, SameAsio DEF Arrive
  <2> HIDE DEF m
  <2>4. QED
    BY <2>2, <2>3, SameServerMessages DEF Server!Next, ServerProofs!Next
<1>4. ASSUME NEW c \in Ids, Disconnect(c)
      PROVE  Server!Next /\ ServerProofs!Next
  <2>1. Server!SocketCloses(c) /\ ServerProofs!SocketCloses(c)
    BY <1>4, SameAsio DEF Disconnect
  <2>2. QED
    BY <2>1, SameServerMessages
       DEF Server!Next, Server!AsioStep, ServerProofs!Next, ServerProofs!AsioStep
<1>5. QED
  BY <1>1, <1>2, <1>3, <1>4 DEF Next, Does, vars

LEMMA InitServer == Init => ServerProofs!IInv
<1> SUFFICES ASSUME Init PROVE ServerProofs!IInv
  OBVIOUS
<1>1. /\ status = "running" /\ nIDCounter = FirstId + MaxClients /\ m_dequeConnections = Ids
      /\ link = [c \in Ids |-> "ready"] /\ ClientConnections = [c \in Ids |-> 0]
      /\ m_qMessagesIn = <<>> /\ posted = {}
  BY DEF Init, Server!NoPeer
<1>2. ServerProofs!TypeOK
  BY <1>1, SameServerMessages DEF ServerProofs!TypeOK, ServerProofs!NoPeer, ServerProofs!FirstId,
                                  FirstId
<1>3. ServerProofs!PairsSymmetric /\ ServerProofs!EraseDefined /\ ServerProofs!PeerHeldOrGone
  BY <1>1, SameServerMessages
     DEF ServerProofs!PairsSymmetric, ServerProofs!EraseDefined, ServerProofs!PeerHeldOrGone,
         ServerProofs!Paired, ServerProofs!NoPeer
<1>4. ServerProofs!SocketsHeld
  BY <1>1, SameServerMessages DEF ServerProofs!SocketsHeld, ServerProofs!IsConnected
<1>5. QED
  BY <1>2, <1>3, <1>4 DEF ServerProofs!IInv

SystemInv == ServerProofs!IInv /\ ProcsTyped /\ OutTyped /\ InTyped

LEMMA InitSystem == Init => SystemInv
<1> SUFFICES ASSUME Init PROVE SystemInv
  OBVIOUS
<1>1. /\ proc = [c \in Ids |-> Client!InitProc]
      /\ toServer = [c \in Ids |-> <<>>] /\ toClient = [c \in Ids |-> <<>>]
  BY SameIds DEF Init, Client!Init
<1>2. ProcsTyped
  BY <1>1, InitProcTyped DEF ProcsTyped
<1>3. OutTyped /\ InTyped
  BY <1>1 DEF OutTyped, InTyped
<1>4. QED
  BY <1>2, <1>3, InitServer DEF SystemInv

LEMMA HandleTyped ==
  ASSUME InTyped, ServerProofs!TypeOK', Handle
  PROVE  InTyped'
<1>1. posted' \in SUBSET [to : Ids, msg : Message]
  BY SameServerMessages DEF ServerProofs!TypeOK
<1>2. ASSUME NEW c \in Ids, PostedTo(c) # {}
      PROVE  Append(toClient[c], (CHOOSE p \in PostedTo(c) : TRUE).msg) \in Seq(Message)
  <2>1. (CHOOSE p \in PostedTo(c) : TRUE) \in PostedTo(c)
    BY <1>2
  <2>2. (CHOOSE p \in PostedTo(c) : TRUE) \in [to : Ids, msg : Message]
    BY <1>1, <2>1 DEF PostedTo
  <2>3. (CHOOSE p \in PostedTo(c) : TRUE).msg \in Message
    BY <2>2
  <2>4. QED
    BY <2>3 DEF InTyped
<1>3. QED
  BY <1>2 DEF Handle, InTyped

LEMMA SystemStep == SystemInv /\ [Next]_vars => SystemInv'
<1> SUFFICES ASSUME SystemInv, [Next]_vars PROVE SystemInv'
  OBVIOUS
<1> USE DEF SystemInv
<1>1. ServerProofs!IInv'
  BY ServerStep, SameAssumptions, ServerProofs!NextInv
<1>2. ASSUME NEW c \in Ids, Does(Client!ClientStep(c))
      PROVE  ProcsTyped' /\ OutTyped' /\ InTyped'
  BY <1>2, ClientStepTyped DEF Does
<1>3. CASE Handle
  <2>1. ServerProofs!TypeOK'
    BY <1>1 DEF ServerProofs!IInv
  <2>2. InTyped'
    BY <1>3, <2>1, HandleTyped
  <2>3. QED
    BY <1>1, <1>3, <2>2 DEF Handle, ProcsTyped, OutTyped
<1>4. ASSUME NEW c \in Ids, Arrive(c) \/ Disconnect(c)
      PROVE  ProcsTyped' /\ OutTyped' /\ InTyped'
  <2>1. CASE Arrive(c)
    <3>1. toServer[c] \in Seq(ClientMessage) /\ toServer[c] # <<>>
      BY <2>1 DEF OutTyped, Arrive
    <3>2. Tail(toServer[c]) \in Seq(ClientMessage)
      BY <3>1
    <3>3. QED
      BY <2>1, <3>2 DEF Arrive, OutTyped, ProcsTyped, InTyped
  <2>2. CASE Disconnect(c)
    BY <2>2 DEF Disconnect, OutTyped, ProcsTyped, InTyped
  <2>3. QED
    BY <1>4, <2>1, <2>2
<1>5. CASE UNCHANGED vars
  BY <1>1, <1>5 DEF vars, clientVars, ProcsTyped, OutTyped, InTyped
<1>6. QED
  BY <1>1, <1>2, <1>3, <1>4, <1>5 DEF Next

LEMMA SystemInvariance == Spec => []SystemInv
BY InitSystem, SystemStep, PTL DEF Spec

(* The fields of the server and of every client's process keep their types,*)
(* and no message is on its way that the other side does not expect.       *)
THEOREM TypeCorrect == Spec => []TypeOK
<1>1. SystemInv => TypeOK
  BY SameTyped, ClientTypes DEF SystemInv, ServerProofs!IInv, TypeOK
<1>2. QED
  BY <1>1, SystemInvariance, PTL

(* Server.cpp in the whole system: whatever the threads of the clients do, *)
(* the server takes no step that ChatServer does not have, so what holds of*)
(* ChatServer alone is not lost when its clients are these programs.       *)
THEOREM ServerInSystem == Spec => [][Server!Next]_serverVars
<1>1. SystemInv /\ [Next]_vars => [Server!Next]_serverVars
  BY ServerStep DEF SystemInv
<1>2. QED
  BY <1>1, SystemInvariance, PTL DEF Spec

(* The pairs of ClientConnections stay a symmetric matching of clients that*)
(* are held or gone, and no erase is undefined, while every client's ui,   *)
(* watcher and executor interleave with the server's two threads.          *)
THEOREM SystemKeepsPairs ==
  Spec => [](Server!PairsSymmetric /\ Server!EraseDefined /\ Server!PeerHeldOrGone)
<1>1. SystemInv => Server!PairsSymmetric /\ Server!EraseDefined /\ Server!PeerHeldOrGone
  BY SameServerMessages
     DEF SystemInv, ServerProofs!IInv, ServerProofs!PairsSymmetric, Server!PairsSymmetric,
         ServerProofs!EraseDefined, Server!EraseDefined, ServerProofs!PeerHeldOrGone,
         Server!PeerHeldOrGone, ServerProofs!Paired, Server!Paired, ServerProofs!NoPeer,
         Server!NoPeer
<1>2. QED
  BY <1>1, SystemInvariance, PTL

-----------------------------------------------------------------------------
(***************************************************************************)
(* While nobody declines, closes a chat, gives up a request or leaves, a   *)
(* pair of ClientConnections lasts, and the client that asked waits, with  *)
(* its request unchanged, until the one answer to it is read.              *)
(***************************************************************************)
NobodyEnds == Commands \cap {"Decline", "-close", "ESC", "Leave"} = {}

\* what may be on its way, besides the messages that ChatSystem names
RequestsFor(id) == {m \in Requests : m.arg = id}
Refusals == {m \in Requests : m.arg \in {NotFound, Busy}}
AsksOf(id) == {m \in Asks : m.arg = id}
Closes == {m \in Message : m.id = "CloseClient"}

Once(s, S) == \A i, j \in DOMAIN s : s[i] \in S /\ s[j] \in S => i = j

DueOnce(c, S) == Once(toClient[c], S)
SentOnce(c, S) ==
  /\ Once(toServer[c], S)
  /\ Once(m_qMessagesIn, From(c, S))
  /\ ~ (Has(toServer[c], S) /\ Has(m_qMessagesIn, From(c, S)))

\* The ui waits for the id it asked for: the request is not recorded yet, or
\* it is, and nothing has changed it.
Asking(p) == (p.ui = "setRequest" /\ p.ConnectionRequestId = 0) \/ Pending(p)

\* no request has been read
Untouched(p) ==
  /\ p.ConnectedToId = 0 /\ ChatOf(p) = 0
  /\ p.ui \notin InChat /\ ~ Accepting(p)
  /\ p.ConnectionRequestId = 0 \/ Pending(p)

\* an answer of c is on its way, or may still be given
Owes(c) == Due(c, Asks) \/ Holds(proc[c]) \/ Sent(c, Answers) \/ AnswerDue(c)

\* c asked its peer and has not read the answer
Waiting(c) ==
  /\ Asking(proc[c])
  /\ proc[c].id = Peer(c)
  /\ proc[c].executor = "idle"
  /\ proc[c].ConnectedToId = 0
  /\ ~ Due(c, Refusals) /\ ~ Sent(c, Requests)
  /\ ~ Owes(c)

OneAnswer(c) ==
  /\ DueOnce(c, Asks) /\ SentOnce(c, Answers) /\ DueOnce(c, Answers)
  /\ Due(c, Asks) => ~ Sent(c, Answers) /\ ~ AnswerDue(c)
  /\ Holds(proc[c]) => ~ Sent(c, Answers) /\ ~ AnswerDue(c)
  /\ Sent(c, Answers) => ~ AnswerDue(c)

\* c has no peer: what it asked is refused or not heard yet, if it asked at all
Alone(c) ==
  /\ ~ Due(c, Answers) /\ ~ Sent(c, Answers) /\ proc[c].executor = "idle"
  /\ SentOnce(c, Requests) /\ DueOnce(c, Refusals)
  /\ ~ (Sent(c, Requests) /\ Due(c, Refusals))
  /\ Sent(c, Requests) \/ Due(c, Refusals) => Asking(proc[c])
  /\ \A id \in Known : Sent(c, RequestsFor(id)) => id = proc[c].id

\* no thread of the process ends anything
Alive(p) ==
  /\ p.ui \notin {"close", "clear", "reset", "gone"}
  /\ p.watcher \in {"none", "started", "watching"}
  /\ p.executor # "closed"

NoneEnded(c) ==
  /\ Alive(proc[c])
  /\ link[c] = "ready" /\ c \in m_dequeConnections
  /\ ~ Due(c, Closes) /\ ~ Sent(c, Closes)

\* texts and requests are those of the peer
Signed(c) ==
  /\ \A id \in Args : Sent(c, TextsOf(id)) => id = c
  /\ \A id \in Args : Due(c, TextsOf(id)) => id \in Ids /\ id = Peer(c)
  /\ \A id \in Args : Due(c, AsksOf(id)) => id = Peer(c)

\* the ids a process holds are its peer's, but for the one it asks for
Ours(p, d) ==
  /\ p.ConnectionRequestId \in {0, d} \/ Pending(p)
  /\ p.ConnectedToId # 0 =>
       /\ p.ConnectedToId = d
       /\ p.ui \in InChat \/ (p.ui \in Waits \cup {"checkChat"} /\ p.id = d)
  /\ p.ui \in InChat /\ p.ConnectedToId = 0 => p.ConnectionRequestId = 0
  /\ p.connecting \in {0, d}
  /\ p.ui = "connect" /\ p.connecting = 0 => p.ConnectionRequestId = 0
  /\ p.executor = "answered" =>
       /\ Asking(p) /\ p.id = d /\ p.ConnectedToId = 0
       /\ p.answered \in {0, d}
       /\ p.answered # 0 => Pending(p)

TalkClient(c) ==
  /\ NoneEnded(c) /\ Signed(c) /\ Ours(proc[c], Peer(c)) /\ OneAnswer(c)
  /\ Peer(c) = 0 => Alone(c)
  /\ Peer(c) = 0 \/ Due(c, Asks) => Untouched(proc[c])
  /\ Peer(c) # 0 /\ Owes(c) => Waiting(Peer(c))

TalkInv == \A c \in Ids : TalkClient(c)

-----------------------------------------------------------------------------
(* What is in a sequence of messages, when one is appended or taken *)

LEMMA HasTail ==
  ASSUME NEW T, NEW s \in Seq(T), s # <<>>, NEW S
  PROVE  /\ Has(Tail(s), S) => Has(s, S)
         /\ Head(s) \in S => Has(s, S)
         /\ Once(s, S) => Once(Tail(s), S)
         /\ Once(s, S) /\ Head(s) \in S => ~ Has(Tail(s), S)
<1>1. /\ Tail(s) \in Seq(T) /\ Len(Tail(s)) = Len(s) - 1 /\ Head(s) = s[1] /\ 1 \in DOMAIN s
      /\ \A i \in DOMAIN Tail(s) : i + 1 \in DOMAIN s /\ i + 1 # 1 /\ Tail(s)[i] = s[i + 1]
  OBVIOUS
<1>2. DOMAIN Tail(s) \subseteq Nat
  OBVIOUS
<1>3. Has(Tail(s), S) => Has(s, S)
  BY <1>1 DEF Has
<1>4. Head(s) \in S => Has(s, S)
  BY <1>1 DEF Has
<1>5. Once(s, S) => Once(Tail(s), S)
  <2> SUFFICES ASSUME Once(s, S), NEW i \in DOMAIN Tail(s), NEW j \in DOMAIN Tail(s),
                      Tail(s)[i] \in S, Tail(s)[j] \in S
               PROVE  i = j
    BY DEF Once
  <2>1. i + 1 = j + 1
    BY <1>1 DEF Once
  <2>2. QED
    BY <1>2, <2>1
<1>6. Once(s, S) /\ Head(s) \in S => ~ Has(Tail(s), S)
  BY <1>1 DEF Has, Once
<1>7. QED
  BY <1>3, <1>4, <1>5, <1>6

LEMMA HasAppend ==
  ASSUME NEW T, NEW s \in Seq(T), NEW m \in T, NEW S
  PROVE  /\ Has(Append(s, m), S) <=> Has(s, S) \/ m \in S
         /\ Once(s, S) /\ (m \in S => ~ Has(s, S)) => Once(Append(s, m), S)
<1> DEFINE a == Append(s, m)
<1>1. /\ DOMAIN s = 1 .. Len(s) /\ Len(s) \in Nat /\ DOMAIN a = 1 .. (Len(s) + 1)
      /\ a[Len(s) + 1] = m /\ \A i \in 1 .. Len(s) : a[i] = s[i]
  OBVIOUS
<1> HIDE DEF a
<1>2. \A i \in DOMAIN a : i \in DOMAIN s \/ i = Len(s) + 1
  BY <1>1
<1>3. Has(a, S) <=> Has(s, S) \/ m \in S
  <2>1. Len(s) + 1 \in DOMAIN a /\ \A i \in DOMAIN s : i \in DOMAIN a
    BY <1>1
  <2>2. QED
    BY <1>1, <1>2, <2>1 DEF Has
<1>4. Once(s, S) /\ (m \in S => ~ Has(s, S)) => Once(a, S)
  <2> SUFFICES ASSUME Once(s, S), m \in S => ~ Has(s, S), NEW i \in DOMAIN a, NEW j \in DOMAIN a,
                      a[i] \in S, a[j] \in S
               PROVE  i = j
    BY DEF Once
  <2>1. CASE i \in DOMAIN s /\ j \in DOMAIN s
    BY <1>1, <2>1 DEF Once
  <2>2. CASE i = Len(s) + 1 /\ j = Len(s) + 1
    BY <2>2
  <2>3. CASE i \in DOMAIN s /\ j = Len(s) + 1
    BY <1>1, <2>3 DEF Has
  <2>4. CASE i = Len(s) + 1 /\ j \in DOMAIN s
    BY <1>1, <2>4 DEF Has
  <2>5. QED
    BY <1>2, <2>1, <2>2, <2>3, <2>4
<1>5. QED
  BY <1>3, <1>4 DEF a

-----------------------------------------------------------------------------
(* What a step does to the messages on their way *)

LEMMA SeqOfMore == ASSUME NEW A, NEW B, A \subseteq B PROVE Seq(A) \subseteq Seq(B)
OBVIOUS

LEMMA OnItsWay ==
  ASSUME SystemInv
  PROVE  /\ toServer \in [Ids -> Seq(Message)] /\ toClient \in [Ids -> Seq(Message)]
         /\ m_qMessagesIn \in Seq([remote : Ids, msg : Message])
         /\ ClientMessage \subseteq Message
         /\ ClientConnections \in [Ids -> Ids \cup {0}]
<1>1. ClientMessage \subseteq Message
  BY SameAssumptions, ServerProofs!ClientMessageTyped, SameServerMessages
<1>2. toServer \in [Ids -> Seq(ClientMessage)] /\ toClient \in [Ids -> Seq(Message)]
  BY DEF SystemInv, OutTyped, InTyped
<1>3. /\ m_qMessagesIn \in Seq([remote : Ids, msg : ClientMessage])
      /\ ClientConnections \in [Ids -> Ids \cup {0}]
  BY SameServerMessages DEF SystemInv, ServerProofs!IInv, ServerProofs!TypeOK, ServerProofs!NoPeer
<1>4. m_qMessagesIn \in Seq([remote : Ids, msg : Message])
  <2>1. [remote : Ids, msg : ClientMessage] \subseteq [remote : Ids, msg : Message]
    BY <1>1
  <2>2. Seq([remote : Ids, msg : ClientMessage]) \subseteq Seq([remote : Ids, msg : Message])
    BY <2>1, SeqOfMore
  <2>3. QED
    BY <1>3, <2>2
<1>5. toServer \in [Ids -> Seq(Message)]
  BY <1>1, <1>2, SeqOfMore
<1>6. QED
  BY <1>1, <1>2, <1>3, <1>4, <1>5

DueLess(c, S) == (Due(c, S)' => Due(c, S)) /\ (DueOnce(c, S) => DueOnce(c, S)')
SentLess(c, S) == (Sent(c, S)' => Sent(c, S)) /\ (SentOnce(c, S) => SentOnce(c, S)')

LEMMA SameDue ==
  ASSUME NEW c \in Ids, toClient'[c] = toClient[c], NEW S \in SUBSET Message
  PROVE  (Due(c, S)' <=> Due(c, S)) /\ DueLess(c, S)
BY DEF Due, DueOnce, DueLess

LEMMA SameSent ==
  ASSUME NEW c \in Ids, toServer'[c] = toServer[c], UNCHANGED m_qMessagesIn,
         NEW S \in SUBSET Message
  PROVE  (Sent(c, S)' <=> Sent(c, S)) /\ SentLess(c, S)
BY DEF Sent, SentOnce, SentLess, From

LEMMA SendAdds ==
  ASSUME SystemInv, NEW c \in Ids, NEW m \in ClientMessage, Client!Send(c, m),
         UNCHANGED m_qMessagesIn, NEW S \in SUBSET Message
  PROVE  /\ Sent(c, S)' <=> Sent(c, S) \/ m \in S
         /\ SentOnce(c, S) /\ (m \in S => ~ Sent(c, S)) => SentOnce(c, S)'
         /\ \A e \in Ids \ {c} : SentLess(e, S)
<1>1. toServer[c] \in Seq(Message) /\ m \in Message
  BY OnItsWay
<1>2. toServer' = [toServer EXCEPT ![c] = Append(toServer[c], m)]
  BY DEF Client!Send
<1>3. toServer'[c] = Append(toServer[c], m)
  BY <1>2, OnItsWay
<1>4. \A e \in Ids \ {c} : toServer'[e] = toServer[e]
  BY <1>2, OnItsWay
<1>5. /\ Has(toServer'[c], S) <=> Has(toServer[c], S) \/ m \in S
      /\ Once(toServer[c], S) /\ (m \in S => ~ Has(toServer[c], S)) => Once(toServer'[c], S)
  BY <1>1, <1>3, HasAppend
<1>6. QED
  BY <1>4, <1>5, SameSent DEF Sent, SentOnce, From

LEMMA PopsTake ==
  ASSUME SystemInv, NEW c \in Ids, NEW types, Client!Pops(c, types)
  PROVE  /\ Head(toClient[c]) \in Message /\ Head(toClient[c]).id \in types
         /\ \A S \in SUBSET Message : \A e \in Ids : DueLess(e, S)
         /\ \A S \in SUBSET Message : Head(toClient[c]) \in S =>
              Due(c, S) /\ (DueOnce(c, S) => ~ Due(c, S)')
         /\ \A e \in Ids \ {c} : toClient'[e] = toClient[e]
         /\ UNCHANGED toServer
<1>1. toClient[c] \in Seq(Message) /\ toClient[c] # <<>>
  BY OnItsWay DEF Client!Pops
<1>2. Head(toClient[c]) \in Message
  BY <1>1
<1>3. toClient' = [toClient EXCEPT ![c] = Tail(toClient[c])] /\ UNCHANGED toServer
  BY DEF Client!Pops
<1>4. toClient'[c] = Tail(toClient[c]) /\ \A e \in Ids \ {c} : toClient'[e] = toClient[e]
  BY <1>3, OnItsWay
<1>5. ASSUME NEW S \in SUBSET Message
      PROVE  DueLess(c, S) /\ (Head(toClient[c]) \in S => Due(c, S) /\ (DueOnce(c, S) => ~ Due(c, S)'))
  BY <1>1, <1>4, HasTail DEF Due, DueOnce, DueLess
<1>6. ASSUME NEW S \in SUBSET Message, NEW e \in Ids \ {c} PROVE DueLess(e, S)
  BY <1>4, SameDue
<1>7. Head(toClient[c]).id \in types
  BY DEF Client!Pops
<1>8. QED
  BY <1>2, <1>3, <1>4, <1>5, <1>6, <1>7

-----------------------------------------------------------------------------
(* The steps at one client c that bring no request and no answer *)

Untold(e) == DueLess(e, Asks) /\ DueLess(e, Answers) /\ SentLess(e, Answers)
Unasked(e) ==
  DueLess(e, Refusals) /\ SentLess(e, Requests) /\ \A id \in Known : SentLess(e, RequestsFor(id))
Going(e) == /\ link[e] = "ready" /\ e \in m_dequeConnections
            /\ ~ Due(e, Closes) /\ ~ Sent(e, Closes)

LEMMA PeerTyped ==
  ASSUME SystemInv, NEW c \in Ids
  PROVE  /\ Peer(c) \in Ids \cup {0} /\ 0 \notin Ids
         /\ Peer(c) # 0 => Peer(Peer(c)) = c /\ Peer(c) # c /\ Peer(c) \in Ids
<1>1. ServerProofs!PairsSymmetric
  BY DEF SystemInv, ServerProofs!IInv
<1>2. Peer(c) \in Ids \cup {0}
  BY OnItsWay DEF Peer
<1>3. 0 \notin Ids
  BY IdAssumption DEF Ids, FirstId
<1>4. QED
  BY <1>1, <1>2, <1>3, SameServerMessages
     DEF ServerProofs!PairsSymmetric, ServerProofs!Paired, ServerProofs!NoPeer, Peer

LEMMA LocalStep ==
  ASSUME SystemInv, TalkInv, NEW c \in Ids, UNCHANGED ClientConnections,
         \A e \in Ids : Going(e)' /\ Signed(e)' /\ Untold(e),
         \A e \in Ids \ {c} : proc'[e] = proc[e] /\ Unasked(e),
         Waiting(c) => /\ DueLess(c, Refusals) /\ SentLess(c, Requests)
                       /\ Asking(proc'[c]) /\ proc'[c].id = proc[c].id
                       /\ proc'[c].executor = "idle" /\ proc'[c].ConnectedToId = 0,
         Peer(c) = 0 => Alone(c)',
         Alive(proc'[c]), Ours(proc'[c], Peer(c)),
         Untouched(proc[c]) => Untouched(proc'[c]),
         Holds(proc'[c]) => Holds(proc[c])
  PROVE  TalkInv'
<1> SUFFICES ASSUME NEW e \in Ids PROVE TalkClient(e)'
  BY DEF TalkInv
<1>0. \A f \in Ids : TalkClient(f)
  BY DEF TalkInv
<1>1. \A f \in Ids : Peer(f)' = Peer(f)
  BY DEF Peer
<1>2. \A f \in Ids : AnswerDue(f)' => AnswerDue(f)
  BY <1>1, PeerTyped DEF AnswerDue, Untold, DueLess
<1>3. \A f \in Ids : Owes(f)' => Owes(f)
  BY <1>2 DEF Owes, Untold, DueLess, SentLess
<1>4. ASSUME NEW f \in Ids, Waiting(f) PROVE Waiting(f)'
  <2>1. ~ Due(f, Refusals)' /\ ~ Sent(f, Requests)'
    BY <1>4 DEF Waiting, Unasked, DueLess, SentLess
  <2>2. ~ Owes(f)'
    BY <1>3, <1>4 DEF Waiting
  <2>3. /\ Asking(proc'[f]) /\ proc'[f].id = proc[f].id
        /\ proc'[f].executor = "idle" /\ proc'[f].ConnectedToId = 0
    BY <1>4 DEF Waiting
  <2>4. QED
    BY <1>1, <1>4, <2>1, <2>2, <2>3 DEF Waiting
<1>5. OneAnswer(e)'
  <2>1. OneAnswer(e)
    BY <1>0 DEF TalkClient
  <2>2. Holds(proc'[e]) => Holds(proc[e])
    OBVIOUS
  <2>3. QED
    BY <1>2, <2>1, <2>2 DEF OneAnswer, Untold, DueLess, SentLess
<1>6. NoneEnded(e)' /\ Ours(proc'[e], Peer(e))
  BY <1>0 DEF TalkClient, NoneEnded, Going
<1>7. Peer(e) = 0 => Alone(e)'
  <2>1. CASE e = c
    BY <2>1
  <2>2. CASE e # c
    BY <1>0, <2>2 DEF TalkClient, Alone, Untold, Unasked, DueLess, SentLess
  <2>3. QED
    BY <2>1, <2>2
<1>8. Peer(e) = 0 \/ Due(e, Asks)' => Untouched(proc'[e])
  BY <1>0 DEF TalkClient, Untold, DueLess
<1>9. Peer(e)' # 0 /\ Owes(e)' => Waiting(Peer(e))'
  <2> SUFFICES ASSUME Peer(e) # 0, Owes(e)' PROVE Waiting(Peer(e))'
    BY <1>1
  <2>1. Peer(e) \in Ids /\ Waiting(Peer(e))
    BY <1>0, <1>3, PeerTyped DEF TalkClient
  <2>2. \A f \in Ids : f = Peer(e) => Waiting(f)'
    BY <1>4, <2>1
  <2>3. QED
    BY <1>1, <2>1, <2>2
<1>10. QED
  BY <1>1, <1>5, <1>6, <1>7, <1>8, <1>9 DEF TalkClient

-----------------------------------------------------------------------------
(* The steps of one process that disturb no request *)

Steady(p, q, d) ==
  /\ Alive(q) /\ Ours(q, d)
  /\ Untouched(p) => Untouched(q)
  /\ Holds(q) => Holds(p)
  /\ p.executor = "idle" => q.executor = "idle"
  /\ p.executor = "idle" /\ p.ConnectedToId = 0 /\ Asking(p) =>
       Asking(q) /\ q.id = p.id /\ q.ConnectedToId = 0

OnlyProc(c) == \A e \in Ids \ {c} : proc'[e] = proc[e]

LEMMA ProcShape ==
  ASSUME SystemInv
  PROVE  DOMAIN proc = Ids /\ \A c \in Ids : DOMAIN proc[c] = Fields
BY DEF SystemInv, ProcsTyped, ProcType, Fields

LEMMA TalkFacts ==
  ASSUME TalkInv, NEW c \in Ids
  PROVE  Alive(proc[c]) /\ Ours(proc[c], Peer(c))
BY DEF TalkInv, TalkClient, NoneEnded

LEMMA UiSteady ==
  ASSUME SystemInv, TalkInv, NEW c \in Ids, Client!UiStep(c)
  PROVE  /\ Steady(proc[c], proc'[c], Peer(c)) /\ OnlyProc(c)
         /\ Client!Silent \/ Client!SendToClient(c)
<1>0. /\ DOMAIN proc = Ids /\ DOMAIN proc[c] = Fields /\ Alive(proc[c])
      /\ Ours(proc[c], Peer(c)) /\ Peer(c) \in Ids \cup {0}
  BY ProcShape, TalkFacts, PeerTyped
<1> USE DEF Steady, OnlyProc, Fields, Alive, Ours, Untouched, Holds, Accepting, ChatOf, Asking, Pending, Waits, InChat,
            Client!At, Client!Go
<1>1. CASE Client!SetRequest(c)
  BY <1>0, <1>1 DEF Client!SetRequest
<1>2. CASE Client!LockAndWatch(c)
  BY <1>0, <1>2 DEF Client!LockAndWatch
<1>3. CASE Client!TestRequest(c)
  BY <1>0, <1>3 DEF Client!TestRequest, Client!Requesting
<1>4. CASE Client!Relock(c)
  BY <1>0, <1>4 DEF Client!Relock
<1>5. CASE Client!CheckChat(c)
  <2>1. \A id \in Ids \cup {0} : Client!IsClientId(id) <=> id # 0
    BY IdAssumption DEF Client!IsClientId, Client!FirstId, Ids, FirstId
  <2>2. proc[c].ConnectedToId \in Ids \cup {0}
    BY <1>0
  <2>3. QED
    BY <1>0, <1>5, <2>1, <2>2 DEF Client!CheckChat
<1>6. CASE Client!Join(c)
  BY <1>0, <1>6 DEF Client!Join
<1>7. CASE Client!AcceptReads(c) \/ Client!AcceptConnects(c)
  BY <1>0, <1>7 DEF Client!AcceptReads, Client!AcceptConnects
<1>8. CASE Client!SendToClient(c)
  BY <1>0, <1>8 DEF Client!SendToClient
<1>9. CASE Client!CloseChat(c) \/ Client!ClearConnected(c) \/ Client!ResetRequest(c)
  BY <1>0, <1>9 DEF Client!CloseChat, Client!ClearConnected, Client!ResetRequest
<1>10. QED
  BY <1>1, <1>2, <1>3, <1>4, <1>5, <1>6, <1>7, <1>8, <1>9 DEF Client!UiStep

LEMMA WatcherSteady ==
  ASSUME SystemInv, TalkInv, NEW c \in Ids,
         \/ Client!WatcherStep(c) \/ Client!EnterStep(c) \/ Client!SpuriousWakeup(c)
         \/ Client!Accepted(c) \/ Client!AcceptedNotifies(c) \/ Client!ChatLine(c, "Text", "send")
  PROVE  Steady(proc[c], proc'[c], Peer(c)) /\ OnlyProc(c) /\ Client!Silent
<1>0. /\ DOMAIN proc = Ids /\ DOMAIN proc[c] = Fields /\ Alive(proc[c])
      /\ Ours(proc[c], Peer(c))
  BY ProcShape, TalkFacts
<1> USE DEF Steady, OnlyProc, Fields, Alive, Ours, Untouched, Holds, Accepting, ChatOf, Asking, Pending, Waits, InChat,
            Client!At, Client!Go
<1>1. CASE Client!WatchAgain(c)
  BY <1>0, <1>1 DEF Client!WatchAgain
<1>2. CASE Client!WatchEnds(c)
  BY <1>0, <1>2 DEF Client!WatchEnds
<1>3. CASE Client!WatchClear(c) \/ Client!WatchReset(c) \/ Client!WatchNotify(c) \/ Client!WatchEnter(c)
  BY <1>0, <1>3 DEF Client!WatchClear, Client!WatchReset, Client!WatchNotify, Client!WatchEnter
<1>4. CASE Client!LeaveChat(c)
  BY <1>0, <1>4 DEF Client!LeaveChat
<1>5. CASE Client!SpuriousWakeup(c)
  BY <1>0, <1>5 DEF Client!SpuriousWakeup
<1>6. CASE Client!AcceptedNotifies(c)
  BY <1>0, <1>6 DEF Client!AcceptedNotifies, Client!RequestOver, Client!Notified
<1>7. CASE Client!ChatLine(c, "Text", "send")
  BY <1>0, <1>7 DEF Client!ChatLine
<1>8. CASE Client!Accepted(c)
  BY <1>0, <1>8 DEF Client!Accepted
<1>9. QED
  BY <1>1, <1>2, <1>3, <1>4, <1>5, <1>6, <1>7, <1>8 DEF Client!WatcherStep, Client!EnterStep

LEMMA SteadyStep ==
  ASSUME SystemInv, TalkInv, NEW c \in Ids, UNCHANGED ClientConnections,
         \A e \in Ids : Going(e)' /\ Signed(e)' /\ Untold(e) /\ Unasked(e),
         OnlyProc(c), Steady(proc[c], proc'[c], Peer(c))
  PROVE  TalkInv'
<1>1. TalkClient(c)
  BY DEF TalkInv
<1>2. Waiting(c) => /\ Asking(proc'[c]) /\ proc'[c].id = proc[c].id
                    /\ proc'[c].executor = "idle" /\ proc'[c].ConnectedToId = 0
  BY DEF Waiting, Steady
<1>3. ASSUME Peer(c) = 0 PROVE Alone(c)'
  <2>1. Alone(c) /\ proc[c].ConnectedToId = 0 /\ proc[c].executor = "idle"
    BY <1>1, <1>3 DEF TalkClient, Untouched, Alone
  <2>2. Sent(c, Requests) \/ Due(c, Refusals) => Asking(proc'[c]) /\ proc'[c].id = proc[c].id
    BY <2>1 DEF Alone, Steady
  <2>3. \A id \in Known : Sent(c, RequestsFor(id)) => Sent(c, Requests)
    BY DEF Sent, Has, From, RequestsFor
  <2>4. proc'[c].executor = "idle"
    BY <2>1 DEF Steady
  <2>5. QED
    BY <2>1, <2>2, <2>3, <2>4 DEF Alone, Untold, Unasked, DueLess, SentLess
<1>4. QED
  BY <1>2, <1>3, LocalStep DEF Steady, OnlyProc, Unasked

LEMMA MessageSets ==
  /\ Requests \in SUBSET Message /\ Refusals \in SUBSET Message /\ Asks \in SUBSET Message
  /\ Answers \in SUBSET Message /\ Closes \in SUBSET Message
  /\ \A id : /\ RequestsFor(id) \in SUBSET Message /\ RequestsFor(id) \subseteq Requests
             /\ TextsOf(id) \in SUBSET Message /\ AsksOf(id) \in SUBSET Message
             /\ AsksOf(id) \subseteq Asks
BY DEF Requests, Refusals, Asks, Answers, Closes, RequestsFor, TextsOf, AsksOf

LEMMA SilentKeeps ==
  ASSUME TalkInv, Client!Silent, UNCHANGED serverVars, NEW e \in Ids
  PROVE  Going(e)' /\ Signed(e)' /\ Untold(e) /\ Unasked(e)
<1>1. /\ toServer' = toServer /\ toClient' = toClient /\ m_qMessagesIn' = m_qMessagesIn
      /\ link' = link /\ m_dequeConnections' = m_dequeConnections /\ Peer(e)' = Peer(e)
  BY DEF serverVars, Client!Silent, Peer
<1>2. \A S \in SUBSET Message : (Due(e, S)' <=> Due(e, S)) /\ DueLess(e, S)
  BY <1>1, SameDue
<1>3. \A S \in SUBSET Message : (Sent(e, S)' <=> Sent(e, S)) /\ SentLess(e, S)
  BY <1>1, SameSent
<1>4. NoneEnded(e) /\ Signed(e)
  BY DEF TalkInv, TalkClient
<1>5. Going(e)'
  BY <1>1, <1>2, <1>3, <1>4, MessageSets DEF NoneEnded, Going
<1>6. Signed(e)'
  BY <1>1, <1>2, <1>3, <1>4, MessageSets DEF Signed
<1>7. QED
  BY <1>2, <1>3, <1>5, <1>6, MessageSets DEF Untold, Unasked

LEMMA SendKeeps ==
  ASSUME SystemInv, TalkInv, UNCHANGED serverVars, NEW c \in Ids, NEW m \in ClientMessage,
         Client!Send(c, m), m \notin Closes, \A id \in Args : m \in TextsOf(id) => id = c
  PROVE  /\ \A e \in Ids : Going(e)' /\ Signed(e)' /\ DueLess(e, Asks) /\ DueLess(e, Answers)
         /\ \A e \in Ids : \A S \in SUBSET Message : Due(e, S)' <=> Due(e, S)
         /\ \A e \in Ids \ {c} : Untold(e) /\ Unasked(e)
         /\ m \notin Answers => Untold(c)
         /\ m \notin Requests => Unasked(c)
<1>1. /\ toClient' = toClient /\ m_qMessagesIn' = m_qMessagesIn
      /\ link' = link /\ m_dequeConnections' = m_dequeConnections
      /\ \A e \in Ids : Peer(e)' = Peer(e)
  BY DEF serverVars, Client!Send, Peer
<1>2. \A e \in Ids : \A S \in SUBSET Message : (Due(e, S)' <=> Due(e, S)) /\ DueLess(e, S)
  BY <1>1, SameDue
<1>3. \A S \in SUBSET Message : \A e \in Ids \ {c} : SentLess(e, S)
  BY <1>1, SendAdds
<1>4. \A S \in SUBSET Message : m \notin S => SentLess(c, S)
  BY <1>1, SendAdds DEF SentLess
<1>5. \A S \in SUBSET Message : Sent(c, S)' => Sent(c, S) \/ m \in S
  BY <1>1, SendAdds
<1>6. \A e \in Ids : NoneEnded(e) /\ Signed(e)
  BY DEF TalkInv, TalkClient
<1>7. ASSUME NEW e \in Ids PROVE Going(e)' /\ Signed(e)'
  <2>1. Going(e)'
    BY <1>1, <1>2, <1>3, <1>4, <1>6, MessageSets DEF NoneEnded, Going, SentLess
  <2>2. \A id \in Args : Sent(e, TextsOf(id))' => id = e
    <3>1. CASE e = c
      BY <1>5, <1>6, <3>1, MessageSets DEF Signed
    <3>2. CASE e # c
      BY <1>3, <1>6, <3>2, MessageSets DEF Signed, SentLess
    <3>3. QED
      BY <3>1, <3>2
  <2>3. QED
    BY <1>1, <1>2, <1>6, <2>1, <2>2, MessageSets DEF Signed
<1>8. QED
  BY <1>2, <1>3, <1>4, <1>7, MessageSets DEF Untold, Unasked

LEMMA UiTalks ==
  ASSUME SystemInv, TalkInv, UNCHANGED serverVars, NEW c \in Ids, Client!UiStep(c)
  PROVE  TalkInv'
<1>1. UNCHANGED ClientConnections
  BY DEF serverVars
<1>2. CASE Client!Silent
  BY <1>1, <1>2, SilentKeeps, UiSteady, SteadyStep
<1>3. CASE Client!SendToClient(c)
  <2> DEFINE m == Client!Msg("TextClient", c)
  <2>1. Client!Send(c, m) /\ m \in ClientMessage
    BY <1>3, MessagesTyped DEF Client!SendToClient
  <2>2. m.id = "TextClient" /\ m.arg = c
    BY DEF Client!Msg
  <2>3. /\ m \notin Closes /\ m \notin Answers /\ m \notin Requests
        /\ \A id \in Args : m \in TextsOf(id) => id = c
    BY <2>2 DEF Closes, Answers, Requests, TextsOf
  <2> HIDE DEF m
  <2>4. \A e \in Ids : Going(e)' /\ Signed(e)' /\ Untold(e) /\ Unasked(e)
    BY <2>1, <2>3, SendKeeps
  <2>5. QED
    BY <1>1, <2>4, UiSteady, SteadyStep
<1>4. QED
  BY <1>2, <1>3, UiSteady

LEMMA WatcherTalks ==
  ASSUME SystemInv, TalkInv, UNCHANGED serverVars, NEW c \in Ids,
         \/ Client!WatcherStep(c) \/ Client!EnterStep(c) \/ Client!SpuriousWakeup(c)
         \/ Client!Accepted(c) \/ Client!AcceptedNotifies(c) \/ Client!ChatLine(c, "Text", "send")
  PROVE  TalkInv'
<1>1. UNCHANGED ClientConnections
  BY DEF serverVars
<1>2. QED
  BY <1>1, SilentKeeps, WatcherSteady, SteadyStep

-----------------------------------------------------------------------------
(* What a user types *)

LEMMA AskTalks ==
  ASSUME SystemInv, TalkInv, UNCHANGED serverVars, NEW c \in Ids, Client!Ask(c)
  PROVE  TalkInv'
<1>0. DOMAIN proc = Ids /\ DOMAIN proc[c] = Fields /\ TalkClient(c) /\ Ours(proc[c], Peer(c))
  BY ProcShape, TalkFacts DEF TalkInv
<1>1. PICK ask \in {<<"Ping", "ServerPing">>, <<"HelloAll", "MessageAll">>,
                     <<"Clients", "ClientList">>} :
        Client!Typed(c, ask[1], "prompt") /\ Client!Send(c, Client!Msg(ask[2], 0))
  BY DEF Client!Ask
<1> DEFINE m == Client!Msg(ask[2], 0)
<1>2. ask[2] \in {"ServerPing", "MessageAll", "ClientList"}
  OBVIOUS
<1>3. m \in ClientMessage
  BY <1>2, MessagesTyped
<1>4. m \notin Closes /\ m \notin Answers /\ m \notin Requests /\ \A id \in Args : m \notin TextsOf(id)
  BY <1>2 DEF Closes, Answers, Requests, TextsOf, Client!Msg
<1>5. Client!Send(c, m)
  BY <1>1
<1> HIDE DEF m
<1>6. \A e \in Ids : Going(e)' /\ Signed(e)' /\ Untold(e) /\ Unasked(e)
  BY <1>3, <1>4, <1>5, SendKeeps
<1>7. proc' = [proc EXCEPT ![c].typed = proc[c].typed + 1, ![c].ui = "prompt"]
      /\ proc[c].ui = "prompt"
  BY <1>1 DEF Client!Typed, Client!At
<1>8. Alive(proc[c])
  BY TalkFacts
<1>9. OnlyProc(c) /\ Steady(proc[c], proc'[c], Peer(c))
  BY <1>0, <1>7, <1>8 DEF OnlyProc, Steady, Fields, Alive, Ours, Untouched, Holds, Accepting, ChatOf, Asking, Pending, Waits, InChat
<1>10. UNCHANGED ClientConnections
  BY DEF serverVars
<1>11. QED
  BY <1>6, <1>9, <1>10, SteadyStep

(* ConnectTo: at the prompt no earlier request of the client is unanswered.*)
LEMMA ConnectTalks ==
  ASSUME SystemInv, TalkInv, UNCHANGED serverVars, NEW c \in Ids,
         NEW id \in Ids \cup OtherIds, Client!ConnectTo(c, id)
  PROVE  TalkInv'
<1>0. DOMAIN proc = Ids /\ DOMAIN proc[c] = Fields /\ TalkClient(c) /\ Ours(proc[c], Peer(c))
      /\ Alive(proc[c])
  BY ProcShape, TalkFacts DEF TalkInv
<1> DEFINE m == Client!Msg("RequestToClient", id)
<1>1. m \in ClientMessage /\ Client!Send(c, m)
  BY MessagesTyped DEF Client!ConnectTo
<1>2. m.id = "RequestToClient" /\ m.arg = id
  BY DEF Client!Msg
<1>3. m \notin Closes /\ m \notin Answers /\ \A i \in Args : m \notin TextsOf(i)
  BY <1>2 DEF Closes, Answers, TextsOf
<1>4. \A i \in Known : m \in RequestsFor(i) => i = id
  BY <1>2 DEF RequestsFor
<1> HIDE DEF m
<1>5. /\ \A e \in Ids : Going(e)' /\ Signed(e)' /\ Untold(e)
      /\ \A e \in Ids \ {c} : Unasked(e)
      /\ \A S \in SUBSET Message : Due(c, S)' <=> Due(c, S)
  BY <1>1, <1>3, SendKeeps
<1>6. /\ proc' = [proc EXCEPT ![c].typed = proc[c].typed + 1, ![c].ui = "setRequest", ![c].id = id]
      /\ proc[c].ui = "prompt"
  BY DEF Client!ConnectTo, Client!At
<1>7. /\ \A e \in Ids \ {c} : proc'[e] = proc[e]
      /\ proc'[c].ui = "setRequest" /\ proc'[c].id = id /\ proc'[c].executor = proc[c].executor
      /\ proc'[c].ConnectionRequestId = proc[c].ConnectionRequestId
      /\ proc'[c].ConnectedToId = proc[c].ConnectedToId /\ proc'[c].watcher = proc[c].watcher
  BY <1>0, <1>6 DEF Fields
<1>8. ~ Asking(proc[c])
  BY <1>6 DEF Asking, Pending, Waits
<1>9. ASSUME Peer(c) = 0 PROVE Alone(c)'
  <2>1. Alone(c) /\ Untouched(proc[c])
    BY <1>0, <1>9 DEF TalkClient
  <2>2. ~ Sent(c, Requests) /\ ~ Due(c, Refusals)
    BY <1>8, <2>1 DEF Alone
  <2>3. Asking(proc'[c])
    BY <1>6, <1>7, <2>1 DEF Untouched, Asking, Pending, Waits
  <2>4. UNCHANGED m_qMessagesIn
    BY DEF serverVars
  <2>5. \A S \in SUBSET Message : Sent(c, S)' <=> Sent(c, S) \/ m \in S
    BY <1>1, <2>4, SendAdds
  <2>6. \A S \in SUBSET Message : SentOnce(c, S) /\ (m \in S => ~ Sent(c, S)) => SentOnce(c, S)'
    BY <1>1, <2>4, SendAdds
  <2>7. \A i \in Known : ~ Sent(c, RequestsFor(i))
    BY <2>2 DEF Sent, Has, From, RequestsFor
  <2>8. \A i \in Known : Sent(c, RequestsFor(i))' => i = id
    BY <1>4, <2>5, <2>7, MessageSets
  <2>9. DueLess(c, Refusals)
    BY <1>1, SameDue, MessageSets DEF Client!Send
  <2>10. ~ Due(c, Refusals)' /\ DueOnce(c, Refusals)' /\ SentOnce(c, Requests)'
    BY <2>1, <2>2, <2>6, <2>9, MessageSets DEF Alone, DueLess
  <2>11. ~ Due(c, Answers)' /\ ~ Sent(c, Answers)'
    BY <1>5, <2>1 DEF Alone, Untold, DueLess, SentLess
  <2>12. QED
    BY <1>7, <2>1, <2>3, <2>8, <2>10, <2>11 DEF Alone
<1>10. ~ Waiting(c)
  BY <1>8 DEF Waiting
<1>11. /\ Alive(proc'[c]) /\ Ours(proc'[c], Peer(c))
       /\ Untouched(proc[c]) => Untouched(proc'[c])
       /\ Holds(proc'[c]) => Holds(proc[c])
  BY <1>0, <1>6, <1>7 DEF Alive, Ours, Untouched, Holds, Accepting, ChatOf, Asking, Pending, Waits, InChat
<1>12. UNCHANGED ClientConnections
  BY DEF serverVars
<1>13. QED
  BY <1>5, <1>7, <1>9, <1>10, <1>11, <1>12, LocalStep

-----------------------------------------------------------------------------
(* The steps in which a request is read, accepted, and its answer read *)

LEMMA OthersKeep ==
  ASSUME SystemInv, TalkInv, NEW c \in Ids, UNCHANGED ClientConnections,
         \A e \in Ids : Going(e)' /\ Signed(e)' /\ DueLess(e, Answers),
         \A e \in Ids \ {c} : proc'[e] = proc[e] /\ Untold(e) /\ Unasked(e),
         NEW e \in Ids \ {c}
  PROVE  /\ Waiting(e) => Waiting(e)'
         /\ (Peer(e) = c /\ Owes(e)' => Waiting(c)') => TalkClient(e)'
<1>0. \A f \in Ids : TalkClient(f)
  BY DEF TalkInv
<1>1. \A f \in Ids : Peer(f)' = Peer(f)
  BY DEF Peer
<1>2. \A f \in Ids : AnswerDue(f)' => AnswerDue(f)
  BY <1>1, PeerTyped DEF AnswerDue, DueLess
<1>3. \A f \in Ids \ {c} : Owes(f)' => Owes(f)
  BY <1>2 DEF Owes, Untold, DueLess, SentLess
<1>4. ASSUME NEW f \in Ids \ {c}, Waiting(f) PROVE Waiting(f)'
  <2>1. ~ Due(f, Refusals)' /\ ~ Sent(f, Requests)' /\ ~ Owes(f)'
    BY <1>3, <1>4 DEF Waiting, Unasked, DueLess, SentLess
  <2>2. QED
    BY <1>1, <1>4, <2>1 DEF Waiting
<1>5. ASSUME Peer(e) = c /\ Owes(e)' => Waiting(c)' PROVE TalkClient(e)'
  <2>1. OneAnswer(e)'
    BY <1>0, <1>2 DEF TalkClient, OneAnswer, Untold, DueLess, SentLess
  <2>2. NoneEnded(e)' /\ Ours(proc'[e], Peer(e))
    BY <1>0 DEF TalkClient, NoneEnded, Going
  <2>3. Peer(e) = 0 => Alone(e)'
    BY <1>0 DEF TalkClient, Alone, Untold, Unasked, DueLess, SentLess
  <2>4. Peer(e) = 0 \/ Due(e, Asks)' => Untouched(proc'[e])
    BY <1>0 DEF TalkClient, Untold, DueLess
  <2>5. Peer(e)' # 0 /\ Owes(e)' => Waiting(Peer(e))'
    <3> SUFFICES ASSUME Peer(e) # 0, Owes(e)' PROVE Waiting(Peer(e))'
      BY <1>1
    <3>1. Peer(e) \in Ids /\ Waiting(Peer(e))
      BY <1>0, <1>3, PeerTyped DEF TalkClient
    <3>2. \A f \in Ids : f = Peer(e) => Waiting(f)'
      BY <1>4, <1>5, <3>1
    <3>3. QED
      BY <1>1, <3>1, <3>2
  <2>6. QED
    BY <1>1, <2>1, <2>2, <2>3, <2>4, <2>5 DEF TalkClient
<1>6. QED
  BY <1>4, <1>5

(* Accept: the request was the only sign of an answer to the peer, which   *)
(* waits for it; now the answer itself is.                                 *)
LEMMA AcceptTalks ==
  ASSUME SystemInv, TalkInv, UNCHANGED serverVars, NEW c \in Ids, Client!Accept(c)
  PROVE  TalkInv'
<1>0. /\ DOMAIN proc = Ids /\ DOMAIN proc[c] = Fields /\ TalkClient(c) /\ Ours(proc[c], Peer(c))
      /\ Alive(proc[c]) /\ \A f \in Ids : TalkClient(f)
  BY ProcShape, TalkFacts DEF TalkInv
<1> DEFINE m == Client!Msg("RequestAnswer", 1)
<1>1. m \in ClientMessage /\ Client!Send(c, m)
  BY MessagesTyped DEF Client!Accept
<1>2. m.id = "RequestAnswer"
  BY DEF Client!Msg
<1>3. m \notin Closes /\ m \notin Requests /\ \A i \in Args : m \notin TextsOf(i)
  BY <1>2 DEF Closes, Requests, TextsOf
<1> HIDE DEF m
<1>4. /\ \A e \in Ids : Going(e)' /\ Signed(e)' /\ DueLess(e, Asks) /\ DueLess(e, Answers)
      /\ \A e \in Ids \ {c} : Untold(e) /\ Unasked(e)
  BY <1>1, <1>3, SendKeeps
<1>5. /\ proc' = [proc EXCEPT ![c].typed = proc[c].typed + 1, ![c].ui = "accept"]
      /\ proc[c].ui = "prompt" /\ proc[c].ConnectionRequestId # 0
  BY DEF Client!Accept, Client!Typed, Client!At, Client!IsClientId, Client!FirstId
<1>6. UNCHANGED ClientConnections /\ UNCHANGED m_qMessagesIn
  BY DEF serverVars
<1>7. \A e \in Ids : Peer(e)' = Peer(e)
  BY <1>6 DEF Peer
<1>8. ~ Asking(proc[c]) /\ ~ Untouched(proc[c]) /\ Holds(proc[c])
  BY <1>5 DEF Asking, Untouched, Holds, Accepting, ChatOf, Asking, Pending, Waits, InChat
<1>9. Peer(c) # 0 /\ ~ Due(c, Asks) /\ ~ Sent(c, Answers) /\ ~ AnswerDue(c)
  BY <1>0, <1>8 DEF TalkClient, OneAnswer
<1>10. Peer(c) \in Ids \ {c} /\ Waiting(Peer(c))
  BY <1>0, <1>8, <1>9, PeerTyped DEF TalkClient, Owes
<1>11. \A e \in Ids \ {c} : proc'[e] = proc[e]
  BY <1>0, <1>5
<1>12. /\ \A e \in Ids \ {c} : Waiting(e) => Waiting(e)'
       /\ \A e \in Ids \ {c} : (Peer(e) = c /\ Owes(e)' => Waiting(c)') => TalkClient(e)'
  BY <1>4, <1>6, <1>11, OthersKeep
<1>13. ASSUME NEW e \in Ids \ {c}, Peer(e) = c PROVE ~ Owes(e)'
  <2>1. ~ Owes(e)
    BY <1>0, <1>8, <1>13, PeerTyped DEF TalkClient, Waiting
  <2>2. AnswerDue(e)' => AnswerDue(e)
    BY <1>4, <1>7, <1>13, PeerTyped DEF AnswerDue, DueLess
  <2>3. QED
    BY <1>4, <1>11, <2>1, <2>2 DEF Owes, Untold, DueLess, SentLess
<1>14. TalkClient(c)'
  <2>1. proc'[c].ui = "accept" /\ Alive(proc'[c]) /\ Ours(proc'[c], Peer(c)) /\ ~ Holds(proc'[c])
    BY <1>0, <1>5 DEF Fields, Alive, Ours, Holds, Accepting, ChatOf, Asking, Pending, Waits, InChat
  <2>2. SentOnce(c, Answers)'
    <3>1. SentOnce(c, Answers)
      BY <1>0 DEF TalkClient, OneAnswer
    <3>2. QED
      BY <1>1, <1>6, <1>9, <3>1, SendAdds, MessageSets
  <2>3. ~ AnswerDue(c)' /\ ~ Due(c, Asks)'
    BY <1>4, <1>7, <1>9, <1>10 DEF AnswerDue, DueLess
  <2>4. OneAnswer(c)'
    BY <1>0, <1>4, <2>1, <2>2, <2>3 DEF TalkClient, OneAnswer, DueLess
  <2>5. Waiting(Peer(c))'
    <3>1. \A f \in Ids : f = Peer(c) => Waiting(f)'
      BY <1>10, <1>12
    <3>2. QED
      BY <1>7, <1>10, <3>1
  <2>6. NoneEnded(c)'
    BY <1>4, <2>1 DEF NoneEnded, Going
  <2>7. QED
    BY <1>4, <1>7, <1>9, <2>1, <2>3, <2>4, <2>5, <2>6 DEF TalkClient
<1>15. QED
  BY <1>12, <1>13, <1>14 DEF TalkInv

LEMMA PopsKeep ==
  ASSUME SystemInv, TalkInv, UNCHANGED serverVars, NEW c \in Ids, NEW types, Client!Pops(c, types)
  PROVE  \A e \in Ids : Going(e)' /\ Signed(e)' /\ Untold(e) /\ Unasked(e)
<1> SUFFICES ASSUME NEW e \in Ids PROVE Going(e)' /\ Signed(e)' /\ Untold(e) /\ Unasked(e)
  OBVIOUS
<1>1. \A S \in SUBSET Message : DueLess(e, S)
  BY PopsTake
<1>2. /\ toServer' = toServer /\ m_qMessagesIn' = m_qMessagesIn
      /\ link' = link /\ m_dequeConnections' = m_dequeConnections /\ Peer(e)' = Peer(e)
  BY DEF serverVars, Peer, Client!Pops
<1>3. \A S \in SUBSET Message : (Sent(e, S)' <=> Sent(e, S)) /\ SentLess(e, S)
  BY <1>2, SameSent
<1>4. NoneEnded(e) /\ Signed(e)
  BY DEF TalkInv, TalkClient
<1>5. Going(e)'
  BY <1>1, <1>2, <1>3, <1>4, MessageSets DEF NoneEnded, Going, DueLess
<1>6. Signed(e)'
  BY <1>1, <1>2, <1>3, <1>4, MessageSets DEF Signed, DueLess
<1>7. QED
  BY <1>1, <1>3, <1>5, <1>6, MessageSets DEF Untold, Unasked

LEMMA ShownTalks ==
  ASSUME SystemInv, TalkInv, UNCHANGED serverVars, NEW c \in Ids, Client!Shown(c)
  PROVE  TalkInv'
<1>1. \A e \in Ids : Going(e)' /\ Signed(e)' /\ Untold(e) /\ Unasked(e)
  BY PopsKeep DEF Client!Shown
<1>2. proc' = proc /\ UNCHANGED ClientConnections
  BY DEF Client!Shown, serverVars
<1>3. Steady(proc[c], proc'[c], Peer(c)) /\ OnlyProc(c)
  BY <1>2, TalkFacts DEF Steady, OnlyProc
<1>4. QED
  BY <1>1, <1>2, <1>3, SteadyStep

(* A refusal answers the only request of a client that has no peer; a      *)
(* client that waits for its peer is owed none.                            *)
LEMMA RefusedTalks ==
  ASSUME SystemInv, TalkInv, UNCHANGED serverVars, NEW c \in Ids, Client!Refused(c)
  PROVE  TalkInv'
<1>0. DOMAIN proc = Ids /\ DOMAIN proc[c] = Fields /\ TalkClient(c) /\ Ours(proc[c], Peer(c))
      /\ Alive(proc[c])
  BY ProcShape, TalkFacts DEF TalkInv
<1>1. Client!Pops(c, {"RequestToClient"}) /\ Client!arg(c) \in {NotFound, Busy}
  BY DEF Client!Refused, Client!NotFound, NotFound, Client!Busy, Busy
<1>2. Head(toClient[c]) \in Refusals
  BY <1>1, PopsTake DEF Client!arg, Refusals, Requests
<1>3. \A e \in Ids : Going(e)' /\ Signed(e)' /\ Untold(e) /\ Unasked(e)
  BY <1>1, PopsKeep
<1>4. Due(c, Refusals) /\ (DueOnce(c, Refusals) => ~ Due(c, Refusals)')
  BY <1>1, <1>2, PopsTake, MessageSets
<1>5. ~ Waiting(c)
  BY <1>4 DEF Waiting
<1>6. /\ proc' = [proc EXCEPT ![c].executor = "idle", ![c].ConnectionRequestId = 0,
                              ![c].ui = Client!Notified(proc[c].ui)]
  BY DEF Client!Refused, Client!RequestOver
<1>7. /\ \A e \in Ids \ {c} : proc'[e] = proc[e]
      /\ Alive(proc'[c]) /\ Ours(proc'[c], Peer(c))
      /\ Untouched(proc[c]) => Untouched(proc'[c])
      /\ Holds(proc'[c]) => Holds(proc[c])
      /\ proc'[c].executor = "idle" /\ proc'[c].id = proc[c].id
  BY <1>0, <1>6 DEF Client!Notified, Fields, Alive, Ours, Untouched, Holds, Accepting, ChatOf, Asking, Pending, Waits, InChat
<1>8. ASSUME Peer(c) = 0 PROVE Alone(c)'
  <2>1. Alone(c)
    BY <1>0, <1>8 DEF TalkClient
  <2>2. ~ Sent(c, Requests) /\ ~ Due(c, Refusals)'
    BY <1>4, <2>1 DEF Alone
  <2>3. QED
    BY <1>3, <1>7, <2>1, <2>2 DEF Alone, Untold, Unasked, DueLess, SentLess
<1>9. UNCHANGED ClientConnections
  BY DEF serverVars
<1>10. QED
  BY <1>3, <1>5, <1>7, <1>8, <1>9, LocalStep

(* A request is read: its peer waits, and now the process holds it.        *)
LEMMA RequestedTalks ==
  ASSUME SystemInv, TalkInv, UNCHANGED serverVars, NEW c \in Ids, Client!Requested(c)
  PROVE  TalkInv'
<1>0. /\ DOMAIN proc = Ids /\ DOMAIN proc[c] = Fields /\ TalkClient(c) /\ Ours(proc[c], Peer(c))
      /\ Alive(proc[c]) /\ \A f \in Ids : TalkClient(f)
  BY ProcShape, TalkFacts DEF TalkInv
<1> DEFINE a == Client!arg(c)
<1>1. Client!Pops(c, {"RequestToClient"}) /\ a \notin {NotFound, Busy} /\ proc[c].executor = "idle"
  BY DEF Client!Requested, Client!Pops, Client!NotFound, NotFound, Client!Busy, Busy
<1>2. Head(toClient[c]) \in AsksOf(a)
  BY <1>1, PopsTake DEF Client!arg, AsksOf, Asks, Requests
<1>3. \A e \in Ids : Going(e)' /\ Signed(e)' /\ Untold(e) /\ Unasked(e)
  BY <1>1, PopsKeep
<1>4. Due(c, Asks) /\ ~ Due(c, Asks)' /\ Due(c, AsksOf(a))
  <2>1. DueOnce(c, Asks)
    BY <1>0 DEF TalkClient, OneAnswer
  <2>2. QED
    BY <1>1, <1>2, <2>1, PopsTake, MessageSets
<1>5. a = Peer(c) /\ Peer(c) # 0
  <2>1. a \in Args
    BY <1>1, PopsTake DEF Client!arg, Message
  <2>2. QED
    BY <1>0, <1>1, <1>4, <2>1 DEF TalkClient, Signed, NotFound
<1>6. Untouched(proc[c]) /\ Owes(c) /\ ~ Sent(c, Answers) /\ ~ AnswerDue(c)
  BY <1>0, <1>4 DEF TalkClient, Owes, OneAnswer
<1>7. Peer(c) \in Ids \ {c} /\ Waiting(Peer(c)) /\ ~ Waiting(c)
  BY <1>0, <1>5, <1>6, PeerTyped DEF TalkClient, Waiting
<1>8. proc' = [proc EXCEPT ![c].ConnectionRequestId = Peer(c)]
  BY <1>5 DEF Client!Requested
<1>9. UNCHANGED ClientConnections
  BY DEF serverVars
<1>10. \A e \in Ids : Peer(e)' = Peer(e)
  BY <1>9 DEF Peer
<1>11. \A e \in Ids \ {c} : proc'[e] = proc[e]
  BY <1>0, <1>8
<1>12. /\ \A e \in Ids \ {c} : Waiting(e) => Waiting(e)'
       /\ \A e \in Ids \ {c} : (Peer(e) = c /\ Owes(e)' => Waiting(c)') => TalkClient(e)'
  BY <1>3, <1>9, <1>11, OthersKeep DEF Untold
<1>13. ASSUME NEW e \in Ids \ {c}, Peer(e) = c PROVE ~ Owes(e)'
  <2>1. ~ Owes(e)
    BY <1>0, <1>7, <1>13, PeerTyped DEF TalkClient
  <2>2. AnswerDue(e)' => AnswerDue(e)
    BY <1>3, <1>10, <1>13, PeerTyped DEF AnswerDue, Untold, DueLess
  <2>3. QED
    BY <1>3, <1>11, <2>1, <2>2 DEF Owes, Untold, DueLess, SentLess
<1>14. TalkClient(c)'
  <2>1. Alive(proc'[c]) /\ Ours(proc'[c], Peer(c))
    BY <1>0, <1>1, <1>6, <1>8 DEF Fields, Alive, Ours, Untouched, Accepting, ChatOf, Asking, Pending, Waits, InChat
  <2>2. ~ AnswerDue(c)' /\ ~ Sent(c, Answers)'
    BY <1>3, <1>6, <1>7, <1>10 DEF AnswerDue, Untold, DueLess, SentLess
  <2>3. OneAnswer(c)'
    BY <1>0, <1>3, <1>4, <2>2 DEF TalkClient, OneAnswer, Untold, DueLess, SentLess
  <2>4. Waiting(Peer(c))'
    <3>1. \A f \in Ids : f = Peer(c) => Waiting(f)'
      BY <1>7, <1>12
    <3>2. QED
      BY <1>7, <1>10, <3>1
  <2>5. NoneEnded(c)'
    BY <1>3, <2>1 DEF NoneEnded, Going
  <2>6. QED
    BY <1>3, <1>4, <1>5, <1>10, <2>1, <2>3, <2>4, <2>5 DEF TalkClient
<1>15. QED
  BY <1>12, <1>13, <1>14 DEF TalkInv

(* An answer is read: the reader waits for it, and no other is due. *)
LEMMA AnswerReadTalks ==
  ASSUME SystemInv, TalkInv, UNCHANGED serverVars, NEW c \in Ids,
         Client!Answered(c) \/ Client!Declined(c)
  PROVE  TalkInv'
<1>0. /\ DOMAIN proc = Ids /\ DOMAIN proc[c] = Fields /\ TalkClient(c) /\ Ours(proc[c], Peer(c))
      /\ Alive(proc[c]) /\ \A f \in Ids : TalkClient(f)
  BY ProcShape, TalkFacts DEF TalkInv
<1>1. Client!Pops(c, {"RequestAnswer"})
  BY DEF Client!Answered, Client!Declined
<1>2. Head(toClient[c]) \in Answers
  BY <1>1, PopsTake DEF Answers
<1>3. \A e \in Ids : Going(e)' /\ Signed(e)' /\ Untold(e) /\ Unasked(e)
  BY <1>1, PopsKeep
<1>4. DueOnce(c, Answers)
  BY <1>0 DEF TalkClient, OneAnswer
<1>5. Due(c, Answers) /\ ~ Due(c, Answers)'
  BY <1>1, <1>2, <1>4, PopsTake, MessageSets
<1>6. PICK d \in Ids \ {c} : d = Peer(c) /\ Peer(d) = c
  BY <1>0, <1>5, PeerTyped DEF TalkClient, Alone
<1>7. 0 \notin Ids
  BY PeerTyped
<1>8. AnswerDue(d)
  BY <1>5, <1>6, <1>7 DEF AnswerDue
<1>9. /\ Waiting(c) /\ ~ Due(d, Asks) /\ ~ Holds(proc[d]) /\ ~ Sent(d, Answers)
      /\ ~ Owes(c) /\ proc[c].id = d
  <2>1. Waiting(Peer(d))
    BY <1>0, <1>6, <1>7, <1>8 DEF TalkClient, Owes
  <2>2. Waiting(c)
    BY <1>6, <2>1
  <2>3. OneAnswer(d)
    BY <1>0, <1>6 DEF TalkClient
  <2>4. QED
    BY <1>6, <1>8, <2>2, <2>3 DEF OneAnswer, Waiting
<1>10. UNCHANGED ClientConnections
  BY DEF serverVars
<1>11. \A e \in Ids : Peer(e)' = Peer(e)
  BY <1>10 DEF Peer
<1>12. /\ \A e \in Ids \ {c} : proc'[e] = proc[e]
       /\ Alive(proc'[c]) /\ Ours(proc'[c], d) /\ ~ Holds(proc'[c])
  <2>1. Asking(proc[c]) /\ proc[c].ConnectedToId = 0 /\ Ours(proc[c], d)
    BY <1>0, <1>6, <1>9 DEF Waiting
  <2>2. CASE Client!Answered(c)
    <3>1. proc' = [proc EXCEPT ![c].executor = "answered",
                               ![c].answered = proc[c].ConnectionRequestId]
      BY <2>2 DEF Client!Answered
    <3>2. QED
      BY <1>0, <1>9, <2>1, <3>1 DEF Fields, Alive, Ours, Holds, Accepting, ChatOf, Asking, Pending, Waits, InChat
  <2>3. CASE Client!Declined(c)
    <3>1. proc' = [proc EXCEPT ![c].executor = "idle", ![c].ConnectionRequestId = 0,
                               ![c].ui = Client!Notified(proc[c].ui)]
      BY <2>3 DEF Client!Declined, Client!RequestOver
    <3>2. QED
      BY <1>0, <1>9, <2>1, <3>1
         DEF Client!Notified, Fields, Alive, Ours, Holds, Accepting, ChatOf, Asking, Pending, Waits, InChat
  <2>4. QED
    BY <2>2, <2>3
<1>13. ~ Owes(d)'
  <2>1. ~ AnswerDue(d)'
    BY <1>5, <1>6, <1>11 DEF AnswerDue
  <2>2. QED
    BY <1>3, <1>6, <1>9, <1>12, <2>1 DEF Owes, Untold, DueLess, SentLess
<1>14. \A e \in Ids \ {c} : (Peer(e) = c /\ Owes(e)' => Waiting(c)') => TalkClient(e)'
  BY <1>3, <1>10, <1>12, OthersKeep DEF Untold
<1>15. \A e \in Ids \ {c} : Peer(e) = c => ~ Owes(e)'
  <2>1. \A e \in Ids \ {c} : Peer(e) = c => e = d
    BY <1>6, <1>7, PeerTyped
  <2>2. QED
    BY <1>13, <2>1
<1>16. TalkClient(c)'
  <2>1. ~ AnswerDue(c)' /\ ~ Due(c, Asks)' /\ ~ Sent(c, Answers)'
    BY <1>3, <1>6, <1>9, <1>11 DEF AnswerDue, Owes, Untold, DueLess, SentLess
  <2>2. OneAnswer(c)'
    BY <1>0, <1>3, <1>12, <2>1 DEF TalkClient, OneAnswer, Untold, DueLess, SentLess
  <2>3. ~ Owes(c)'
    BY <1>12, <2>1 DEF Owes
  <2>4. NoneEnded(c)'
    BY <1>3, <1>12 DEF NoneEnded, Going
  <2>5. Peer(c)' = d /\ d # 0
    BY <1>6, <1>7, <1>11
  <2>6. QED
    BY <1>3, <1>12, <2>1, <2>2, <2>3, <2>4, <2>5 DEF TalkClient
<1>17. QED
  BY <1>14, <1>15, <1>16 DEF TalkInv

LEMMA ClosedNever ==
  ASSUME SystemInv, TalkInv, NEW c \in Ids
  PROVE  ~ Client!Closed(c) /\ ~ Client!ClosedResets(c)
<1>0. ~ Client!ClosedResets(c)
  BY TalkFacts DEF Alive, Client!ClosedResets
<1> SUFFICES ASSUME Client!Closed(c) PROVE FALSE
  BY <1>0
<1>1. Client!Pops(c, {"CloseClient"})
  BY DEF Client!Closed
<1>2. Head(toClient[c]) \in Closes
  BY <1>1, PopsTake DEF Closes
<1>3. Due(c, Closes)
  BY <1>1, <1>2, PopsTake, MessageSets
<1>4. QED
  BY <1>3 DEF TalkInv, TalkClient, NoneEnded

LEMMA ClientTalks ==
  ASSUME NobodyEnds, SystemInv, TalkInv, UNCHANGED serverVars, NEW c \in Ids,
         Client!ClientStep(c)
  PROVE  TalkInv'
<1>1. CASE Client!UiStep(c)
  BY <1>1, UiTalks
<1>2. CASE Client!WatcherStep(c) \/ Client!EnterStep(c) \/ Client!SpuriousWakeup(c)
  BY <1>2, WatcherTalks
<1>3. CASE Client!ExecutorStep(c)
  BY <1>3, ShownTalks, RefusedTalks, RequestedTalks, AnswerReadTalks, WatcherTalks, ClosedNever
     DEF Client!ExecutorStep
<1>4. CASE Client!UserStep(c)
  <2>1. ~ Client!Decline(c) /\ ~ Client!ChatLine(c, "-close", "close")
        /\ ~ Client!WatchClose(c) /\ ~ Client!Leave(c)
    BY DEF NobodyEnds, Client!Decline, Client!ChatLine, Client!WatchClose, Client!Leave,
           Client!Typed, Client!CanType
  <2>2. QED
    BY <1>4, <2>1, SameIds, ConnectTalks, AcceptTalks, AskTalks, WatcherTalks
       DEF Client!UserStep
<1>5. QED
  BY <1>1, <1>2, <1>3, <1>4 DEF Client!ClientStep

-----------------------------------------------------------------------------
(* What the server's threads do to the messages on their way *)

LEMMA InFrom ==
  ASSUME NEW c \in Ids, NEW e \in Ids, NEW m \in Message, NEW S \in SUBSET Message
  PROVE  [remote |-> e, msg |-> m] \in From(c, S) <=> e = c /\ m \in S
BY DEF From

LEMMA ArriveMoves ==
  ASSUME SystemInv, NEW c \in Ids, Arrive(c), NEW e \in Ids, NEW S \in SUBSET Message
  PROVE  SentLess(e, S)
<1> DEFINE m == Head(toServer[c])
           r == [remote |-> c, msg |-> m]
           T == [remote : Ids, msg : Message]
<1>1. toServer[c] \in Seq(Message) /\ toServer[c] # <<>> /\ m_qMessagesIn \in Seq(T)
  BY OnItsWay DEF Arrive
<1>2. m \in Message /\ r \in T
  BY <1>1
<1>3. toServer' = [toServer EXCEPT ![c] = Tail(toServer[c])]
      /\ m_qMessagesIn' = Append(m_qMessagesIn, r)
  BY DEF Arrive, Server!Receive
<1>4. toServer'[c] = Tail(toServer[c]) /\ (e # c => toServer'[e] = toServer[e])
  BY <1>3, OnItsWay
<1>5. r \in From(e, S) <=> c = e /\ m \in S
  BY <1>2, InFrom
<1>6. /\ Has(m_qMessagesIn', From(e, S)) <=> Has(m_qMessagesIn, From(e, S)) \/ r \in From(e, S)
      /\ Once(m_qMessagesIn, From(e, S)) /\ (r \in From(e, S) => ~ Has(m_qMessagesIn, From(e, S)))
           => Once(m_qMessagesIn', From(e, S))
  <2> HIDE DEF r, T
  <2>1. QED
    BY <1>1, <1>2, <1>3, HasAppend
<1>7. /\ Has(Tail(toServer[c]), S) => Has(toServer[c], S)
      /\ m \in S => Has(toServer[c], S)
      /\ Once(toServer[c], S) => Once(Tail(toServer[c]), S)
      /\ Once(toServer[c], S) /\ m \in S => ~ Has(Tail(toServer[c]), S)
  BY <1>1, HasTail
<1>8. /\ Sent(e, S)' <=> Has(toServer'[e], S) \/ Has(m_qMessagesIn', From(e, S))
      /\ SentOnce(e, S)' <=>
           /\ Once(toServer'[e], S)
           /\ Once(m_qMessagesIn', From(e, S))
           /\ ~ (Has(toServer'[e], S) /\ Has(m_qMessagesIn', From(e, S)))
  BY DEF Sent, SentOnce, From
<1> HIDE DEF m, r, T
<1>9. CASE e = c
  BY <1>4, <1>5, <1>6, <1>7, <1>8, <1>9 DEF Sent, SentOnce, SentLess
<1>10. CASE e # c
  BY <1>4, <1>5, <1>6, <1>8, <1>10 DEF Sent, SentOnce, SentLess
<1>11. QED
  BY <1>9, <1>10

LEMMA ArriveTalks ==
  ASSUME SystemInv, TalkInv, NEW c \in Ids, Arrive(c)
  PROVE  TalkInv'
<1>1. /\ toClient' = toClient /\ proc' = proc /\ link' = link
      /\ m_dequeConnections' = m_dequeConnections /\ ClientConnections' = ClientConnections
  BY DEF Arrive, Server!Receive
<1>2. ASSUME NEW e \in Ids
      PROVE  Going(e)' /\ Signed(e)' /\ Untold(e) /\ Unasked(e)
  <2>1. \A S \in SUBSET Message : (Due(e, S)' <=> Due(e, S)) /\ DueLess(e, S)
    BY <1>1, SameDue
  <2>2. \A S \in SUBSET Message : SentLess(e, S)
    BY ArriveMoves
  <2>3. NoneEnded(e) /\ Signed(e) /\ Peer(e)' = Peer(e)
    BY <1>1 DEF TalkInv, TalkClient, Peer
  <2>4. Going(e)'
    BY <1>1, <2>1, <2>2, <2>3, MessageSets DEF NoneEnded, Going, SentLess
  <2>5. Signed(e)'
    BY <2>1, <2>2, <2>3, MessageSets DEF Signed, SentLess
  <2>6. QED
    BY <2>1, <2>2, <2>4, <2>5, MessageSets DEF Untold, Unasked
<1>3. Steady(proc[c], proc'[c], Peer(c)) /\ OnlyProc(c)
  BY <1>1, TalkFacts DEF Steady, OnlyProc
<1>4. QED
  BY <1>1, <1>2, <1>3, SteadyStep

\* what the main thread pops, and what it posts
LEMMA HandleTakes ==
  ASSUME SystemInv, Handle
  PROVE  /\ Server!client \in Ids /\ Server!msg \in Message
         /\ UNCHANGED <<toServer, proc, link>>
         /\ \A S \in SUBSET Message : \A e \in Ids : SentLess(e, S)
         /\ \A S \in SUBSET Message : \A e \in Ids : e = Server!client /\ Server!msg \in S =>
              Sent(e, S) /\ (SentOnce(e, S) => ~ Sent(e, S)')
<1> DEFINE k == Server!client
           m == Server!msg
           h == Head(m_qMessagesIn)
           T == [remote : Ids, msg : Message]
<1>1. m_qMessagesIn # <<>> /\ m_qMessagesIn' = Tail(m_qMessagesIn) /\ link' = link
  BY DEF Handle, Server!OnMessage, Server!OnServerPing, Server!OnMessageAll, Server!OnClientList,
         Server!OnRequestToClient, Server!OnTextClient, Server!OnRequestAnswer,
         Server!OnCloseClient, Server!AtThrows, Server!PeerPop, Server!Pop
<1>2. m_qMessagesIn \in Seq(T)
  BY OnItsWay
<1>3. h \in T
  <2> HIDE DEF T
  <2>1. QED
    BY <1>1, <1>2
<1>4. k \in Ids /\ m \in Message /\ h = [remote |-> k, msg |-> m]
  BY <1>3 DEF Server!client, Server!msg
<1>5. toServer' = toServer /\ proc' = proc
  BY DEF Handle
<1>6. ASSUME NEW e \in Ids, NEW S \in SUBSET Message
      PROVE  /\ Has(Tail(m_qMessagesIn), From(e, S)) => Has(m_qMessagesIn, From(e, S))
             /\ h \in From(e, S) => Has(m_qMessagesIn, From(e, S))
             /\ Once(m_qMessagesIn, From(e, S)) => Once(Tail(m_qMessagesIn), From(e, S))
             /\ Once(m_qMessagesIn, From(e, S)) /\ h \in From(e, S)
                  => ~ Has(Tail(m_qMessagesIn), From(e, S))
             /\ Sent(e, S)' <=> Has(toServer[e], S) \/ Has(Tail(m_qMessagesIn), From(e, S))
             /\ SentOnce(e, S)' <=>
                  /\ Once(toServer[e], S)
                  /\ Once(Tail(m_qMessagesIn), From(e, S))
                  /\ ~ (Has(toServer[e], S) /\ Has(Tail(m_qMessagesIn), From(e, S)))
             /\ h \in From(e, S) <=> k = e /\ m \in S
  <2>1. /\ Has(Tail(m_qMessagesIn), From(e, S)) => Has(m_qMessagesIn, From(e, S))
        /\ h \in From(e, S) => Has(m_qMessagesIn, From(e, S))
        /\ Once(m_qMessagesIn, From(e, S)) => Once(Tail(m_qMessagesIn), From(e, S))
        /\ Once(m_qMessagesIn, From(e, S)) /\ h \in From(e, S)
             => ~ Has(Tail(m_qMessagesIn), From(e, S))
    <3> HIDE DEF T
    <3>1. QED
      BY <1>1, <1>2, HasTail
  <2>2. h \in From(e, S) <=> k = e /\ m \in S
    BY <1>4, InFrom
  <2>3. QED
    BY <1>1, <1>5, <2>1, <2>2 DEF Sent, SentOnce, From
<1> HIDE DEF h, k, m, T
<1>7. ASSUME NEW S \in SUBSET Message, NEW e \in Ids PROVE SentLess(e, S)
  BY <1>6 DEF Sent, SentOnce, SentLess
<1>8. ASSUME NEW S \in SUBSET Message, NEW e \in Ids, e = k, m \in S
      PROVE  Sent(e, S) /\ (SentOnce(e, S) => ~ Sent(e, S)')
  BY <1>6, <1>8 DEF Sent, SentOnce
<1>9. QED
  BY <1>1, <1>4, <1>5, <1>7, <1>8 DEF k, m

\* each client is posted at most one message
LEMMA Delivered ==
  ASSUME SystemInv, SystemInv', TalkInv, Handle, NEW e \in Ids
  PROVE  \/ toClient'[e] = toClient[e] /\ \A p \in posted' : p.to # e
         \/ \E p \in posted' : /\ p.to = e /\ p.msg \in Message
                               /\ toClient'[e] = Append(toClient[e], p.msg)
<1>1. posted' \subseteq [to : Ids, msg : Message]
  BY SameServerMessages DEF SystemInv, ServerProofs!IInv, ServerProofs!TypeOK
<1>2. link[e] = "ready"
  BY DEF TalkInv, TalkClient, NoneEnded
<1>3. CASE PostedTo(e) = {}
  BY <1>2, <1>3 DEF Handle, PostedTo
<1>4. CASE PostedTo(e) # {}
  <2>1. PICK p : p = CHOOSE q \in PostedTo(e) : TRUE
    OBVIOUS
  <2>2. p \in PostedTo(e)
    BY <1>4, <2>1
  <2>3. toClient'[e] = Append(toClient[e], p.msg)
    BY <1>4, <2>1 DEF Handle
  <2>4. p \in posted' /\ p.to = e /\ p.msg \in Message
    BY <1>1, <2>2 DEF PostedTo
  <2>5. QED
    BY <2>3, <2>4
<1>5. QED
  BY <1>3, <1>4

LEMMA DeliversOnly ==
  ASSUME SystemInv, SystemInv', TalkInv, Handle, NEW e \in Ids, NEW S \in SUBSET Message
  PROVE  /\ Due(e, S)' => Due(e, S) \/ \E p \in posted' : p.to = e /\ p.msg \in S
         /\ (\A p \in posted' : p.to = e => p.msg \notin S) => DueLess(e, S)
         /\ DueOnce(e, S) /\ ~ Due(e, S) => DueOnce(e, S)'
<1>1. CASE toClient'[e] = toClient[e]
  BY <1>1 DEF Due, DueOnce, DueLess
<1>2. ASSUME NEW p \in posted', p.to = e, p.msg \in Message,
             toClient'[e] = Append(toClient[e], p.msg)
      PROVE  /\ Due(e, S)' => Due(e, S) \/ \E q \in posted' : q.to = e /\ q.msg \in S
             /\ (\A q \in posted' : q.to = e => q.msg \notin S) => DueLess(e, S)
             /\ DueOnce(e, S) /\ ~ Due(e, S) => DueOnce(e, S)'
  <2>1. toClient[e] \in Seq(Message)
    BY OnItsWay
  <2>2. /\ Has(toClient'[e], S) <=> Has(toClient[e], S) \/ p.msg \in S
        /\ Once(toClient[e], S) /\ (p.msg \in S => ~ Has(toClient[e], S)) => Once(toClient'[e], S)
    BY <1>2, <2>1, HasAppend
  <2>3. QED
    BY <1>2, <2>2 DEF Due, DueOnce, DueLess
<1>3. QED
  BY <1>1, <1>2, Delivered

\* While nobody ends anything, the server keeps every client and every pair,
\* and the texts it posts are the peer's.
LEMMA HandleKeeps ==
  ASSUME SystemInv, SystemInv', TalkInv, Handle, NEW e \in Ids,
         e \in m_dequeConnections',
         \A p \in posted' : p.to = e => p.msg \notin Closes
  PROVE  /\ Going(e)' /\ SentLess(e, Answers) /\ SentLess(e, Requests)
         /\ \A id \in Known : SentLess(e, RequestsFor(id))
         /\ \A id \in Args : Sent(e, TextsOf(id))' => id = e
<1>1. NoneEnded(e) /\ Signed(e)
  BY DEF TalkInv, TalkClient
<1>2. \A S \in SUBSET Message : SentLess(e, S)
  BY HandleTakes
<1>3. DueLess(e, Closes)
  BY DeliversOnly, MessageSets
<1>4. link' = link
  BY HandleTakes
<1>5. Going(e)'
  BY <1>1, <1>2, <1>3, <1>4, MessageSets DEF NoneEnded, Going, SentLess, DueLess
<1>6. \A id \in Args : Sent(e, TextsOf(id))' => id = e
  BY <1>1, <1>2, MessageSets DEF Signed, SentLess
<1>7. QED
  BY <1>2, <1>5, <1>6, MessageSets

Plain == {"ServerPing", "ServerMessage", "ClientList", "TextClient"}

LEMMA PlainTalks ==
  ASSUME SystemInv, SystemInv', TalkInv, Handle, UNCHANGED ClientConnections,
         Ids \subseteq m_dequeConnections',
         \A p \in posted' : /\ p.msg.id \in Plain
                            /\ p.msg.id = "TextClient" => p.msg.arg \in Ids /\ p.msg.arg = Peer(p.to)
  PROVE  TalkInv'
<1>1. \A p \in posted' : /\ p.msg \notin Closes /\ p.msg \notin Asks /\ p.msg \notin Answers
                         /\ p.msg \notin Refusals /\ \A id \in Args : p.msg \notin AsksOf(id)
                         /\ \A id \in Args : p.msg \in TextsOf(id) => id \in Ids /\ id = Peer(p.to)
  BY DEF Plain, Closes, Asks, Answers, Refusals, Requests, AsksOf, TextsOf
<1>2. ASSUME NEW e \in Ids
      PROVE  Going(e)' /\ Signed(e)' /\ Untold(e) /\ Unasked(e)
  <2>1. /\ Going(e)' /\ SentLess(e, Answers) /\ SentLess(e, Requests)
        /\ \A id \in Known : SentLess(e, RequestsFor(id))
        /\ \A id \in Args : Sent(e, TextsOf(id))' => id = e
    BY <1>1, HandleKeeps
  <2>2. DueLess(e, Asks) /\ DueLess(e, Answers) /\ DueLess(e, Refusals)
    BY <1>1, DeliversOnly, MessageSets
  <2>3. \A id \in Args : Due(e, AsksOf(id))' => Due(e, AsksOf(id))
    BY <1>1, DeliversOnly, MessageSets
  <2>4. \A id \in Args : Due(e, TextsOf(id))' => Due(e, TextsOf(id)) \/ (id \in Ids /\ id = Peer(e))
    <3> SUFFICES ASSUME NEW id \in Args, Due(e, TextsOf(id))', ~ Due(e, TextsOf(id))
                 PROVE  id \in Ids /\ id = Peer(e)
      OBVIOUS
    <3>1. PICK p \in posted' : p.to = e /\ p.msg \in TextsOf(id)
      BY DeliversOnly, MessageSets
    <3>2. QED
      BY <1>1, <3>1
  <2>5. Signed(e) /\ Peer(e)' = Peer(e)
    BY DEF TalkInv, TalkClient, Peer
  <2>6. Signed(e)'
    BY <2>1, <2>3, <2>4, <2>5 DEF Signed
  <2>7. QED
    BY <2>1, <2>2, <2>6 DEF Untold, Unasked
<1>3. proc' = proc
  BY HandleTakes
<1>4. PICK c \in Ids : TRUE
  BY HandleTakes
<1>5. Steady(proc[c], proc'[c], Peer(c)) /\ OnlyProc(c)
  BY <1>3, TalkFacts DEF Steady, OnlyProc
<1>6. QED
  BY <1>2, <1>5, SteadyStep

LEMMA AllHeld ==
  ASSUME TalkInv
  PROVE  Ids \subseteq Server!Live /\ Ids \subseteq m_dequeConnections
BY DEF TalkInv, TalkClient, NoneEnded, Server!Live, Server!IsConnected

LEMMA PlainHandled ==
  ASSUME SystemInv, SystemInv', TalkInv, Handle,
         \/ Server!OnServerPing \/ Server!OnMessageAll \/ Server!OnClientList \/ Server!OnTextClient
         \/ \E type \in {"TextClient", "RequestAnswer", "CloseClient"} : Server!AtThrows(type)
  PROVE  TalkInv'
<1>0. Ids \subseteq Server!Live /\ Ids \subseteq m_dequeConnections
  BY AllHeld
<1>1. CASE Server!OnServerPing
  <2>1. UNCHANGED ClientConnections /\ Ids \subseteq m_dequeConnections'
    BY <1>0, <1>1 DEF Server!OnServerPing
  <2>2. \A p \in posted' : p.msg.id = "ServerPing"
    BY <1>1 DEF Server!OnServerPing, Server!Pop, Server!msg, Server!To
  <2>3. QED
    BY <2>1, <2>2, PlainTalks DEF Plain
<1>2. CASE Server!OnMessageAll
  <2>1. UNCHANGED ClientConnections /\ Ids \subseteq m_dequeConnections'
    BY <1>0, <1>2 DEF Server!OnMessageAll, Server!MessageAllClient, Server!SweepClosed
  <2>2. \A p \in posted' : p.msg.id = "ServerMessage"
    BY <1>2 DEF Server!OnMessageAll, Server!MessageAllClient, Server!To, Server!Msg
  <2>3. QED
    BY <2>1, <2>2, PlainTalks DEF Plain
<1>3. CASE Server!OnClientList
  <2>1. UNCHANGED ClientConnections /\ Ids \subseteq m_dequeConnections'
    BY <1>0, <1>3 DEF Server!OnClientList, Server!SweepClosed
  <2>2. \A p \in posted' : p.msg.id = "ClientList"
    BY <1>3 DEF Server!OnClientList, Server!To, Server!ListMsg
  <2>3. QED
    BY <2>1, <2>2, PlainTalks DEF Plain
<1>4. ASSUME NEW type, Server!AtThrows(type) PROVE TalkInv'
  <2>1. UNCHANGED ClientConnections /\ Ids \subseteq m_dequeConnections' /\ posted' = {}
    BY <1>0, <1>4 DEF Server!AtThrows
  <2>2. QED
    BY <2>1, PlainTalks
<1>5. CASE Server!OnTextClient
  <2>1. PICK k \in Ids : k = Server!client
    BY HandleTakes
  <2>2. PICK m \in Message : m = Server!msg
    BY HandleTakes
  <2>3. Server!Peer = Peer(k) /\ Peer(k) # 0 /\ m.id = "TextClient"
    BY <1>5, <2>1, <2>2 DEF Server!OnTextClient, Server!PeerPop, Server!Pop, Server!Paired,
                            Server!NoPeer, Server!Peer, Peer, Server!msg
  <2>4. Peer(k) \in Ids /\ Peer(Peer(k)) = k
    BY <2>3, PeerTyped
  <2>5. Server!IsConnected(Server!Peer) /\ m_dequeConnections' = m_dequeConnections
    BY <1>0, <1>5, <2>3, <2>4 DEF Server!Live, Server!OnTextClient, Server!PeerPop
  <2>6. UNCHANGED ClientConnections
        /\ posted' = {Server!To(c, m) : c \in m_dequeConnections \cap {Peer(k)}}
    BY <1>5, <2>2, <2>3, <2>5 DEF Server!OnTextClient
  <2>7. m.arg \in Args
    BY DEF Message
  <2>8. m \in TextsOf(m.arg) /\ TextsOf(m.arg) \in SUBSET Message
    BY <2>3, MessageSets DEF TextsOf
  <2>9. Sent(k, TextsOf(m.arg))
    BY <2>1, <2>2, <2>8, HandleTakes
  <2>10. m.arg = k
    BY <2>7, <2>9 DEF TalkInv, TalkClient, Signed
  <2>11. \A p \in posted' : p.msg = m /\ p.to = Peer(k)
    BY <2>6 DEF Server!To
  <2>12. QED
    BY <1>0, <2>3, <2>4, <2>5, <2>6, <2>10, <2>11, PlainTalks DEF Plain
<1>6. QED
  BY <1>1, <1>2, <1>3, <1>4, <1>5

-----------------------------------------------------------------------------
(* The server refuses a request, pairs two clients, or relays an answer *)

LEMMA RefusedHandled ==
  ASSUME SystemInv, SystemInv', TalkInv, Handle,
         NEW k \in Ids, k = Server!client, Server!msg \in Requests,
         NEW r, posted' = {Server!To(k, r)}, r \in Refusals,
         UNCHANGED <<ClientConnections, m_dequeConnections>>
  PROVE  TalkInv'
<1>1. /\ r \notin Closes /\ r \notin Asks /\ r \notin Answers
      /\ \A id \in Args : r \notin AsksOf(id) /\ r \notin TextsOf(id)
  BY DEF Closes, Asks, Answers, Refusals, Requests, AsksOf, TextsOf
<1>2. \A p \in posted' : p.to = k /\ p.msg = r
  BY DEF Server!To
<1>3. proc' = proc /\ Ids \subseteq m_dequeConnections'
  BY HandleTakes, AllHeld
<1>4. ASSUME NEW e \in Ids
      PROVE  /\ Going(e)' /\ Signed(e)' /\ Untold(e)
             /\ SentLess(e, Requests) /\ \A id \in Known : SentLess(e, RequestsFor(id))
             /\ e # k => DueLess(e, Refusals)
  <2>1. /\ Going(e)' /\ SentLess(e, Answers) /\ SentLess(e, Requests)
        /\ \A id \in Known : SentLess(e, RequestsFor(id))
        /\ \A id \in Args : Sent(e, TextsOf(id))' => id = e
    BY <1>1, <1>2, <1>3, HandleKeeps
  <2>2. DueLess(e, Asks) /\ DueLess(e, Answers) /\ (e # k => DueLess(e, Refusals))
    BY <1>1, <1>2, DeliversOnly, MessageSets
  <2>3. \A id \in Args : Due(e, AsksOf(id))' => Due(e, AsksOf(id))
    BY <1>1, <1>2, DeliversOnly, MessageSets
  <2>4. \A id \in Args : Due(e, TextsOf(id))' => Due(e, TextsOf(id))
    BY <1>1, <1>2, DeliversOnly, MessageSets
  <2>5. Signed(e) /\ Peer(e)' = Peer(e)
    BY DEF TalkInv, TalkClient, Peer
  <2>6. Signed(e)'
    BY <2>1, <2>3, <2>4, <2>5 DEF Signed
  <2>7. QED
    BY <2>1, <2>2, <2>6 DEF Untold
<1>5. Sent(k, Requests) /\ (SentOnce(k, Requests) => ~ Sent(k, Requests)')
  BY HandleTakes, MessageSets
<1>6. ~ Waiting(k)
  BY <1>5 DEF Waiting
<1>7. ASSUME Peer(k) = 0 PROVE Alone(k)'
  <2>1. Alone(k)
    BY <1>7 DEF TalkInv, TalkClient
  <2>2. ~ Sent(k, Requests)' /\ ~ Due(k, Refusals) /\ Asking(proc[k])
    BY <1>5, <2>1 DEF Alone
  <2>3. DueOnce(k, Refusals)'
    BY <2>1, <2>2, DeliversOnly, MessageSets DEF Alone
  <2>4. ~ Due(k, Answers)' /\ ~ Sent(k, Answers)' /\ SentOnce(k, Requests)'
    BY <1>4, <2>1 DEF Alone, Untold, DueLess, SentLess
  <2>5. \A id \in Known : Sent(k, RequestsFor(id))' => id = proc[k].id
    BY <1>4, <2>1 DEF Alone, SentLess
  <2>6. QED
    BY <1>3, <2>1, <2>2, <2>3, <2>4, <2>5 DEF Alone
<1>8. \A e \in Ids \ {k} : proc'[e] = proc[e] /\ Unasked(e)
  BY <1>3, <1>4 DEF Unasked
<1>9. Alive(proc'[k]) /\ Ours(proc'[k], Peer(k)) /\ proc'[k] = proc[k]
  BY <1>3, TalkFacts
<1>10. QED
  BY <1>4, <1>6, <1>7, <1>8, <1>9, LocalStep

\* the clients whose peers a step of the server is not about
LEMMA RestKeep ==
  ASSUME SystemInv, TalkInv, NEW C \in SUBSET Ids, UNCHANGED proc,
         \A e \in Ids \ C : /\ Peer(e)' = Peer(e) /\ Peer(e) \notin C
                            /\ Going(e)' /\ Signed(e)' /\ Untold(e) /\ Unasked(e),
         NEW e \in Ids \ C
  PROVE  TalkClient(e)'
<1>0. \A f \in Ids : TalkClient(f)
  BY DEF TalkInv
<1>1. \A f \in Ids \ C : AnswerDue(f)' => AnswerDue(f)
  BY PeerTyped DEF AnswerDue, Untold, DueLess
<1>2. \A f \in Ids \ C : Owes(f)' => Owes(f)
  BY <1>1 DEF Owes, Untold, DueLess, SentLess
<1>3. ASSUME NEW f \in Ids \ C, Waiting(f) PROVE Waiting(f)'
  <2>1. ~ Due(f, Refusals)' /\ ~ Sent(f, Requests)' /\ ~ Owes(f)'
    BY <1>2, <1>3 DEF Waiting, Unasked, DueLess, SentLess
  <2>2. QED
    BY <1>3, <2>1 DEF Waiting
<1>4. OneAnswer(e)'
  BY <1>0, <1>1 DEF TalkClient, OneAnswer, Untold, DueLess, SentLess
<1>5. NoneEnded(e)' /\ Ours(proc'[e], Peer(e))
  BY <1>0 DEF TalkClient, NoneEnded, Going
<1>6. Peer(e) = 0 => Alone(e)'
  BY <1>0 DEF TalkClient, Alone, Untold, Unasked, DueLess, SentLess
<1>7. Peer(e) = 0 \/ Due(e, Asks)' => Untouched(proc'[e])
  BY <1>0 DEF TalkClient, Untold, DueLess
<1>8. Peer(e)' # 0 /\ Owes(e)' => Waiting(Peer(e))'
  <2> SUFFICES ASSUME Peer(e) # 0, Owes(e)' PROVE Waiting(Peer(e))'
    OBVIOUS
  <2>1. Peer(e) \in Ids \ C /\ Waiting(Peer(e))
    BY <1>0, <1>2, PeerTyped DEF TalkClient
  <2>2. \A f \in Ids : f = Peer(e) => Waiting(f)'
    BY <1>3, <2>1
  <2>3. QED
    BY <2>1, <2>2
<1>9. QED
  BY <1>4, <1>5, <1>6, <1>7, <1>8 DEF TalkClient

(* The answer of k arrives at its peer b, which waits for it. *)
LEMMA AnswerHandled ==
  ASSUME SystemInv, SystemInv', TalkInv, Handle, Server!OnRequestAnswer
  PROVE  TalkInv'
<1>1. PICK k \in Ids : k = Server!client
  BY HandleTakes
<1>2. PICK m \in Message : m = Server!msg
  BY HandleTakes
<1>3. Server!Peer = Peer(k) /\ Peer(k) # 0 /\ m \in Answers
  BY <1>1, <1>2 DEF Server!OnRequestAnswer, Server!PeerPop, Server!Pop, Server!Paired,
                    Server!NoPeer, Server!Peer, Peer, Server!msg, Answers
<1>4. PICK b \in Ids \ {k} : b = Peer(k) /\ Peer(b) = k
  BY <1>3, PeerTyped
<1>5. UNCHANGED <<ClientConnections, m_dequeConnections>>
      /\ posted' = {Server!To(c, m) : c \in m_dequeConnections \cap {b}}
  BY <1>2, <1>3, <1>4 DEF Server!OnRequestAnswer, Server!PeerPop
<1>6. \A p \in posted' : p.to = b /\ p.msg = m
  BY <1>5 DEF Server!To
<1>7. m \notin Closes /\ m \notin Asks /\ m \notin Refusals
      /\ \A id \in Args : m \notin AsksOf(id) /\ m \notin TextsOf(id)
  BY <1>3 DEF Closes, Asks, Answers, Refusals, Requests, AsksOf, TextsOf
<1>8. proc' = proc /\ Ids \subseteq m_dequeConnections' /\ 0 \notin Ids
      /\ \A e \in Ids : Peer(e)' = Peer(e)
  BY <1>4, <1>5, HandleTakes, AllHeld, PeerTyped DEF Peer
<1>9. ASSUME NEW e \in Ids
      PROVE  /\ Going(e)' /\ Signed(e)' /\ DueLess(e, Asks) /\ SentLess(e, Answers) /\ Unasked(e)
             /\ e # b => Untold(e)
  <2>1. /\ Going(e)' /\ SentLess(e, Answers) /\ SentLess(e, Requests)
        /\ \A id \in Known : SentLess(e, RequestsFor(id))
        /\ \A id \in Args : Sent(e, TextsOf(id))' => id = e
    BY <1>6, <1>7, <1>8, HandleKeeps
  <2>2. DueLess(e, Asks) /\ DueLess(e, Refusals) /\ (e # b => DueLess(e, Answers))
    BY <1>6, <1>7, DeliversOnly, MessageSets
  <2>3. \A id \in Args : Due(e, AsksOf(id))' => Due(e, AsksOf(id))
    BY <1>6, <1>7, DeliversOnly, MessageSets
  <2>4. \A id \in Args : Due(e, TextsOf(id))' => Due(e, TextsOf(id))
    BY <1>6, <1>7, DeliversOnly, MessageSets
  <2>5. Signed(e)'
    BY <1>8, <2>1, <2>3, <2>4 DEF Signed, TalkInv, TalkClient
  <2>6. QED
    BY <2>1, <2>2, <2>5 DEF Untold, Unasked
<1>10. TalkClient(k) /\ TalkClient(b)
  BY DEF TalkInv
<1>11. Sent(k, Answers) /\ (SentOnce(k, Answers) => ~ Sent(k, Answers)')
  BY <1>1, <1>2, <1>3, HandleTakes, MessageSets
<1>12. /\ ~ AnswerDue(k) /\ ~ Due(k, Asks) /\ ~ Holds(proc[k]) /\ ~ Sent(k, Answers)'
  BY <1>10, <1>11 DEF TalkClient, OneAnswer
<1>13. Waiting(b) /\ ~ Owes(b) /\ proc[b].id = k
  <2>1. Waiting(Peer(k))
    BY <1>3, <1>10, <1>11 DEF TalkClient, Owes
  <2>2. QED
    BY <1>4, <2>1 DEF Waiting
<1>14. ~ Owes(b)'
  <2>1. ~ Due(k, Answers)
    BY <1>4, <1>8, <1>13 DEF Owes, AnswerDue
  <2>2. ~ AnswerDue(b)'
    BY <1>4, <1>8, <1>9, <2>1 DEF AnswerDue, Untold, DueLess
  <2>3. QED
    BY <1>8, <1>9, <1>13, <2>2 DEF Owes, DueLess, SentLess
<1>15. Waiting(b)'
  <2>1. ~ Due(b, Refusals)' /\ ~ Sent(b, Requests)'
    BY <1>9, <1>13 DEF Waiting, Unasked, DueLess, SentLess
  <2>2. QED
    BY <1>4, <1>8, <1>13, <1>14, <2>1 DEF Waiting
<1>16. TalkClient(k)'
  <2>1. ~ Due(k, Asks)' /\ ~ Holds(proc'[k]) /\ ~ Sent(k, Answers)'
    BY <1>8, <1>9, <1>12 DEF DueLess
  <2>2. OneAnswer(k)'
    BY <1>9, <1>10, <2>1 DEF TalkClient, OneAnswer, Untold, DueLess, SentLess
  <2>3. NoneEnded(k)' /\ Ours(proc'[k], Peer(k))
    BY <1>8, <1>9, <1>10 DEF TalkClient, NoneEnded, Going
  <2>4. Waiting(Peer(k))'
    <3>1. \A f \in Ids : f = Peer(k) => Waiting(f)'
      BY <1>4, <1>15
    <3>2. QED
      BY <1>4, <1>8, <3>1
  <2>5. QED
    BY <1>3, <1>8, <1>9, <2>1, <2>2, <2>3, <2>4 DEF TalkClient
<1>17. TalkClient(b)'
  <2>1. ~ Due(b, Asks)' /\ ~ Holds(proc'[b]) /\ ~ Sent(b, Answers)' /\ ~ AnswerDue(b)'
    BY <1>14 DEF Owes
  <2>2. ~ Due(b, Answers)
    BY <1>3, <1>4, <1>12 DEF AnswerDue
  <2>3. OneAnswer(b)
    BY <1>10 DEF TalkClient
  <2>4. DueOnce(b, Answers)'
    BY <2>2, <2>3, DeliversOnly, MessageSets DEF OneAnswer
  <2>5. OneAnswer(b)'
    BY <1>9, <2>1, <2>3, <2>4 DEF OneAnswer, DueLess, SentLess
  <2>6. NoneEnded(b)' /\ Ours(proc'[b], Peer(b))
    BY <1>8, <1>9, <1>10 DEF TalkClient, NoneEnded, Going
  <2>7. QED
    BY <1>4, <1>8, <1>9, <1>14, <2>1, <2>5, <2>6 DEF TalkClient
<1>18. ASSUME NEW e \in Ids \ {k, b} PROVE TalkClient(e)'
  <2> DEFINE C == {k, b}
  <2>1. \A f \in Ids \ C : Peer(f) \notin C
    BY <1>4, <1>8, PeerTyped
  <2>2. \A f \in Ids \ C : Peer(f)' = Peer(f) /\ Going(f)' /\ Signed(f)' /\ Untold(f) /\ Unasked(f)
    BY <1>8, <1>9
  <2>3. C \in SUBSET Ids /\ e \in Ids \ C
    OBVIOUS
  <2> HIDE DEF C
  <2>4. QED
    BY <1>8, <2>1, <2>2, <2>3, RestKeep
<1>19. QED
  BY <1>16, <1>17, <1>18 DEF TalkInv

(* The request of k pairs it with b: k waits from now on, b is told.       *)
LEMMA PairedHandled ==
  ASSUME SystemInv, SystemInv', TalkInv, Handle,
         NEW k \in Ids, k = Server!client, NEW b \in Ids \ {k}, Peer(k) = 0, Peer(b) = 0,
         Server!msg \in RequestsFor(b),
         NEW m, m \in AsksOf(k), posted' = {Server!To(b, m)},
         ClientConnections' = [ClientConnections EXCEPT ![k] = b, ![b] = k],
         UNCHANGED m_dequeConnections
  PROVE  TalkInv'
<1>1. /\ m \in Asks /\ m \notin Closes /\ m \notin Answers /\ m \notin Refusals
      /\ \A id \in Args : m \notin TextsOf(id) /\ (m \in AsksOf(id) => id = k)
  BY DEF Closes, Asks, Answers, Refusals, Requests, AsksOf, TextsOf
<1>2. \A p \in posted' : p.to = b /\ p.msg = m
  BY DEF Server!To
<1>3. proc' = proc /\ Ids \subseteq m_dequeConnections' /\ 0 \notin Ids
  BY HandleTakes, AllHeld, PeerTyped
<1>4. /\ Peer(k)' = b /\ Peer(b)' = k /\ \A e \in Ids \ {k, b} : Peer(e)' = Peer(e)
  BY OnItsWay DEF Peer
<1>5. ASSUME NEW e \in Ids
      PROVE  /\ Going(e)' /\ Unasked(e) /\ DueLess(e, Answers) /\ SentLess(e, Answers)
             /\ \A id \in Args : Sent(e, TextsOf(id))' => id = e
             /\ \A id \in Args : Due(e, TextsOf(id))' => Due(e, TextsOf(id))
             /\ e # b => DueLess(e, Asks) /\ \A id \in Args : Due(e, AsksOf(id))' => Due(e, AsksOf(id))
  <2>1. /\ Going(e)' /\ SentLess(e, Answers) /\ SentLess(e, Requests)
        /\ \A id \in Known : SentLess(e, RequestsFor(id))
        /\ \A id \in Args : Sent(e, TextsOf(id))' => id = e
    BY <1>1, <1>2, <1>3, HandleKeeps
  <2>2. DueLess(e, Refusals) /\ DueLess(e, Answers) /\ (e # b => DueLess(e, Asks))
    BY <1>1, <1>2, DeliversOnly, MessageSets
  <2>3. e # b => \A id \in Args : Due(e, AsksOf(id))' => Due(e, AsksOf(id))
    BY <1>2, DeliversOnly, MessageSets
  <2>4. \A id \in Args : Due(e, TextsOf(id))' => Due(e, TextsOf(id))
    BY <1>1, <1>2, DeliversOnly, MessageSets
  <2>5. QED
    BY <2>1, <2>2, <2>3, <2>4 DEF Unasked
<1>6. /\ TalkClient(k) /\ Alone(k) /\ Untouched(proc[k])
      /\ TalkClient(b) /\ Alone(b) /\ Untouched(proc[b])
  BY DEF TalkInv, TalkClient
<1>7. ASSUME NEW e \in {k, b}
      PROVE  /\ ~ Due(e, Asks) /\ \A id \in Args : ~ Due(e, AsksOf(id)) /\ ~ Due(e, TextsOf(id))
  <2>1. Signed(e) /\ Peer(e) = 0 /\ e \in Ids
    BY <1>6 DEF TalkClient
  <2>2. \A id \in Args : Due(e, AsksOf(id)) => id = 0
    BY <2>1 DEF Signed
  <2>3. AsksOf(0) = {}
    BY DEF AsksOf, Asks, NotFound
  <2>4. \A id \in Args : ~ Due(e, AsksOf(id))
    BY <2>2, <2>3 DEF Due, Has
  <2>5. ASSUME NEW i \in DOMAIN toClient[e], toClient[e][i] \in Asks PROVE FALSE
    <3>1. toClient[e][i].arg \in Args /\ toClient[e][i] \in AsksOf(toClient[e][i].arg)
      BY <2>5 DEF Asks, Requests, AsksOf, Message
    <3>2. QED
      BY <2>4, <2>5, <3>1 DEF Due, Has
  <2>6. ~ Due(e, Asks)
    BY <2>5 DEF Due, Has
  <2>7. \A id \in Args : ~ Due(e, TextsOf(id))
    BY <1>3, <2>1 DEF Signed
  <2>8. QED
    BY <2>4, <2>6, <2>7
<1>8. /\ ~ Holds(proc[k]) /\ ~ Holds(proc[b])
      /\ proc[k].ConnectedToId = 0 /\ Ours(proc[k], b) /\ Ours(proc[b], k)
  BY <1>6 DEF TalkClient, Alone, Untouched, Holds, Ours, Accepting, Pending, Waits, InChat
<1>9. Server!msg \in Requests /\ b \in Known
  BY DEF RequestsFor, Known
<1>10. /\ Sent(k, Requests) /\ (SentOnce(k, Requests) => ~ Sent(k, Requests)')
       /\ Sent(k, RequestsFor(b))
  BY <1>9, HandleTakes, MessageSets
<1>11. /\ ~ Sent(k, Requests)' /\ ~ Due(k, Refusals) /\ Asking(proc[k]) /\ proc[k].id = b
       /\ proc[k].executor = "idle"
  BY <1>6, <1>9, <1>10 DEF Alone
<1>12. \A e \in {k, b} : ~ Due(e, Answers)' /\ ~ Sent(e, Answers)'
  BY <1>5, <1>6 DEF Alone, DueLess, SentLess
<1>13. ~ AnswerDue(k)' /\ ~ AnswerDue(b)'
  BY <1>4, <1>12 DEF AnswerDue
<1>14. ~ Due(k, Asks)'
  BY <1>5, <1>7 DEF DueLess
<1>15. ~ Owes(k)'
  BY <1>3, <1>8, <1>12, <1>13, <1>14 DEF Owes
<1>16. Waiting(k)'
  <2>1. ~ Due(k, Refusals)'
    BY <1>5, <1>11 DEF Unasked, DueLess
  <2>2. QED
    BY <1>3, <1>4, <1>8, <1>11, <1>15, <2>1 DEF Waiting
<1>17. ASSUME NEW e \in {k, b}
       PROVE  NoneEnded(e)' /\ Signed(e)' /\ OneAnswer(e)' /\ Ours(proc[e], Peer(e)')
  <2>1. NoneEnded(e)'
    BY <1>3, <1>5, <1>6 DEF TalkClient, NoneEnded, Going
  <2>2. \A id \in Args : ~ Due(e, TextsOf(id))'
    BY <1>5, <1>7
  <2>3. \A id \in Args : Due(e, AsksOf(id))' => id = Peer(e)'
    <3>1. CASE e = k
      BY <1>5, <1>7, <3>1
    <3>2. CASE e = b
      <4>1. ASSUME NEW id \in Args, Due(b, AsksOf(id))' PROVE id = k
        <5>1. \E p \in posted' : p.to = b /\ p.msg \in AsksOf(id)
          BY <1>7, <4>1, DeliversOnly, MessageSets
        <5>2. QED
          BY <1>1, <1>2, <5>1
      <4>2. QED
        BY <1>4, <3>2, <4>1
    <3>3. QED
      BY <3>1, <3>2
  <2>4. Signed(e)'
    BY <1>5, <2>2, <2>3 DEF Signed
  <2>5. OneAnswer(e)
    BY <1>6 DEF TalkClient
  <2>6. DueOnce(e, Asks)'
    BY <1>7, <2>5, DeliversOnly, MessageSets DEF OneAnswer
  <2>7. OneAnswer(e)'
    BY <1>3, <1>5, <1>8, <1>12, <1>13, <2>5, <2>6 DEF OneAnswer, DueLess, SentLess
  <2>8. Ours(proc[e], Peer(e)')
    BY <1>4, <1>8
  <2>9. QED
    BY <2>1, <2>4, <2>7, <2>8
<1>18. TalkClient(k)'
  BY <1>3, <1>4, <1>6, <1>15, <1>17 DEF TalkClient
<1>19. TalkClient(b)'
  <2>1. Waiting(Peer(b))'
    BY <1>4, <1>16 DEF Waiting, Owes, AnswerDue
  <2>2. QED
    BY <1>3, <1>4, <1>6, <1>17, <2>1 DEF TalkClient
<1>20. ASSUME NEW e \in Ids \ {k, b} PROVE TalkClient(e)'
  <2> DEFINE C == {k, b}
  <2>1. \A f \in Ids \ C : Peer(f) \notin C
    BY <1>3, PeerTyped
  <2>2. ASSUME NEW f \in Ids \ C
        PROVE  Peer(f)' = Peer(f) /\ Going(f)' /\ Signed(f)' /\ Untold(f) /\ Unasked(f)
    <3>1. Signed(f) /\ Peer(f)' = Peer(f)
      BY <1>4 DEF TalkInv, TalkClient
    <3>2. Signed(f)'
      BY <1>5, <3>1 DEF Signed
    <3>3. QED
      BY <1>5, <3>1, <3>2 DEF Untold
  <2>3. C \in SUBSET Ids /\ e \in Ids \ C
    OBVIOUS
  <2> HIDE DEF C
  <2>4. QED
    BY <1>3, <2>1, <2>2, <2>3, RestKeep
<1>21. QED
  BY <1>18, <1>19, <1>20 DEF TalkInv

LEMMA RequestHandled ==
  ASSUME SystemInv, SystemInv', TalkInv, Handle, Server!OnRequestToClient
  PROVE  TalkInv'
<1>1. PICK k \in Ids : k = Server!client
  BY HandleTakes
<1>2. PICK m \in Message : m = Server!msg
  BY HandleTakes
<1>3. m \in Requests /\ m \in RequestsFor(m.arg) /\ UNCHANGED m_dequeConnections
  BY <1>2 DEF Server!OnRequestToClient, Server!Pop, Server!msg, Requests, RequestsFor
<1>4. ASSUME NEW a \in {NotFound, Busy}, posted' = {Server!To(k, Server!Msg("RequestToClient", a))},
             UNCHANGED ClientConnections
      PROVE  TalkInv'
  <2> DEFINE r == Server!Msg("RequestToClient", a)
  <2>1. r \in Refusals
    BY DEF Server!Msg, Refusals, Requests, Message, Args, MsgTypes, NotFound, Busy
  <2> HIDE DEF r
  <2>2. posted' = {Server!To(k, r)}
    BY <1>4 DEF r
  <2>3. QED
    BY <1>1, <1>2, <1>3, <1>4, <2>1, <2>2, RefusedHandled
<1>5. ASSUME m.arg \in m_dequeConnections, Server!CanConnect(k, m.arg),
             Server!ConnectClients(k, m.arg),
             posted' = {Server!To(m.arg, Server!Msg("RequestToClient", k))}
      PROVE  TalkInv'
  <2> DEFINE r == Server!Msg("RequestToClient", k)
  <2>1. r \in AsksOf(k)
    <3>1. k \in Args /\ k # NotFound /\ k # Busy
      BY IdAssumption DEF Args, Ids, FirstId, NotFound, Busy
    <3>2. QED
      BY <3>1 DEF Server!Msg, AsksOf, Asks, Requests, Message, MsgTypes
  <2>2. m.arg \in Ids
    BY <1>5, SameServerMessages DEF SystemInv, ServerProofs!IInv, ServerProofs!TypeOK
  <2>3. PICK b \in Ids : b = m.arg
    BY <2>2
  <2>4. b # k /\ Peer(k) = 0 /\ Peer(b) = 0
        /\ ClientConnections' = [ClientConnections EXCEPT ![k] = b, ![b] = k]
    BY <1>5, <2>3 DEF Server!CanConnect, Server!ConnectClients, Server!Paired, Server!NoPeer, Peer
  <2> HIDE DEF r
  <2>5. posted' = {Server!To(b, r)} /\ Server!msg \in RequestsFor(b)
    BY <1>2, <1>3, <1>5, <2>3 DEF r
  <2>6. QED
    BY <1>1, <1>3, <2>1, <2>4, <2>5, PairedHandled
<1>6. QED
  BY <1>1, <1>2, <1>4, <1>5
     DEF Server!OnRequestToClient, Server!NotFound, NotFound, Server!Busy, Busy

LEMMA CloseNeverHandled ==
  ASSUME SystemInv, TalkInv, Handle
  PROVE  ~ Server!OnCloseClient
<1> SUFFICES ASSUME Server!OnCloseClient PROVE FALSE
  OBVIOUS
<1>1. Server!client \in Ids /\ Server!msg \in Closes
  BY HandleTakes DEF Server!OnCloseClient, Server!PeerPop, Server!Pop, Server!msg, Closes
<1>2. Sent(Server!client, Closes)
  BY <1>1, HandleTakes, MessageSets
<1>3. QED
  BY <1>1, <1>2 DEF TalkInv, TalkClient, NoneEnded

LEMMA HandleTalks ==
  ASSUME SystemInv, SystemInv', TalkInv, Handle
  PROVE  TalkInv'
<1>1. Server!OnMessage
  BY DEF Handle
<1>2. QED
  BY <1>1, PlainHandled, RequestHandled, AnswerHandled, CloseNeverHandled DEF Server!OnMessage

LEMMA TalkStep == NobodyEnds /\ SystemInv /\ TalkInv /\ [Next]_vars => TalkInv'
<1> SUFFICES ASSUME NobodyEnds, SystemInv, TalkInv, [Next]_vars PROVE TalkInv'
  OBVIOUS
<1>1. SystemInv'
  BY SystemStep
<1>2. CASE Handle
  BY <1>1, <1>2, HandleTalks
<1>3. ASSUME NEW c \in Ids, Does(Client!ClientStep(c)) PROVE TalkInv'
  BY <1>3, ClientTalks DEF Does
<1>4. ASSUME NEW c \in Ids, Arrive(c) PROVE TalkInv'
  BY <1>4, ArriveTalks
<1>5. ASSUME NEW c \in Ids, Disconnect(c) PROVE FALSE
  BY <1>5, TalkFacts DEF Disconnect, Alive
<1>6. CASE UNCHANGED vars
  <2>1. ASSUME NEW c \in Ids PROVE TalkInv'
    <3>1. UNCHANGED serverVars /\ Client!Silent /\ proc' = proc /\ UNCHANGED ClientConnections
      BY <1>6 DEF vars, serverVars, clientVars, Client!Silent
    <3>2. Steady(proc[c], proc'[c], Peer(c)) /\ OnlyProc(c)
      BY <3>1, TalkFacts DEF Steady, OnlyProc
    <3>3. QED
      BY <3>1, <3>2, SilentKeeps, SteadyStep
  <2>2. QED
    BY <2>1 DEF TalkInv
<1>7. QED
  BY <1>2, <1>3, <1>4, <1>5, <1>6 DEF Next

LEMMA InitTalks == Init => TalkInv
<1> SUFFICES ASSUME Init, NEW c \in Ids PROVE TalkClient(c)
  BY DEF TalkInv
<1>1. /\ proc[c] = Client!InitProc /\ toServer[c] = <<>> /\ toClient[c] = <<>>
      /\ m_qMessagesIn = <<>> /\ link[c] = "ready" /\ c \in m_dequeConnections /\ Peer(c) = 0
  BY SameIds DEF Init, Client!Init, Server!NoPeer, Peer
<1>2. \A S : ~ Has(<<>>, S) /\ Once(<<>>, S)
  BY DEF Has, Once
<1>3. \A S : ~ Due(c, S) /\ DueOnce(c, S) /\ ~ Sent(c, S) /\ SentOnce(c, S)
  BY <1>1, <1>2 DEF Due, DueOnce, Sent, SentOnce
<1>4. /\ proc[c].ui = "prompt" /\ proc[c].watcher = "none" /\ proc[c].executor = "idle"
      /\ proc[c].ConnectedToId = 0 /\ proc[c].ConnectionRequestId = 0
      /\ proc[c].connecting = 0
  BY <1>1 DEF Client!InitProc
<1>5. NoneEnded(c) /\ Signed(c) /\ OneAnswer(c) /\ Alone(c)
  BY <1>1, <1>3, <1>4
     DEF NoneEnded, Signed, OneAnswer, Alone, Alive, Holds
<1>6. Ours(proc[c], Peer(c)) /\ Untouched(proc[c])
  BY <1>4 DEF Ours, Untouched, InChat, ChatOf, Accepting
<1>7. QED
  BY <1>1, <1>3, <1>5, <1>6 DEF TalkClient

(* Only CheckChat opens the chat after checkChat, and it tests ConnectedToId. *)
LEMMA LeavesCheck ==
  ASSUME SystemInv, [Next]_vars, NEW c \in Ids, proc[c].ui = "checkChat", proc'[c].ui = "chat"
  PROVE  proc[c].ConnectedToId # 0
<1>0. DOMAIN proc = Ids /\ \A e \in Ids : DOMAIN proc[e] = Fields
  BY ProcShape
<1>1. PICK e \in Ids : Client!ClientStep(e)
  BY DEF Next, Does, Handle, Arrive, Disconnect, vars, clientVars
<1> USE DEF Fields, Client!At, Client!Go, Client!Notified
<1>2. CASE Client!UiStep(e)
  <2>1. CASE Client!CheckChat(e)
    BY <1>0, <2>1 DEF Client!CheckChat, Client!IsClientId, Client!FirstId
  <2>2. CASE ~ Client!CheckChat(e)
    <3>1. proc[e].ui # "checkChat" /\ \A f \in Ids \ {e} : proc'[f] = proc[f]
      BY <1>0, <1>2, <2>2
         DEF Client!UiStep, Client!SetRequest, Client!LockAndWatch, Client!TestRequest,
             Client!Relock, Client!Join, Client!AcceptReads, Client!AcceptConnects,
             Client!SendToClient, Client!CloseChat, Client!ClearConnected, Client!ResetRequest
    <3>2. QED
      BY <3>1
  <2>3. QED
    BY <2>1, <2>2
<1>3. CASE Client!WatcherStep(e) \/ Client!EnterStep(e) \/ Client!SpuriousWakeup(e)
  BY <1>0, <1>3
     DEF Client!WatcherStep, Client!EnterStep, Client!SpuriousWakeup, Client!WatchAgain,
         Client!WatchEnds, Client!WatchClear, Client!WatchReset, Client!WatchNotify,
         Client!WatchEnter, Client!LeaveChat
<1>4. CASE Client!ExecutorStep(e)
  BY <1>0, <1>4
     DEF Client!ExecutorStep, Client!Shown, Client!Refused, Client!Requested, Client!Answered,
         Client!Accepted, Client!AcceptedNotifies, Client!Declined, Client!Closed,
         Client!ClosedResets, Client!RequestOver
<1>5. CASE Client!UserStep(e)
  <2>1. ASSUME NEW id, Client!ConnectTo(e, id) PROVE FALSE
    BY <1>0, <2>1 DEF Client!ConnectTo
  <2>2. CASE Client!Accept(e) \/ Client!Decline(e) \/ Client!Ask(e)
    BY <1>0, <2>2 DEF Client!Accept, Client!Decline, Client!Ask, Client!Typed
  <2>3. ASSUME NEW command, NEW pc, pc # "chat", Client!ChatLine(e, command, pc) PROVE FALSE
    BY <1>0, <2>3 DEF Client!ChatLine
  <2>4. CASE Client!WatchClose(e)
    BY <1>0, <2>4 DEF Client!WatchClose
  <2>5. CASE Client!Leave(e)
    BY <1>0, <2>5 DEF Client!Leave, Client!InitProc
  <2>6. QED
    BY <1>5, <2>1, <2>2, <2>3, <2>4, <2>5 DEF Client!UserStep
<1>6. QED
  BY <1>1, <1>2, <1>3, <1>4, <1>5 DEF Client!ClientStep

LEMMA TalkInvariance ==
  ASSUME NobodyEnds
  PROVE  Spec => [](SystemInv /\ TalkInv)
<1>1. Init => SystemInv /\ TalkInv
  BY InitSystem, InitTalks
<1>2. SystemInv /\ TalkInv /\ [Next]_vars => (SystemInv /\ TalkInv)'
  BY SystemStep, TalkStep
<1>3. QED
  BY <1>1, <1>2, PTL DEF Spec

(* Only the executor takes a message from its queue. *)
LEMMA TextTaken ==
  ASSUME SystemInv, TalkInv, NEW c \in Ids, Pops(c, "TextClient")
  PROVE  proc[c].ConnectedToId \in {0, Head(toClient[c]).arg}
<1> DEFINE m == Head(toClient[c])
           T == Message
<1>1. toClient[c] \in Seq(T) /\ toClient[c] # <<>> /\ m.id = "TextClient"
  BY OnItsWay DEF Pops
<1>2. m \in T
  <2> HIDE DEF T
  <2>1. QED
    BY <1>1
<1>3. m \in TextsOf(m.arg) /\ m.arg \in Args
  BY <1>1, <1>2 DEF TextsOf, Message
<1>4. Due(c, TextsOf(m.arg))
  <2> HIDE DEF m, T
  <2>1. Head(toClient[c]) \in TextsOf(m.arg)
    BY <1>3 DEF m
  <2>2. QED
    BY <1>1, <2>1, HasTail DEF Due
<1>5. Signed(c) /\ Ours(proc[c], Peer(c))
  BY DEF TalkInv, TalkClient
<1> HIDE DEF m, T
<1>6. m.arg = Peer(c)
  BY <1>3, <1>4, <1>5 DEF Signed
<1>7. QED
  BY <1>5, <1>6 DEF Ours, m

(* Client.cpp:148 A text carries no sender and is shown as said by         *)
(* ConnectedToId, which the ui, the executor and the watcher write.  For   *)
(* any number of clients and of commands, while users end nothing, it      *)
(* names the sender of the text, or nobody: never another client.          *)
THEOREM TextsAreAttributed ==
  ASSUME NobodyEnds
  PROVE  Spec => TextAttribution
<1>1. SystemInv /\ TalkInv /\ [Next]_vars =>
        [\A c \in Ids : Pops(c, "TextClient")
           => proc[c].ConnectedToId \in {0, Head(toClient[c]).arg}]_vars
  BY TextTaken
<1>2. QED
  BY <1>1, TalkInvariance, PTL DEF Spec, TextAttribution

(* Client.cpp:236 For any number of clients and of commands, while users   *)
(* end nothing, the chat that a ConnectTo opens is with the client it      *)
(* asked: no request received while it waited has taken its place.         *)
THEOREM ChatIsWithAsked ==
  ASSUME NobodyEnds
  PROVE  Spec => ChatWithAsked
<1>1. ASSUME SystemInv, TalkInv, [Next]_vars, NEW c \in Ids,
             proc[c].ui = "checkChat", proc'[c].ui = "chat"
      PROVE  proc[c].ConnectedToId = proc[c].id
  <2>1. Ours(proc[c], Peer(c))
    BY <1>1, TalkFacts
  <2>2. proc[c].ConnectedToId # 0
    BY <1>1, LeavesCheck
  <2>3. QED
    BY <1>1, <2>1, <2>2 DEF Ours, InChat
<1>2. SystemInv /\ TalkInv /\ [Next]_vars =>
        [\A c \in Ids : proc[c].ui = "checkChat" /\ proc'[c].ui = "chat"
           => proc[c].ConnectedToId = proc[c].id]_vars
  BY <1>1
<1>3. QED
  BY <1>2, TalkInvariance, PTL DEF Spec, ChatWithAsked

-----------------------------------------------------------------------------
(* While nobody ends anything, the server always finds the sender's peer *)

\* a text is sent only in a chat, and a chat has a pair
TextsPaired == \A c \in Ids : Peer(c) = 0 => \A id \in Args : ~ Sent(c, TextsOf(id))

LEMMA PairLasts ==
  ASSUME SystemInv, TalkInv, Handle, NEW e \in Ids, Peer(e) # 0
  PROVE  Peer(e)' = Peer(e)
<1>1. CASE UNCHANGED ClientConnections
  BY <1>1 DEF Peer
<1>2. CASE Server!OnRequestToClient
  <2>1. PICK k \in Ids : k = Server!client
    BY HandleTakes
  <2>2. PICK b : b = Server!msg.arg
    OBVIOUS
  <2>3. \/ UNCHANGED ClientConnections
        \/ Server!CanConnect(k, b) /\ Server!ConnectClients(k, b)
    BY <1>2, <2>1, <2>2 DEF Server!OnRequestToClient
  <2>4. ASSUME Server!CanConnect(k, b), Server!ConnectClients(k, b)
        PROVE  Peer(e)' = Peer(e)
    <3>1. e # k /\ e # b
      BY <2>4 DEF Server!CanConnect, Server!Paired, Server!NoPeer, Peer
    <3>2. ClientConnections' = [ClientConnections EXCEPT ![k] = b, ![b] = k]
      BY <2>4 DEF Server!ConnectClients
    <3>3. QED
      BY <3>1, <3>2, OnItsWay DEF Peer
  <2>5. QED
    BY <1>1, <2>3, <2>4
<1>3. CASE Server!OnTextClient
  <2>1. PICK k \in Ids : k = Server!client
    BY HandleTakes
  <2>2. Server!Peer = Peer(k) /\ Peer(k) \in Ids
    BY <1>3, <2>1, PeerTyped DEF Server!OnTextClient, Server!PeerPop, Server!Paired,
                                 Server!NoPeer, Server!Peer, Peer
  <2>3. Server!IsConnected(Server!Peer)
    BY <2>2, AllHeld DEF Server!Live
  <2>4. QED
    BY <1>1, <1>3, <2>3 DEF Server!OnTextClient
<1>4. QED
  BY <1>1, <1>2, <1>3, CloseNeverHandled
     DEF Handle, Server!OnMessage, Server!OnServerPing, Server!OnMessageAll, Server!OnClientList,
         Server!OnRequestAnswer, Server!AtThrows

\* the messages of a client's step
LEMMA ClientSends ==
  ASSUME NEW c \in Ids, Client!ClientStep(c)
  PROVE  \/ toServer' = toServer \/ Client!SendToClient(c)
         \/ \E m \in ClientMessage : m.id # "TextClient" /\ Client!Send(c, m)
<1> USE DEF Client!Silent, Client!Go, Client!Pops
<1>1. CASE Client!UiStep(c)
  <2>1. CASE Client!CloseChat(c)
    BY <2>1, MessagesTyped DEF Client!CloseChat, Client!Msg
  <2>2. CASE ~ Client!CloseChat(c)
    BY <1>1, <2>2
       DEF Client!UiStep, Client!SetRequest, Client!LockAndWatch, Client!TestRequest,
           Client!Relock, Client!CheckChat, Client!Join, Client!AcceptReads, Client!AcceptConnects,
           Client!ClearConnected, Client!ResetRequest
  <2>3. QED
    BY <2>1, <2>2
<1>2. CASE Client!WatcherStep(c) \/ Client!EnterStep(c) \/ Client!SpuriousWakeup(c)
  BY <1>2 DEF Client!WatcherStep, Client!EnterStep, Client!SpuriousWakeup, Client!WatchAgain,
              Client!WatchEnds, Client!WatchClear, Client!WatchReset, Client!WatchNotify,
              Client!WatchEnter, Client!LeaveChat
<1>3. CASE Client!ExecutorStep(c)
  BY <1>3 DEF Client!ExecutorStep, Client!Shown, Client!Refused, Client!Requested, Client!Answered,
              Client!Accepted, Client!AcceptedNotifies, Client!Declined, Client!Closed,
              Client!ClosedResets
<1>4. CASE Client!UserStep(c)
  <2>1. ASSUME NEW id \in Ids \cup OtherIds, Client!ConnectTo(c, id)
        PROVE  \E m \in ClientMessage : m.id # "TextClient" /\ Client!Send(c, m)
    BY <2>1, MessagesTyped DEF Client!ConnectTo, Client!Msg
  <2>2. CASE Client!Accept(c)
    BY <2>2, MessagesTyped DEF Client!Accept, Client!Msg
  <2>3. CASE Client!Decline(c)
    BY <2>3, MessagesTyped DEF Client!Decline, Client!Msg
  <2>4. CASE Client!Ask(c)
    BY <2>4, MessagesTyped DEF Client!Ask, Client!Msg
  <2>5. CASE Client!WatchClose(c)
    BY <2>5, MessagesTyped DEF Client!WatchClose, Client!Msg
  <2>6. ASSUME NEW command, NEW pc, Client!ChatLine(c, command, pc) PROVE toServer' = toServer
    BY <2>6 DEF Client!ChatLine
  <2>7. CASE Client!Leave(c)
    BY <2>7 DEF Client!Leave
  <2>8. QED
    BY <1>4, <2>1, <2>2, <2>3, <2>4, <2>5, <2>6, <2>7, SameIds DEF Client!UserStep
<1>5. QED
  BY <1>1, <1>2, <1>3, <1>4 DEF Client!ClientStep

LEMMA TextsStep ==
  NobodyEnds /\ SystemInv /\ TalkInv /\ TextsPaired /\ [Next]_vars => TextsPaired'
<1> SUFFICES ASSUME NobodyEnds, SystemInv, TalkInv, TextsPaired, [Next]_vars,
                    NEW e \in Ids, NEW id \in Args, Peer(e)' = 0
             PROVE  ~ Sent(e, TextsOf(id))'
  BY DEF TextsPaired
<1> DEFINE S == TextsOf(id)
<1>1. S \in SUBSET Message
  BY MessageSets
<1>2. ASSUME SentLess(e, S), Peer(e) = 0 PROVE ~ Sent(e, S)'
  BY <1>2 DEF TextsPaired, SentLess
<1>3. CASE Handle
  <2>1. Peer(e) = 0
    BY <1>3, PairLasts
  <2>2. SentLess(e, S)
    BY <1>1, <1>3, HandleTakes
  <2>3. QED
    BY <1>2, <2>1, <2>2
<1>4. ASSUME NEW c \in Ids, Arrive(c) PROVE ~ Sent(e, S)'
  <2>1. Peer(e) = 0
    BY <1>4 DEF Arrive, Server!Receive, Peer
  <2>2. SentLess(e, S)
    BY <1>1, <1>4, ArriveMoves
  <2>3. QED
    BY <1>2, <2>1, <2>2
<1>5. ASSUME NEW c \in Ids, Does(Client!ClientStep(c)) PROVE ~ Sent(e, S)'
  <2>1. Peer(e) = 0 /\ UNCHANGED m_qMessagesIn
    BY <1>5 DEF Does, serverVars, Peer
  <2>2. CASE toServer' = toServer
    <3>1. SentLess(e, S)
      BY <1>1, <2>1, <2>2, SameSent
    <3>2. QED
      BY <1>2, <2>1, <3>1
  <2>3. ASSUME NEW m \in ClientMessage, Client!Send(c, m), m \notin S \/ e # c
        PROVE  ~ Sent(e, S)'
    <3>1. ~ Sent(e, S)
      BY <2>1 DEF TextsPaired
    <3>2. CASE e = c
      BY <1>1, <2>1, <2>3, <3>1, <3>2, SendAdds
    <3>3. CASE e # c
      BY <1>1, <2>1, <2>3, <3>1, <3>3, SendAdds DEF SentLess
    <3>4. QED
      BY <3>2, <3>3
  <2>4. CASE Client!SendToClient(c)
    <3>1. proc[c].ui = "send"
      BY <2>4 DEF Client!SendToClient, Client!At
    <3>2. Peer(c) # 0
      BY <3>1 DEF TalkInv, TalkClient, Untouched, InChat
    <3>3. QED
      BY <2>1, <2>3, <2>4, <3>2, MessagesTyped DEF Client!SendToClient
  <2>5. ASSUME NEW m \in ClientMessage, m.id # "TextClient", Client!Send(c, m)
        PROVE  ~ Sent(e, S)'
    BY <2>3, <2>5 DEF TextsOf
  <2>6. QED
    BY <1>5, <2>2, <2>4, <2>5, ClientSends DEF Does
<1>6. ASSUME NEW c \in Ids, Disconnect(c) PROVE FALSE
  BY <1>6, TalkFacts DEF Disconnect, Alive
<1>7. CASE UNCHANGED vars
  <2>1. Peer(e) = 0 /\ toServer' = toServer /\ UNCHANGED m_qMessagesIn
    BY <1>7 DEF vars, serverVars, clientVars, Peer
  <2>2. SentLess(e, S)
    BY <1>1, <2>1, SameSent
  <2>3. QED
    BY <1>2, <2>1, <2>2
<1>8. QED
  BY <1>3, <1>4, <1>5, <1>6, <1>7 DEF Next

\* at(client) throws for none of the three types that look it up
LEMMA NeverThrows ==
  ASSUME SystemInv, TalkInv, TextsPaired, Handle,
         NEW type \in {"TextClient", "RequestAnswer", "CloseClient"}
  PROVE  ~ Server!AtThrows(type)
<1> SUFFICES ASSUME Server!AtThrows(type) PROVE FALSE
  OBVIOUS
<1>1. PICK k \in Ids : k = Server!client
  BY HandleTakes
<1>2. PICK m \in Message : m = Server!msg
  BY HandleTakes
<1>3. Peer(k) = 0 /\ m.id = type
  BY <1>1, <1>2 DEF Server!AtThrows, Server!Pop, Server!Paired, Server!NoPeer, Server!msg, Peer
<1>4. TalkClient(k) /\ Alone(k)
  BY <1>3 DEF TalkInv, TalkClient
<1>5. CASE type = "TextClient"
  <2>1. m \in TextsOf(m.arg) /\ m.arg \in Args
    BY <1>3, <1>5 DEF TextsOf, Message
  <2>2. Sent(k, TextsOf(m.arg))
    BY <1>1, <1>2, <2>1, HandleTakes, MessageSets
  <2>3. QED
    BY <1>3, <2>1, <2>2 DEF TextsPaired
<1>6. CASE type = "RequestAnswer"
  <2>1. m \in Answers
    BY <1>3, <1>6 DEF Answers
  <2>2. Sent(k, Answers)
    BY <1>1, <1>2, <2>1, HandleTakes, MessageSets
  <2>3. QED
    BY <1>4, <2>2 DEF Alone
<1>7. CASE type = "CloseClient"
  <2>1. m \in Closes
    BY <1>3, <1>7 DEF Closes
  <2>2. Sent(k, Closes)
    BY <1>1, <1>2, <2>1, HandleTakes, MessageSets
  <2>3. QED
    BY <1>4, <2>2 DEF TalkClient, NoneEnded
<1>8. QED
  BY <1>5, <1>6, <1>7

LEMMA KeepsRunning ==
  NobodyEnds /\ SystemInv /\ TalkInv /\ TextsPaired /\ Running /\ [Next]_vars => Running'
<1> SUFFICES ASSUME SystemInv, TalkInv, TextsPaired, Running, Handle PROVE Running'
  BY TalkFacts DEF Next, Does, Arrive, Server!Receive, Disconnect, Alive, Running, vars, serverVars
<1>1. CASE Server!OnTextClient
  <2>1. PICK k \in Ids : k = Server!client
    BY HandleTakes
  <2>2. Server!Peer = Peer(k) /\ Peer(k) \in Ids
    BY <1>1, <2>1, PeerTyped DEF Server!OnTextClient, Server!PeerPop, Server!Paired,
                                 Server!NoPeer, Server!Peer, Peer
  <2>3. Server!IsConnected(Server!Peer)
    BY <2>2, AllHeld DEF Server!Live
  <2>4. QED
    BY <1>1, <2>3 DEF Server!OnTextClient, Running
<1>2. QED
  BY <1>1, NeverThrows, CloseNeverHandled
     DEF Handle, Server!OnMessage, Server!OnServerPing, Server!OnMessageAll, Server!OnClientList,
         Server!OnRequestToClient, Server!OnRequestAnswer, Running

(* Server.cpp:96, 119, 135 at() throws when the sender of a text, an answer*)
(* or a close has no peer, and nothing catches it.  With any number of     *)
(* clients and commands, while users end nothing, no such message is ever  *)
(* handled: only ended chats (run chat_throw) can end the server.          *)
THEOREM TalkNeverThrows ==
  ASSUME NobodyEnds
  PROVE  Spec => []NoThrow
<1> DEFINE Inv == SystemInv /\ TalkInv /\ TextsPaired /\ Running
<1>1. Init => Inv
  <2>1. ASSUME Init PROVE TextsPaired /\ Running
    <3>1. \A c \in Ids : toServer[c] = <<>> /\ m_qMessagesIn = <<>>
      BY <2>1, SameIds DEF Init, Client!Init
    <3>2. QED
      BY <2>1, <3>1 DEF Init, TextsPaired, Sent, Has, Running
  <2>2. QED
    BY <2>1, InitSystem, InitTalks
<1>2. Inv /\ [Next]_vars => Inv'
  BY SystemStep, TalkStep, TextsStep, KeepsRunning
<1>3. Inv => NoThrow
  BY DEF Running, NoThrow
<1>4. QED
  BY <1>1, <1>2, <1>3, PTL DEF Spec

-----------------------------------------------------------------------------
(* How many messages of a set a sequence holds *)

Bit(m, S) == IF m \in S THEN 1 ELSE 0

LEMMA CountNat ==
  ASSUME NEW T, NEW s \in Seq(T), NEW S
  PROVE  /\ IsFiniteSet({i \in DOMAIN s : s[i] \in S})
         /\ Count(s, S) \in Nat /\ (Has(s, S) <=> Count(s, S) # 0)
<1> DEFINE A == {i \in DOMAIN s : s[i] \in S}
<1>1. A \in SUBSET (1 .. Len(s)) /\ 1 \in Int /\ Len(s) \in Int
  OBVIOUS
<1>2. IsFiniteSet(A)
  <2>1. IsFiniteSet(1 .. Len(s))
    BY <1>1, FS_Interval
  <2> HIDE DEF A
  <2>2. QED
    BY <1>1, <2>1, FS_Subset
<1>3. Has(s, S) <=> A # {}
  BY DEF Has
<1> HIDE DEF A
<1>4. Cardinality(A) \in Nat /\ (Cardinality(A) = 0 <=> A = {})
  BY <1>2, FS_CardinalityType, FS_EmptySet
<1>5. QED
  BY <1>2, <1>3, <1>4 DEF Count, A

LEMMA CountAppend ==
  ASSUME NEW T, NEW s \in Seq(T), NEW m \in T, NEW S
  PROVE  Count(Append(s, m), S) = Count(s, S) + Bit(m, S)
<1> DEFINE a == Append(s, m)
           A == {i \in DOMAIN s : s[i] \in S}
           B == {i \in DOMAIN a : a[i] \in S}
           n == Len(s) + 1
<1>1. /\ DOMAIN s = 1 .. Len(s) /\ Len(s) \in Nat /\ DOMAIN a = 1 .. n
      /\ a[n] = m /\ \A i \in 1 .. Len(s) : a[i] = s[i]
  OBVIOUS
<1> HIDE DEF a
<1>2. n \notin DOMAIN s /\ DOMAIN a = DOMAIN s \cup {n}
  BY <1>1
<1>3. n \notin A /\ B = IF m \in S THEN A \cup {n} ELSE A
  BY <1>1, <1>2
<1>4. IsFiniteSet(A) /\ Cardinality(A) \in Nat
  BY CountNat DEF Count
<1> HIDE DEF A, B, n
<1>5. Cardinality(A \cup {n}) = Cardinality(A) + 1
  BY <1>3, <1>4, FS_AddElement
<1>6. Cardinality(B) = Cardinality(A) + Bit(m, S)
  BY <1>3, <1>4, <1>5 DEF Bit
<1>7. QED
  BY <1>6 DEF Count, A, B, a

LEMMA CountTail ==
  ASSUME NEW T, NEW s \in Seq(T), s # <<>>, NEW S
  PROVE  Count(s, S) = Count(Tail(s), S) + Bit(Head(s), S)
<1> DEFINE t == Tail(s)
           A == {i \in DOMAIN t : t[i] \in S}
           B == {i \in DOMAIN s : s[i] \in S}
           C == B \ {1}
           F == [i \in A |-> i + 1]
<1>1. /\ t \in Seq(T) /\ Head(s) = s[1] /\ 1 \in DOMAIN s
      /\ DOMAIN s = 1 .. Len(s) /\ Len(s) \in Nat \ {0} /\ DOMAIN t = 1 .. (Len(s) - 1)
      /\ \A i \in 1 .. (Len(s) - 1) : t[i] = s[i + 1]
  OBVIOUS
<1> HIDE DEF t
<1>2. IsFiniteSet(A) /\ IsFiniteSet(B) /\ Cardinality(A) \in Nat /\ Cardinality(B) \in Nat
  BY <1>1, CountNat DEF Count
<1>3. \A i \in A : i \in Nat /\ F[i] = i + 1 /\ F[i] \in C
  BY <1>1
<1>4. \A j \in C : \E i \in A : F[i] = j
  <2> SUFFICES ASSUME NEW j \in C PROVE \E i \in A : F[i] = j
    OBVIOUS
  <2>1. j \in 2 .. Len(s) /\ s[j] \in S
    BY <1>1
  <2>2. j - 1 \in A /\ (j - 1) + 1 = j
    BY <1>1, <2>1
  <2>3. QED
    BY <1>3, <2>2
<1>5. DOMAIN F = A
  OBVIOUS
<1>6. F \in [A -> C]
  BY <1>3
<1>7. 1 \in B <=> Head(s) \in S
  BY <1>1
<1> HIDE DEF A, B, C, F
<1>8. F \in Bijection(A, C)
  BY <1>3, <1>4, <1>6 DEF Bijection, Injection, Surjection, IsInjective
<1>9. Cardinality(C) = Cardinality(A)
  BY <1>2, <1>8, FS_Bijection DEF ExistsBijection
<1>10. Cardinality(C) = IF 1 \in B THEN Cardinality(B) - 1 ELSE Cardinality(B)
  BY <1>2, FS_RemoveElement DEF C
<1>11. Cardinality(B) = Cardinality(A) + Bit(Head(s), S)
  BY <1>2, <1>7, <1>9, <1>10 DEF Bit
<1>12. QED
  BY <1>11 DEF Count, A, B, t

-----------------------------------------------------------------------------
(* How many messages are on their way *)

SentCount(c, S) == Count(toServer[c], S) + Count(m_qMessagesIn, From(c, S))
DueCount(c, S) == Count(toClient[c], S)

\* only messages of M are sent or handled, only messages of N delivered or read
Moves(M, N) ==
  \A e \in Ids : \A S \in SUBSET Message :
    /\ S \cap M = {} => SentCount(e, S)' = SentCount(e, S)
    /\ S \cap N = {} => DueCount(e, S)' = DueCount(e, S)

LEMMA CountFacts ==
  ASSUME SystemInv, NEW c \in Ids, NEW S \in SUBSET Message
  PROVE  /\ SentCount(c, S) \in Nat /\ (Sent(c, S) <=> SentCount(c, S) # 0)
         /\ DueCount(c, S) \in Nat /\ (Due(c, S) <=> DueCount(c, S) # 0)
<1> DEFINE T == [remote : Ids, msg : Message]
<1>1. toServer[c] \in Seq(Message) /\ toClient[c] \in Seq(Message) /\ m_qMessagesIn \in Seq(T)
  BY OnItsWay
<1> HIDE DEF T
<1>2. Count(toServer[c], S) \in Nat /\ (Has(toServer[c], S) <=> Count(toServer[c], S) # 0)
  BY <1>1, CountNat
<1>3. Count(toClient[c], S) \in Nat /\ (Has(toClient[c], S) <=> Count(toClient[c], S) # 0)
  BY <1>1, CountNat
<1>4. /\ Count(m_qMessagesIn, From(c, S)) \in Nat
      /\ Has(m_qMessagesIn, From(c, S)) <=> Count(m_qMessagesIn, From(c, S)) # 0
  BY <1>1, CountNat
<1>5. QED
  BY <1>2, <1>3, <1>4 DEF SentCount, DueCount, Sent, Due

CountsRight ==
  \A c \in Ids : \A S \in SUBSET Message :
    /\ SentCount(c, S) \in Nat /\ (Sent(c, S) <=> SentCount(c, S) # 0)
    /\ DueCount(c, S) \in Nat /\ (Due(c, S) <=> DueCount(c, S) # 0)

LEMMA CountsNext == SystemInv' => CountsRight'
<1>1. SystemInv => CountsRight
  BY CountFacts DEF CountsRight
<1>2. QED
  BY <1>1, PTL

LEMMA StillCounts ==
  ASSUME UNCHANGED <<toServer, toClient, m_qMessagesIn>>
  PROVE  Moves({}, {})
BY DEF Moves, SentCount, DueCount, From

LEMMA SendCounts ==
  ASSUME SystemInv, NEW c \in Ids, NEW m \in ClientMessage, Client!Send(c, m),
         UNCHANGED m_qMessagesIn
  PROVE  /\ Moves({m}, {})
         /\ \A S \in SUBSET Message : SentCount(c, S)' = SentCount(c, S) + Bit(m, S)
         /\ \A e \in Ids \ {c} : \A S \in SUBSET Message : SentCount(e, S)' = SentCount(e, S)
<1>1. toServer[c] \in Seq(Message) /\ m \in Message
  BY OnItsWay
<1>2. toServer' = [toServer EXCEPT ![c] = Append(toServer[c], m)] /\ toClient' = toClient
  BY DEF Client!Send
<1>3. toServer'[c] = Append(toServer[c], m) /\ \A e \in Ids \ {c} : toServer'[e] = toServer[e]
  BY <1>2, OnItsWay
<1>4. ASSUME NEW S \in SUBSET Message PROVE SentCount(c, S)' = SentCount(c, S) + Bit(m, S)
  <2>1. Count(toServer'[c], S) = Count(toServer[c], S) + Bit(m, S)
    BY <1>1, <1>3, CountAppend
  <2>2. Count(toServer[c], S) \in Nat
    BY <1>1, CountNat
  <2>3. Count(m_qMessagesIn, From(c, S)) \in Nat
    <3> DEFINE T == [remote : Ids, msg : Message]
    <3>1. m_qMessagesIn \in Seq(T)
      BY OnItsWay
    <3> HIDE DEF T
    <3>2. QED
      BY <3>1, CountNat
  <2>4. SentCount(c, S)' = Count(toServer'[c], S) + Count(m_qMessagesIn, From(c, S))
    BY DEF SentCount, From
  <2>5. Bit(m, S) \in Nat
    BY DEF Bit
  <2>6. QED
    BY <2>1, <2>2, <2>3, <2>4, <2>5 DEF SentCount
<1>5. ASSUME NEW e \in Ids \ {c}, NEW S \in SUBSET Message PROVE SentCount(e, S)' = SentCount(e, S)
  BY <1>3 DEF SentCount, From
<1>6. ASSUME NEW e \in Ids, NEW S \in SUBSET Message, S \cap {m} = {}
      PROVE  SentCount(e, S)' = SentCount(e, S)
  <2>1. CASE e = c
    <3>1. SentCount(c, S) \in Nat /\ Bit(m, S) = 0
      BY <1>6, CountFacts DEF Bit
    <3>2. QED
      BY <1>4, <2>1, <3>1
  <2>2. QED
    BY <1>5, <2>1
<1>7. \A e \in Ids : \A S \in SUBSET Message : DueCount(e, S)' = DueCount(e, S)
  BY <1>2 DEF DueCount
<1>8. QED
  BY <1>4, <1>5, <1>6, <1>7 DEF Moves

LEMMA PopCounts ==
  ASSUME SystemInv, NEW c \in Ids, NEW types, Client!Pops(c, types), UNCHANGED m_qMessagesIn
  PROVE  /\ Moves({}, {Head(toClient[c])})
         /\ \A S \in SUBSET Message : DueCount(c, S) = DueCount(c, S)' + Bit(Head(toClient[c]), S)
         /\ \A e \in Ids \ {c} : \A S \in SUBSET Message : DueCount(e, S)' = DueCount(e, S)
<1> DEFINE m == Head(toClient[c])
<1>1. toClient[c] \in Seq(Message) /\ toClient[c] # <<>>
  BY OnItsWay DEF Client!Pops
<1>2. toClient' = [toClient EXCEPT ![c] = Tail(toClient[c])] /\ UNCHANGED toServer
  BY DEF Client!Pops
<1>3. toClient'[c] = Tail(toClient[c]) /\ \A e \in Ids \ {c} : toClient'[e] = toClient[e]
  BY <1>2, OnItsWay
<1>4. ASSUME NEW S \in SUBSET Message PROVE DueCount(c, S) = DueCount(c, S)' + Bit(m, S)
  BY <1>1, <1>3, CountTail DEF DueCount
<1>5. ASSUME NEW e \in Ids \ {c}, NEW S \in SUBSET Message PROVE DueCount(e, S)' = DueCount(e, S)
  BY <1>3 DEF DueCount
<1>6. ASSUME NEW e \in Ids, NEW S \in SUBSET Message, S \cap {m} = {}
      PROVE  DueCount(e, S)' = DueCount(e, S)
  <2>1. CASE e = c
    <3>1. toClient'[c] \in Seq(Message)
      BY <1>1, <1>3
    <3>2. Count(toClient'[c], S) \in Nat
      BY <3>1, CountNat
    <3>3. Bit(m, S) = 0
      BY <1>6 DEF Bit
    <3>4. QED
      BY <1>4, <2>1, <3>2, <3>3 DEF DueCount
  <2>2. QED
    BY <1>5, <2>1
<1>7. \A e \in Ids : \A S \in SUBSET Message : SentCount(e, S)' = SentCount(e, S)
  BY <1>2 DEF SentCount, From
<1>8. QED
  BY <1>4, <1>5, <1>6, <1>7 DEF Moves

LEMMA ArriveCounts ==
  ASSUME SystemInv, NEW c \in Ids, Arrive(c)
  PROVE  Moves({}, {})
<1> DEFINE m == Head(toServer[c])
           r == [remote |-> c, msg |-> m]
           T == [remote : Ids, msg : Message]
<1>1. toServer[c] \in Seq(Message) /\ toServer[c] # <<>> /\ m_qMessagesIn \in Seq(T)
  BY OnItsWay DEF Arrive
<1>2. m \in Message /\ r \in T
  BY <1>1
<1>3. /\ toServer' = [toServer EXCEPT ![c] = Tail(toServer[c])] /\ toClient' = toClient
      /\ m_qMessagesIn' = Append(m_qMessagesIn, r)
  BY DEF Arrive, Server!Receive
<1>4. toServer'[c] = Tail(toServer[c]) /\ \A e \in Ids \ {c} : toServer'[e] = toServer[e]
  BY <1>3, OnItsWay
<1>5. ASSUME NEW e \in Ids, NEW S \in SUBSET Message PROVE SentCount(e, S)' = SentCount(e, S)
  <2>1. r \in From(e, S) <=> c = e /\ m \in S
    BY <1>2, InFrom
  <2> HIDE DEF r, m, T
  <2>2. Count(m_qMessagesIn', From(e, S)) = Count(m_qMessagesIn, From(e, S)) + Bit(r, From(e, S))
    BY <1>1, <1>2, <1>3, CountAppend
  <2>3. Count(m_qMessagesIn, From(e, S)) \in Nat
    BY <1>1, CountNat
  <2>4. SentCount(e, S)' = Count(toServer'[e], S) + Count(m_qMessagesIn', From(e, S))
    BY DEF SentCount, From
  <2>5. CASE e = c
    <3>1. Count(toServer[c], S) = Count(Tail(toServer[c]), S) + Bit(m, S)
      BY <1>1, CountTail DEF m
    <3>2. Tail(toServer[c]) \in Seq(Message)
      BY <1>1
    <3>3. Count(Tail(toServer[c]), S) \in Nat
      BY <3>2, CountNat
    <3>4. Bit(r, From(e, S)) = Bit(m, S) /\ Bit(m, S) \in Nat
      BY <2>1, <2>5 DEF Bit
    <3>5. QED
      BY <1>4, <2>2, <2>3, <2>4, <2>5, <3>1, <3>3, <3>4 DEF SentCount
  <2>6. CASE e # c
    <3>1. Bit(r, From(e, S)) = 0
      BY <2>1, <2>6 DEF Bit
    <3>2. QED
      BY <1>4, <2>2, <2>3, <2>4, <2>6, <3>1 DEF SentCount
  <2>7. QED
    BY <2>5, <2>6
<1>6. QED
  BY <1>3, <1>5 DEF Moves, DueCount

LEMMA HandleCounts ==
  ASSUME SystemInv, Handle, NEW e \in Ids, NEW S \in SUBSET Message
  PROVE  SentCount(e, S) =
           SentCount(e, S)' + (IF e = Server!client /\ Server!msg \in S THEN 1 ELSE 0)
<1> DEFINE k == Server!client
           m == Server!msg
           h == Head(m_qMessagesIn)
           T == [remote : Ids, msg : Message]
<1>1. m_qMessagesIn # <<>> /\ m_qMessagesIn' = Tail(m_qMessagesIn)
  BY DEF Handle, Server!OnMessage, Server!OnServerPing, Server!OnMessageAll, Server!OnClientList,
         Server!OnRequestToClient, Server!OnTextClient, Server!OnRequestAnswer,
         Server!OnCloseClient, Server!AtThrows, Server!PeerPop, Server!Pop
<1>2. m_qMessagesIn \in Seq(T) /\ toServer[e] \in Seq(Message) /\ toServer' = toServer
  BY OnItsWay DEF Handle
<1>3. h \in T /\ Tail(m_qMessagesIn) \in Seq(T)
  <2> HIDE DEF T
  <2>1. QED
    BY <1>1, <1>2
<1>4. k \in Ids /\ m \in Message /\ h = [remote |-> k, msg |-> m]
  BY <1>3 DEF Server!client, Server!msg
<1>5. h \in From(e, S) <=> k = e /\ m \in S
  BY <1>4, InFrom
<1>6. SentCount(e, S)' = Count(toServer[e], S) + Count(Tail(m_qMessagesIn), From(e, S))
  BY <1>1, <1>2 DEF SentCount, From
<1> HIDE DEF T, k, m
<1>7. Count(m_qMessagesIn, From(e, S)) = Count(Tail(m_qMessagesIn), From(e, S)) + Bit(h, From(e, S))
  BY <1>1, <1>2, CountTail
<1>8. Count(Tail(m_qMessagesIn), From(e, S)) \in Nat /\ Count(toServer[e], S) \in Nat
  BY <1>2, <1>3, CountNat
<1>9. QED
  BY <1>5, <1>6, <1>7, <1>8 DEF SentCount, Bit, k, m

\* e gets what is posted to it, which is at most one message
LEMMA DeliverCounts ==
  ASSUME SystemInv, SystemInv', TalkInv, Handle, NEW e \in Ids, NEW S \in SUBSET Message
  PROVE  /\ (\A p \in posted' : p.to = e => p.msg \notin S) => DueCount(e, S)' = DueCount(e, S)
         /\ \A m : Server!To(e, m) \in posted' /\ (\A p \in posted' : p.to = e => p.msg = m) =>
              DueCount(e, S)' = DueCount(e, S) + Bit(m, S)
<1>1. toClient[e] \in Seq(Message) /\ Count(toClient[e], S) \in Nat
  <2>1. toClient[e] \in Seq(Message)
    BY OnItsWay
  <2>2. QED
    BY <2>1, CountNat
<1>2. CASE toClient'[e] = toClient[e] /\ \A p \in posted' : p.to # e
  BY <1>2 DEF DueCount, Server!To
<1>3. ASSUME NEW p \in posted', p.to = e, p.msg \in Message,
             toClient'[e] = Append(toClient[e], p.msg)
      PROVE  /\ (\A q \in posted' : q.to = e => q.msg \notin S) => DueCount(e, S)' = DueCount(e, S)
             /\ \A m : (\A q \in posted' : q.to = e => q.msg = m) =>
                  DueCount(e, S)' = DueCount(e, S) + Bit(m, S)
  <2>1. Count(toClient'[e], S) = Count(toClient[e], S) + Bit(p.msg, S)
    BY <1>1, <1>3, CountAppend
  <2>2. p.msg \notin S => Bit(p.msg, S) = 0
    BY DEF Bit
  <2>3. QED
    BY <1>1, <1>3, <2>1, <2>2 DEF DueCount
<1>4. QED
  BY <1>2, <1>3, Delivered

-----------------------------------------------------------------------------
(* Where a command of the ui stands *)

\* c.id is that of a ConnectTo being executed, which holds muxConnect from its
\* test of the request on, unless it sleeps; a line is sent in a chat only
Prompted(p) ==
  /\ p.ui \in {"prompt", "accept", "connect"} => p.id = 0
  /\ p.ui \in {"test", "checkChat", "join"} => p.muxConnect = "ui"
  /\ p.ui \in InChat /\ p.id # 0 => p.muxConnect = "ui"
  /\ p.ui = "send" => p.ConnectedToId # 0

PromptedInv == \A c \in Ids : Prompted(proc[c])

\* a client that reads an answer is the one that waits for it
LEMMA ReadsAnswer ==
  ASSUME SystemInv, TalkInv, NEW c \in Ids, Client!Answered(c) \/ Client!Declined(c)
  PROVE  /\ Peer(c) \in Ids \ {c} /\ Peer(Peer(c)) = c /\ Peer(c) # 0
         /\ AnswerDue(Peer(c)) /\ Waiting(c)
<1>1. Client!Pops(c, {"RequestAnswer"})
  BY DEF Client!Answered, Client!Declined
<1>2. Head(toClient[c]) \in Answers
  BY <1>1, PopsTake DEF Answers
<1>3. Due(c, Answers)
  BY <1>1, <1>2, PopsTake, MessageSets
<1>4. PICK d \in Ids \ {c} : d = Peer(c) /\ Peer(d) = c
  BY <1>3, PeerTyped DEF TalkInv, TalkClient, Alone
<1>5. 0 \notin Ids
  BY PeerTyped
<1>6. AnswerDue(d)
  BY <1>3, <1>4, <1>5 DEF AnswerDue
<1>7. Waiting(Peer(d))
  BY <1>4, <1>5, <1>6 DEF TalkInv, TalkClient, Owes
<1>8. QED
  BY <1>4, <1>5, <1>6, <1>7

LEMMA PromptedStep ==
  ASSUME NobodyEnds, SystemInv, TalkInv, PromptedInv, [Next]_vars
  PROVE  PromptedInv'
<1>0. DOMAIN proc = Ids /\ \A c \in Ids : DOMAIN proc[c] = Fields
  BY ProcShape
<1>1. ASSUME UNCHANGED proc PROVE PromptedInv'
  BY <1>1 DEF PromptedInv
<1>2. ASSUME NEW c \in Ids, Client!ClientStep(c) PROVE PromptedInv'
  <2>0. /\ DOMAIN proc[c] = Fields /\ Prompted(proc[c]) /\ Alive(proc[c]) /\ Ours(proc[c], Peer(c))
    BY <1>0, TalkFacts DEF PromptedInv
  <2>1. ASSUME OnlyProc(c), Prompted(proc'[c]) PROVE PromptedInv'
    BY <2>1 DEF PromptedInv, OnlyProc
  <2> USE DEF OnlyProc, Fields, Alive, Prompted, InChat, Client!At, Client!Go, Client!Notified
  <2>2. CASE Client!UiStep(c)
    <3>1. CASE Client!SetRequest(c) \/ Client!LockAndWatch(c) \/ Client!Relock(c)
      BY <1>0, <2>0, <2>1, <3>1 DEF Client!SetRequest, Client!LockAndWatch, Client!Relock
    <3>2. CASE Client!TestRequest(c) \/ Client!CheckChat(c)
      BY <1>0, <2>0, <2>1, <3>2 DEF Client!TestRequest, Client!CheckChat
    <3>3. CASE Client!Join(c) \/ Client!SendToClient(c)
      BY <1>0, <2>0, <2>1, <3>3 DEF Client!Join, Client!SendToClient
    <3>4. CASE Client!AcceptReads(c) \/ Client!AcceptConnects(c)
      BY <1>0, <2>0, <2>1, <3>4 DEF Client!AcceptReads, Client!AcceptConnects
    <3>5. CASE Client!CloseChat(c) \/ Client!ClearConnected(c) \/ Client!ResetRequest(c)
      BY <2>0, <3>5 DEF Client!CloseChat, Client!ClearConnected, Client!ResetRequest
    <3>6. QED
      BY <2>2, <3>1, <3>2, <3>3, <3>4, <3>5 DEF Client!UiStep
  <2>3. CASE Client!WatcherStep(c) \/ Client!EnterStep(c) \/ Client!SpuriousWakeup(c)
    BY <1>0, <2>0, <2>1, <2>3
       DEF Client!WatcherStep, Client!EnterStep, Client!SpuriousWakeup, Client!WatchAgain,
           Client!WatchEnds, Client!WatchClear, Client!WatchReset, Client!WatchNotify, Client!WatchEnter,
           Client!LeaveChat
  <2>4. CASE Client!ExecutorStep(c)
    <3>1. CASE Client!Shown(c)
      BY <1>1, <3>1 DEF Client!Shown
    <3>2. CASE Client!Answered(c)
      BY <1>0, <2>0, <2>1, <3>2 DEF Client!Answered
    <3>6. CASE Client!Accepted(c)
      <4>1. Asking(proc[c])
        BY <2>0, <3>6 DEF Client!Accepted, Ours
      <4>2. QED
        BY <1>0, <2>0, <2>1, <3>6, <4>1 DEF Client!Accepted, Asking, Pending, Waits
    <3>3. CASE Client!Refused(c) \/ Client!AcceptedNotifies(c) \/ Client!Declined(c)
      BY <1>0, <2>0, <2>1, <3>3
         DEF Client!Refused, Client!AcceptedNotifies, Client!Declined, Client!RequestOver
    <3>4. CASE Client!Requested(c)
      BY <1>0, <2>0, <2>1, <3>4 DEF Client!Requested
    <3>5. QED
      BY <2>4, <3>1, <3>2, <3>3, <3>4, <3>6, ClosedNever DEF Client!ExecutorStep
  <2>5. CASE Client!UserStep(c)
    <3>1. ~ Client!Decline(c) /\ ~ Client!ChatLine(c, "-close", "close")
          /\ ~ Client!WatchClose(c) /\ ~ Client!Leave(c)
      BY DEF NobodyEnds, Client!Decline, Client!ChatLine, Client!WatchClose, Client!Leave,
             Client!Typed, Client!CanType
    <3>2. ASSUME NEW id, Client!ConnectTo(c, id) PROVE PromptedInv'
      BY <1>0, <2>0, <2>1, <3>2 DEF Client!ConnectTo
    <3>3. CASE Client!Accept(c) \/ Client!Ask(c)
      BY <1>0, <2>0, <2>1, <3>3 DEF Client!Accept, Client!Ask, Client!Typed
    <3>4. CASE Client!ChatLine(c, "Text", "send")
      BY <1>0, <2>0, <2>1, <3>4 DEF Client!ChatLine
    <3>5. QED
      BY <2>5, <3>1, <3>2, <3>3, <3>4 DEF Client!UserStep
  <2>6. QED
    BY <1>2, <2>2, <2>3, <2>4, <2>5 DEF Client!ClientStep
<1>3. QED
  BY <1>1, <1>2 DEF Next, Does, Handle, Arrive, Disconnect, vars, clientVars

-----------------------------------------------------------------------------
(* Steps of the system as steps of the protocol *)

ProtocolStep == [Protocol!Next]_(Protocol!vars)

\* what the protocol sees of a process, but for what it owes
Local(p, q) == q.id = p.id /\ ChatOf(q) = ChatOf(p) /\ (Accepting(q) <=> Accepting(p))

KeepsPairs == UNCHANGED ClientConnections
KeepsProcs == \A e \in Ids : Local(proc[e], proc'[e])
KeepsOwed == \A e \in Ids : Owed(e)' = Owed(e)
KeepsUnread == \A e \in Ids : Unread(e)' = Unread(e)

LEMMA MapStutter ==
  ASSUME KeepsPairs, KeepsProcs, KeepsOwed, KeepsUnread
  PROVE  ProtocolStep
<1>1. [e \in Ids |-> proc[e].id]' = [e \in Ids |-> proc[e].id]
  BY DEF KeepsProcs, Local
<1>2. [e \in Ids |-> ChatOf(proc[e])]' = [e \in Ids |-> ChatOf(proc[e])]
  BY DEF KeepsProcs, Local
<1>3. [e \in Ids |-> Accepting(proc[e])]' = [e \in Ids |-> Accepting(proc[e])]
  BY DEF KeepsProcs, Local, Accepting
<1>4. [e \in Ids |-> Owed(e)]' = [e \in Ids |-> Owed(e)]
  BY DEF KeepsOwed
<1>5. [e \in Ids |-> Unread(e)]' = [e \in Ids |-> Unread(e)]
  BY DEF KeepsUnread
<1>6. QED
  BY <1>1, <1>2, <1>3, <1>4, <1>5 DEF ProtocolStep, Protocol!vars, KeepsPairs

LEMMA MapForget ==
  ASSUME NEW c \in Ids, KeepsPairs, KeepsProcs, KeepsUnread,
         Owed(c) = "request", Owed(c)' = "nothing", \A e \in Ids \ {c} : Owed(e)' = Owed(e)
  PROVE  ProtocolStep
<1>1. [e \in Ids |-> proc[e].id]' = [e \in Ids |-> proc[e].id]
  BY DEF KeepsProcs, Local
<1>2. [e \in Ids |-> ChatOf(proc[e])]' = [e \in Ids |-> ChatOf(proc[e])]
  BY DEF KeepsProcs, Local
<1>3. [e \in Ids |-> Accepting(proc[e])]' = [e \in Ids |-> Accepting(proc[e])]
  BY DEF KeepsProcs, Local, Accepting
<1>4. [e \in Ids |-> Owed(e)]' = [[e \in Ids |-> Owed(e)] EXCEPT ![c] = "nothing"]
  OBVIOUS
<1>5. [e \in Ids |-> Unread(e)]' = [e \in Ids |-> Unread(e)]
  BY DEF KeepsUnread
<1>6. Protocol!Forget(c)
  BY <1>1, <1>2, <1>3, <1>4, <1>5 DEF Protocol!Forget, KeepsPairs
<1>7. QED
  BY <1>6 DEF ProtocolStep, Protocol!Next

\* one lemma for each action in which a process decides something
LEMMA MapAsk ==
  ASSUME NEW c \in Ids, NEW id \in Ids \cup OtherIds, KeepsPairs, KeepsOwed, KeepsUnread,
         \A e \in Ids \ {c} : Local(proc[e], proc'[e]),
         proc[c].id = 0, ~ Accepting(proc[c]), ChatOf(proc[c]) = 0,
         proc'[c].id = id, ~ Accepting(proc'[c]), ChatOf(proc'[c]) = 0
  PROVE  ProtocolStep
<1>1. [e \in Ids |-> proc[e].id]' = [[e \in Ids |-> proc[e].id] EXCEPT ![c] = id]
  BY DEF Local
<1>2. [e \in Ids |-> ChatOf(proc[e])]' = [e \in Ids |-> ChatOf(proc[e])]
  BY DEF Local
<1>3. [e \in Ids |-> Accepting(proc[e])]' = [e \in Ids |-> Accepting(proc[e])]
  BY DEF Local, Accepting
<1>4. [e \in Ids |-> Owed(e)]' = [e \in Ids |-> Owed(e)]
  BY DEF KeepsOwed
<1>5. [e \in Ids |-> Unread(e)]' = [e \in Ids |-> Unread(e)]
  BY DEF KeepsUnread
<1>6. Protocol!Ask(c, id)
  BY <1>1, <1>2, <1>3, <1>4, <1>5 DEF Protocol!Ask, Protocol!Free, KeepsPairs
<1>7. QED
  BY <1>6 DEF ProtocolStep, Protocol!Next

LEMMA MapStopAsking ==
  ASSUME SystemInv, NEW c \in Ids, KeepsPairs, KeepsOwed, KeepsUnread,
         \A e \in Ids \ {c} : Local(proc[e], proc'[e]),
         Peer(c) # 0 => Owed(Peer(c)) = "nothing",
         ~ Accepting(proc[c]), ChatOf(proc[c]) = 0,
         proc'[c].id = 0, ~ Accepting(proc'[c]), ChatOf(proc'[c]) = 0
  PROVE  ProtocolStep
<1>1. [e \in Ids |-> proc[e].id]' = [[e \in Ids |-> proc[e].id] EXCEPT ![c] = 0]
  BY DEF Local
<1>2. [e \in Ids |-> ChatOf(proc[e])]' = [e \in Ids |-> ChatOf(proc[e])]
  BY DEF Local
<1>3. [e \in Ids |-> Accepting(proc[e])]' = [e \in Ids |-> Accepting(proc[e])]
  BY DEF Local, Accepting
<1>4. [e \in Ids |-> Owed(e)]' = [e \in Ids |-> Owed(e)]
  BY DEF KeepsOwed
<1>5. [e \in Ids |-> Unread(e)]' = [e \in Ids |-> Unread(e)]
  BY DEF KeepsUnread
<1>6. CASE proc[c].id # 0
  <2>1. Peer(c) # 0 => [e \in Ids |-> Owed(e)][Peer(c)] = "nothing"
    BY PeerTyped
  <2>2. Protocol!StopAsking(c)
    BY <1>1, <1>2, <1>3, <1>4, <1>5, <1>6, <2>1 DEF Protocol!StopAsking, KeepsPairs, Peer
  <2>3. QED
    BY <2>2 DEF ProtocolStep, Protocol!Next
<1>7. CASE proc[c].id = 0
  <2>1. KeepsProcs
    BY <1>7 DEF KeepsProcs, Local
  <2>2. QED
    BY <2>1, MapStutter
<1>8. QED
  BY <1>6, <1>7

LEMMA MapAccept ==
  ASSUME NEW c \in Ids, KeepsPairs, KeepsUnread,
         \A e \in Ids \ {c} : Local(proc[e], proc'[e]) /\ Owed(e)' = Owed(e),
         proc[c].id = 0, ~ Accepting(proc[c]), ChatOf(proc[c]) = 0,
         proc'[c].id = 0, Accepting(proc'[c]), ChatOf(proc'[c]) = 0,
         Owed(c) = "request", Owed(c)' = "answer"
  PROVE  ProtocolStep
<1>1. [e \in Ids |-> proc[e].id]' = [e \in Ids |-> proc[e].id]
  BY DEF Local
<1>2. [e \in Ids |-> ChatOf(proc[e])]' = [e \in Ids |-> ChatOf(proc[e])]
  BY DEF Local
<1>3. [e \in Ids |-> Accepting(proc[e])]' = [[e \in Ids |-> Accepting(proc[e])] EXCEPT ![c] = TRUE]
  <2>1. \A e \in Ids \ {c} : Accepting(proc'[e]) = Accepting(proc[e])
    BY DEF Local, Accepting
  <2>2. Accepting(proc'[c]) = TRUE
    BY DEF Accepting
  <2>3. QED
    BY <2>1, <2>2
<1>4. [e \in Ids |-> Owed(e)]' = [[e \in Ids |-> Owed(e)] EXCEPT ![c] = "answer"]
  OBVIOUS
<1>5. [e \in Ids |-> Unread(e)]' = [e \in Ids |-> Unread(e)]
  BY DEF KeepsUnread
<1>6. Protocol!Accept(c)
  BY <1>1, <1>2, <1>3, <1>4, <1>5 DEF Protocol!Accept, Protocol!Free, KeepsPairs
<1>7. QED
  BY <1>6 DEF ProtocolStep, Protocol!Next

LEMMA MapOpen ==
  ASSUME NEW c \in Ids, KeepsPairs, KeepsOwed, KeepsUnread,
         \A e \in Ids \ {c} : Local(proc[e], proc'[e]),
         Accepting(proc[c]), ~ Accepting(proc'[c]), proc'[c].id = proc[c].id,
         ChatOf(proc'[c]) \in {0, Peer(c)}
  PROVE  ProtocolStep
<1>1. [e \in Ids |-> proc[e].id]' = [e \in Ids |-> proc[e].id]
  BY DEF Local
<1>2. PICK id \in {0, Peer(c)} :
        [e \in Ids |-> ChatOf(proc[e])]' = [[e \in Ids |-> ChatOf(proc[e])] EXCEPT ![c] = id]
  BY DEF Local
<1>3. [e \in Ids |-> Accepting(proc[e])]' = [[e \in Ids |-> Accepting(proc[e])] EXCEPT ![c] = FALSE]
  <2>1. \A e \in Ids \ {c} : Accepting(proc'[e]) = Accepting(proc[e])
    BY DEF Local, Accepting
  <2>2. Accepting(proc'[c]) = FALSE
    BY DEF Accepting
  <2>3. QED
    BY <2>1, <2>2
<1>4. [e \in Ids |-> Owed(e)]' = [e \in Ids |-> Owed(e)]
  BY DEF KeepsOwed
<1>5. [e \in Ids |-> Unread(e)]' = [e \in Ids |-> Unread(e)]
  BY DEF KeepsUnread
<1>6. Protocol!Open(c)
  BY <1>1, <1>2, <1>3, <1>4, <1>5 DEF Protocol!Open, KeepsPairs, Peer
<1>7. QED
  BY <1>6 DEF ProtocolStep, Protocol!Next

LEMMA MapConnect ==
  ASSUME NEW c \in Ids, NEW d \in Ids, d = Peer(c), d # 0, KeepsPairs, KeepsUnread,
         \A e \in Ids \ {c} : Local(proc[e], proc'[e]),
         \A e \in Ids \ {d} : Owed(e)' = Owed(e),
         proc[c].id = d, ChatOf(proc[c]) = 0,
         proc'[c].id = d, Accepting(proc'[c]) <=> Accepting(proc[c]),
         ChatOf(proc'[c]) \in {0, d},
         Owed(d) = "answer", Owed(d)' = "nothing"
  PROVE  ProtocolStep
<1>1. [e \in Ids |-> proc[e].id]' = [e \in Ids |-> proc[e].id]
  BY DEF Local
<1>2. PICK id \in {0, d} :
        [e \in Ids |-> ChatOf(proc[e])]' = [[e \in Ids |-> ChatOf(proc[e])] EXCEPT ![c] = id]
  BY DEF Local
<1>3. [e \in Ids |-> Accepting(proc[e])]' = [e \in Ids |-> Accepting(proc[e])]
  BY DEF Local, Accepting
<1>4. [e \in Ids |-> Owed(e)]' = [[e \in Ids |-> Owed(e)] EXCEPT ![d] = "nothing"]
  OBVIOUS
<1>5. [e \in Ids |-> Unread(e)]' = [e \in Ids |-> Unread(e)]
  BY DEF KeepsUnread
<1>6. Protocol!Connect(c)
  BY <1>1, <1>2, <1>3, <1>4, <1>5 DEF Protocol!Connect, KeepsPairs, Peer
<1>7. QED
  BY <1>6 DEF ProtocolStep, Protocol!Next

LEMMA MapSay ==
  ASSUME NEW c \in Ids, KeepsPairs, KeepsProcs, KeepsOwed, ChatOf(proc[c]) # 0,
         Unread(c)' = Unread(c) + 1, \A e \in Ids \ {c} : Unread(e)' = Unread(e)
  PROVE  ProtocolStep
<1>1. [e \in Ids |-> proc[e].id]' = [e \in Ids |-> proc[e].id]
  BY DEF KeepsProcs, Local
<1>2. [e \in Ids |-> ChatOf(proc[e])]' = [e \in Ids |-> ChatOf(proc[e])]
  BY DEF KeepsProcs, Local
<1>3. [e \in Ids |-> Accepting(proc[e])]' = [e \in Ids |-> Accepting(proc[e])]
  BY DEF KeepsProcs, Local, Accepting
<1>4. [e \in Ids |-> Owed(e)]' = [e \in Ids |-> Owed(e)]
  BY DEF KeepsOwed
<1>5. [e \in Ids |-> Unread(e)]' = [[e \in Ids |-> Unread(e)] EXCEPT ![c] = @ + 1]
  OBVIOUS
<1>6. Protocol!Say(c)
  BY <1>1, <1>2, <1>3, <1>4, <1>5 DEF Protocol!Say, KeepsPairs
<1>7. QED
  BY <1>6 DEF ProtocolStep, Protocol!Next

LEMMA MapRead ==
  ASSUME NEW c \in Ids, NEW d \in Ids, d = Peer(c), d # 0, KeepsPairs, KeepsProcs, KeepsOwed,
         Unread(d) > 0, Unread(d)' = Unread(d) - 1, \A e \in Ids \ {d} : Unread(e)' = Unread(e)
  PROVE  ProtocolStep
<1>1. [e \in Ids |-> proc[e].id]' = [e \in Ids |-> proc[e].id]
  BY DEF KeepsProcs, Local
<1>2. [e \in Ids |-> ChatOf(proc[e])]' = [e \in Ids |-> ChatOf(proc[e])]
  BY DEF KeepsProcs, Local
<1>3. [e \in Ids |-> Accepting(proc[e])]' = [e \in Ids |-> Accepting(proc[e])]
  BY DEF KeepsProcs, Local, Accepting
<1>4. [e \in Ids |-> Owed(e)]' = [e \in Ids |-> Owed(e)]
  BY DEF KeepsOwed
<1>5. [e \in Ids |-> Unread(e)]' = [[e \in Ids |-> Unread(e)] EXCEPT ![d] = @ - 1]
  OBVIOUS
<1>6. Protocol!Read(c)
  BY <1>1, <1>2, <1>3, <1>4, <1>5 DEF Protocol!Read, KeepsPairs, Peer
<1>7. QED
  BY <1>6 DEF ProtocolStep, Protocol!Next

LEMMA MapPair ==
  ASSUME NEW a \in Ids, NEW b \in Ids \ {a}, KeepsProcs, KeepsUnread,
         ClientConnections' = [ClientConnections EXCEPT ![a] = b, ![b] = a],
         proc[a].id = b, Peer(a) = 0, Peer(b) = 0,
         Owed(b)' = "request", \A e \in Ids \ {b} : Owed(e)' = Owed(e)
  PROVE  ProtocolStep
<1>1. [e \in Ids |-> proc[e].id]' = [e \in Ids |-> proc[e].id]
  BY DEF KeepsProcs, Local
<1>2. [e \in Ids |-> ChatOf(proc[e])]' = [e \in Ids |-> ChatOf(proc[e])]
  BY DEF KeepsProcs, Local
<1>3. [e \in Ids |-> Accepting(proc[e])]' = [e \in Ids |-> Accepting(proc[e])]
  BY DEF KeepsProcs, Local, Accepting
<1>4. [e \in Ids |-> Owed(e)]' = [[e \in Ids |-> Owed(e)] EXCEPT ![b] = "request"]
  OBVIOUS
<1>5. [e \in Ids |-> Unread(e)]' = [e \in Ids |-> Unread(e)]
  BY DEF KeepsUnread
<1>6. Protocol!Pair(a, b)
  BY <1>1, <1>2, <1>3, <1>4, <1>5 DEF Protocol!Pair, Peer
<1>7. QED
  BY <1>6 DEF ProtocolStep, Protocol!Next

-----------------------------------------------------------------------------
(* What a step leaves of what is owed and of what is unread *)

LEMMA UnreadFacts ==
  ASSUME SystemInv, NEW e \in Ids
  PROVE  /\ TextsOf(e) \in SUBSET Message /\ Unread(e) \in Nat
         /\ Peer(e) = 0 => Unread(e) = SentCount(e, TextsOf(e))
         /\ Peer(e) # 0 =>
              Unread(e) = SentCount(e, TextsOf(e)) + DueCount(Peer(e), TextsOf(e))
<1>1. TextsOf(e) \in SUBSET Message
  BY MessageSets
<1>2. SentCount(e, TextsOf(e)) \in Nat
  BY <1>1, CountFacts
<1>3. \A f \in Ids : DueCount(f, TextsOf(e)) \in Nat
  BY <1>1, CountFacts
<1>4. Peer(e) # 0 => Peer(e) \in Ids
  BY PeerTyped
<1>5. QED
  BY <1>1, <1>2, <1>3, <1>4 DEF Unread, SentCount, DueCount

\* neither requests to a client nor answers move
LEMMA OwedMessages ==
  ASSUME SystemInv, SystemInv', KeepsPairs, NEW M, NEW N, Moves(M, N),
         M \cap Answers = {}, N \cap Answers = {}, NEW e \in Ids
  PROVE  /\ Sent(e, Answers)' <=> Sent(e, Answers)
         /\ AnswerDue(e)' <=> AnswerDue(e)
         /\ N \cap Asks = {} => (Due(e, Asks)' <=> Due(e, Asks))
<1>1. \A f \in Ids : \A S \in SUBSET Message :
        /\ Sent(f, S) <=> SentCount(f, S) # 0
        /\ Due(f, S) <=> DueCount(f, S) # 0
  BY CountFacts
<1>2. \A f \in Ids : \A S \in SUBSET Message :
        /\ Sent(f, S)' <=> SentCount(f, S)' # 0
        /\ Due(f, S)' <=> DueCount(f, S)' # 0
  BY CountsNext DEF CountsRight
<1>3. \A f \in Ids : SentCount(f, Answers)' = SentCount(f, Answers)
  BY MessageSets DEF Moves
<1>4. \A f \in Ids : DueCount(f, Answers)' = DueCount(f, Answers)
  BY MessageSets DEF Moves
<1>5. N \cap Asks = {} => DueCount(e, Asks)' = DueCount(e, Asks)
  BY MessageSets DEF Moves
<1>6. Sent(e, Answers)' <=> Sent(e, Answers)
  BY <1>1, <1>2, <1>3, MessageSets
<1>7. \A f \in Ids : Due(f, Answers)' <=> Due(f, Answers)
  BY <1>1, <1>2, <1>4, MessageSets
<1>8. N \cap Asks = {} => (Due(e, Asks)' <=> Due(e, Asks))
  BY <1>1, <1>2, <1>5, MessageSets
<1>9. AnswerDue(e)' <=> AnswerDue(e)
  <2>1. Peer(e)' = Peer(e) /\ (Peer(e) # 0 => Peer(e) \in Ids)
    BY PeerTyped DEF KeepsPairs, Peer
  <2>2. QED
    BY <1>7, <2>1 DEF AnswerDue
<1>10. QED
  BY <1>6, <1>8, <1>9

LEMMA UnreadNext ==
  ASSUME SystemInv', KeepsPairs, NEW e \in Ids
  PROVE  /\ Peer(e) = 0 => Unread(e)' = SentCount(e, TextsOf(e))'
         /\ Peer(e) # 0 =>
              Unread(e)' = SentCount(e, TextsOf(e))' + DueCount(Peer(e), TextsOf(e))'
<1>1. SentCount(e, TextsOf(e))' \in Nat
  BY CountsNext, MessageSets DEF CountsRight
<1>2. Peer(e)' = Peer(e)
  BY DEF KeepsPairs, Peer
<1>3. Unread(e)' = SentCount(e, TextsOf(e))' + IF Peer(e)' = 0 THEN 0 ELSE DueCount(Peer(e), TextsOf(e))'
  BY DEF Unread, SentCount, DueCount
<1>4. QED
  BY <1>1, <1>2, <1>3

LEMMA UnreadStays ==
  ASSUME SystemInv, SystemInv', KeepsPairs, NEW M, NEW N, Moves(M, N), NEW e \in Ids,
         TextsOf(e) \cap M = {}, TextsOf(e) \cap N = {}
  PROVE  Unread(e)' = Unread(e)
<1>1. Peer(e)' = Peer(e) /\ (Peer(e) # 0 => Peer(e) \in Ids) /\ TextsOf(e) \in SUBSET Message
  BY PeerTyped, MessageSets DEF KeepsPairs, Peer
<1>2. SentCount(e, TextsOf(e))' = SentCount(e, TextsOf(e))
  BY <1>1 DEF Moves
<1>3. \A f \in Ids : DueCount(f, TextsOf(e))' = DueCount(f, TextsOf(e))
  BY <1>1 DEF Moves
<1>4. Peer(e) # 0 => DueCount(Peer(e), TextsOf(e))' = DueCount(Peer(e), TextsOf(e))
  BY <1>1, <1>3
<1>5. QED
  BY <1>2, <1>4, UnreadFacts, UnreadNext

\* what c may owe its peer has not grown: a request may be lost, an answer not
LEMMA LessOwed ==
  ASSUME NEW c \in Ids, KeepsPairs, KeepsProcs, KeepsUnread,
         \A e \in Ids : (Sent(e, Answers)' <=> Sent(e, Answers)) /\ (AnswerDue(e)' <=> AnswerDue(e)),
         \A e \in Ids \ {c} : (Due(e, Asks)' <=> Due(e, Asks)) /\ proc'[e] = proc[e],
         Due(c, Asks)' \/ Holds(proc'[c]) => Due(c, Asks) \/ Holds(proc[c])
  PROVE  ProtocolStep
<1>1. \A e \in Ids \ {c} : Owed(e)' = Owed(e)
  BY DEF Owed
<1>2. Owed(c)' = Owed(c) \/ (Owed(c) = "request" /\ Owed(c)' = "nothing")
  BY DEF Owed
<1>3. CASE Owed(c)' = Owed(c)
  <2>1. KeepsOwed
    BY <1>1, <1>3 DEF KeepsOwed
  <2>2. QED
    BY <2>1, MapStutter
<1>4. CASE Owed(c) = "request" /\ Owed(c)' = "nothing"
  BY <1>1, <1>4, MapForget
<1>5. QED
  BY <1>2, <1>3, <1>4

\* nothing is owed that was not, nothing is not that was
LEMMA SameOwed ==
  ASSUME \A e \in Ids : /\ Sent(e, Answers)' <=> Sent(e, Answers)
                        /\ AnswerDue(e)' <=> AnswerDue(e)
                        /\ Due(e, Asks)' <=> Due(e, Asks)
                        /\ Holds(proc'[e]) <=> Holds(proc[e])
  PROVE  KeepsOwed
BY DEF KeepsOwed, Owed

LEMMA SilentMap ==
  ASSUME SystemInv, SystemInv', NEW c \in Ids, UNCHANGED serverVars, Client!Silent
  PROVE  /\ KeepsPairs /\ KeepsUnread
         /\ \A e \in Ids : /\ Sent(e, Answers)' <=> Sent(e, Answers)
                           /\ AnswerDue(e)' <=> AnswerDue(e)
                           /\ Due(e, Asks)' <=> Due(e, Asks)
<1>1. KeepsPairs /\ Moves({}, {})
  BY StillCounts DEF serverVars, KeepsPairs, Client!Silent
<1>2. KeepsUnread
  BY <1>1, UnreadStays DEF KeepsUnread
<1>3. QED
  BY <1>1, <1>2, OwedMessages

\* the steps that move no message and decide nothing
LEMMA QuietMaps ==
  ASSUME SystemInv, SystemInv', TalkInv, NEW c \in Ids, UNCHANGED serverVars, Client!Silent,
         OnlyProc(c), Local(proc[c], proc'[c]), Holds(proc'[c]) => Holds(proc[c])
  PROVE  ProtocolStep
<1>1. KeepsProcs
  BY DEF KeepsProcs, OnlyProc, Local
<1>2. QED
  BY <1>1, SilentMap, LessOwed DEF OnlyProc

LEMMA UiMaps ==
  ASSUME SystemInv, SystemInv', TalkInv, PromptedInv, UNCHANGED serverVars, NEW c \in Ids,
         Client!UiStep(c)
  PROVE  ProtocolStep
<1>0. /\ DOMAIN proc = Ids /\ DOMAIN proc[c] = Fields /\ Alive(proc[c])
      /\ Ours(proc[c], Peer(c)) /\ Prompted(proc[c])
      /\ Steady(proc[c], proc'[c], Peer(c)) /\ OnlyProc(c)
  BY ProcShape, TalkFacts, UiSteady DEF PromptedInv
<1>1. \A e \in Ids \ {c} : Local(proc[e], proc'[e]) /\ proc'[e] = proc[e]
  BY <1>0 DEF OnlyProc, Local
<1>2. CASE Client!SetRequest(c) \/ Client!LockAndWatch(c) \/ Client!TestRequest(c)
           \/ Client!Relock(c) \/ Client!CheckChat(c)
  <2>1. Local(proc[c], proc'[c]) /\ Client!Silent
    BY <1>0, <1>2
       DEF Fields, Local, ChatOf, Accepting, Client!SetRequest, Client!LockAndWatch,
           Client!TestRequest, Client!Relock, Client!CheckChat, Client!At, Client!Go
  <2>2. QED
    BY <1>0, <2>1, QuietMaps DEF Steady
<1>3. CASE Client!Join(c)
  <2>1. /\ Client!Silent /\ proc[c].ui = "join"
        /\ proc' = [proc EXCEPT ![c].ui = "prompt", ![c].muxConnect = "free", ![c].id = 0]
    BY <1>3 DEF Client!Join, Client!At
  <2>2. /\ proc'[c].ui = "prompt" /\ proc'[c].id = 0
        /\ proc'[c].ConnectedToId = proc[c].ConnectedToId
        /\ proc'[c].ConnectionRequestId = proc[c].ConnectionRequestId
        /\ proc'[c].executor = proc[c].executor
    BY <1>0, <2>1 DEF Fields
  <2>3. /\ ChatOf(proc[c]) = 0 /\ ChatOf(proc'[c]) = 0
        /\ ~ Accepting(proc[c]) /\ ~ Accepting(proc'[c])
    BY <1>0, <2>1, <2>2 DEF Ours, InChat, Asking, Pending, Waits, ChatOf, Accepting
  <2>4. Holds(proc'[c]) <=> Holds(proc[c])
    BY <2>1, <2>2 DEF Holds, Accepting, ChatOf, Asking, Pending, Waits, InChat
  <2>5. \A e \in Ids : Holds(proc'[e]) <=> Holds(proc[e])
    BY <1>1, <2>4
  <2>6. KeepsOwed /\ KeepsPairs /\ KeepsUnread
    BY <2>1, <2>5, SilentMap, SameOwed
  <2>7. ASSUME Peer(c) # 0 PROVE Owed(Peer(c)) = "nothing"
    <3>1. PICK d \in Ids : d = Peer(c) /\ Peer(d) = c
      BY <2>7, PeerTyped
    <3>2. ~ Waiting(c)
      BY <2>1 DEF Waiting, Asking, Pending, Waits
    <3>3. ~ Owes(d)
      BY <3>1, <3>2, PeerTyped DEF TalkInv, TalkClient
    <3>4. QED
      BY <3>1, <3>3 DEF Owes, Owed
  <2>8. QED
    BY <1>1, <2>1, <2>2, <2>3, <2>6, <2>7, MapStopAsking
<1>4. CASE Client!AcceptReads(c)
  <2>1. /\ Client!Silent /\ proc[c].ui = "accept"
        /\ proc' = [proc EXCEPT ![c].ui = "connect", ![c].connecting = proc[c].ConnectionRequestId]
    BY <1>4 DEF Client!AcceptReads, Client!At
  <2>2. Local(proc[c], proc'[c]) /\ ~ Holds(proc'[c])
    BY <1>0, <2>1 DEF Fields, Local, ChatOf, Accepting, Holds
  <2>3. QED
    BY <1>0, <2>1, <2>2, QuietMaps
<1>8. CASE Client!AcceptConnects(c)
  <2>1. /\ Client!Silent /\ proc[c].ui = "connect"
        /\ proc' = [proc EXCEPT ![c].ui = "chat", ![c].ConnectedToId = proc[c].connecting,
                                ![c].connecting = 0]
    BY <1>8 DEF Client!AcceptConnects, Client!At
  <2>2. /\ proc'[c].ui = "chat" /\ proc'[c].id = proc[c].id
        /\ proc'[c].ConnectedToId = proc[c].connecting
        /\ proc'[c].executor = proc[c].executor
    BY <1>0, <2>1 DEF Fields
  <2>3. /\ ChatOf(proc'[c]) \in {0, Peer(c)}
        /\ Accepting(proc[c]) /\ ~ Accepting(proc'[c])
    BY <1>0, <2>1, <2>2 DEF Ours, Asking, Pending, Waits, ChatOf, Accepting
  <2>4. ~ Holds(proc'[c]) /\ ~ Holds(proc[c])
    BY <2>1, <2>2 DEF Holds, Accepting, InChat
  <2>5. \A e \in Ids : Holds(proc'[e]) <=> Holds(proc[e])
    BY <1>1, <2>4
  <2>6. KeepsOwed /\ KeepsPairs /\ KeepsUnread
    BY <2>1, <2>5, SilentMap, SameOwed
  <2>7. QED
    BY <1>1, <2>2, <2>3, <2>6, MapOpen
<1>5. CASE Client!SendToClient(c)
  <2> DEFINE m == Client!Msg("TextClient", c)
  <2>1. /\ proc[c].ui = "send" /\ proc' = [proc EXCEPT ![c].ui = "chat"]
        /\ Client!Send(c, m) /\ m \in ClientMessage
    BY <1>5, MessagesTyped DEF Client!SendToClient, Client!At
  <2>2. m.id = "TextClient" /\ m.arg = c /\ m \in Message
    BY <2>1, OnItsWay DEF Client!Msg
  <2> HIDE DEF m
  <2>3. /\ m \notin Answers /\ m \in TextsOf(c) /\ \A e \in Ids \ {c} : m \notin TextsOf(e)
    BY <2>2 DEF Answers, TextsOf
  <2>4. KeepsPairs /\ UNCHANGED m_qMessagesIn
    BY DEF serverVars, KeepsPairs
  <2>5. /\ Moves({m}, {})
        /\ \A S \in SUBSET Message : SentCount(c, S)' = SentCount(c, S) + Bit(m, S)
    BY <2>1, <2>4, SendCounts
  <2>6. proc'[c].ui = "chat" /\ Local(proc[c], proc'[c]) /\ (Holds(proc'[c]) <=> Holds(proc[c]))
    BY <1>0, <2>1 DEF Fields, Local, Holds, Accepting, ChatOf, Asking, Pending, Waits, InChat
  <2>7. KeepsProcs
    BY <1>1, <2>6 DEF KeepsProcs
  <2>8. KeepsOwed
    BY <1>1, <2>3, <2>4, <2>5, <2>6, OwedMessages, SameOwed
  <2>9. \A e \in Ids \ {c} : Unread(e)' = Unread(e)
    BY <2>3, <2>4, <2>5, UnreadStays
  <2>10. Unread(c)' = Unread(c) + 1
    <3>1. Peer(c)' = Peer(c) /\ (Peer(c) # 0 => Peer(c) \in Ids)
      BY <2>4, PeerTyped DEF KeepsPairs, Peer
    <3>2. TextsOf(c) \in SUBSET Message
      BY MessageSets
    <3>3. SentCount(c, TextsOf(c))' = SentCount(c, TextsOf(c)) + 1 /\ SentCount(c, TextsOf(c)) \in Nat
      BY <2>3, <2>5, <3>2, CountFacts DEF Bit
    <3>4. \A e \in Ids : /\ DueCount(e, TextsOf(c))' = DueCount(e, TextsOf(c))
                         /\ DueCount(e, TextsOf(c)) \in Nat
      BY <2>5, <3>2, CountFacts DEF Moves
    <3>5. Peer(c) # 0 => /\ DueCount(Peer(c), TextsOf(c))' = DueCount(Peer(c), TextsOf(c))
                         /\ DueCount(Peer(c), TextsOf(c)) \in Nat
      BY <3>1, <3>4
    <3>6. QED
      BY <2>4, <3>3, <3>5, UnreadFacts, UnreadNext
  <2>11. ChatOf(proc[c]) # 0
    BY <1>0, <2>1 DEF Prompted, Ours, Asking, Pending, Waits, ChatOf
  <2>12. QED
    BY <2>4, <2>7, <2>8, <2>9, <2>10, <2>11, MapSay
<1>6. CASE Client!CloseChat(c) \/ Client!ClearConnected(c) \/ Client!ResetRequest(c)
  BY <1>0, <1>6 DEF Alive, Client!CloseChat, Client!ClearConnected, Client!ResetRequest, Client!At
<1>7. QED
  BY <1>2, <1>3, <1>4, <1>5, <1>6, <1>8 DEF Client!UiStep

LEMMA WatcherMaps ==
  ASSUME SystemInv, SystemInv', TalkInv, PromptedInv, UNCHANGED serverVars, NEW c \in Ids,
         \/ Client!WatcherStep(c) \/ Client!EnterStep(c) \/ Client!SpuriousWakeup(c)
         \/ Client!Accepted(c) \/ Client!AcceptedNotifies(c) \/ Client!ChatLine(c, "Text", "send")
  PROVE  ProtocolStep
<1>0. /\ DOMAIN proc = Ids /\ DOMAIN proc[c] = Fields
      /\ Steady(proc[c], proc'[c], Peer(c)) /\ OnlyProc(c) /\ Client!Silent
      /\ Alive(proc[c])
  BY ProcShape, WatcherSteady, TalkFacts
<1>1. Local(proc[c], proc'[c])
  <2> USE DEF Local, ChatOf, Accepting, Fields, Client!At, Client!Go, Client!Notified
  <2>1. CASE Client!WatcherStep(c)
    <3>1. CASE Client!WatchAgain(c) \/ Client!WatchEnds(c)
      BY <1>0, <3>1 DEF Client!WatchAgain, Client!WatchEnds
    <3>2. CASE Client!WatchClear(c) \/ Client!WatchReset(c) \/ Client!WatchNotify(c)
      BY <1>0, <3>2 DEF Client!WatchClear, Client!WatchReset, Client!WatchNotify, Alive
    <3>3. QED
      BY <2>1, <3>1, <3>2 DEF Client!WatcherStep
  <2>2. CASE Client!EnterStep(c)
    BY <1>0, <2>2 DEF Client!EnterStep, Client!WatchEnter, Client!LeaveChat
  <2>3. CASE Client!SpuriousWakeup(c)
    BY <1>0, <2>3 DEF Client!SpuriousWakeup
  <2>4. CASE Client!AcceptedNotifies(c)
    BY <1>0, <2>4 DEF Client!AcceptedNotifies, Client!RequestOver
  <2>5. CASE Client!ChatLine(c, "Text", "send")
    BY <1>0, <2>5 DEF Client!ChatLine
  <2>6. CASE Client!Accepted(c)
    BY <1>0, <2>6 DEF Client!Accepted
  <2>7. QED
    BY <2>1, <2>2, <2>3, <2>4, <2>5, <2>6
<1>2. QED
  BY <1>0, <1>1, QuietMaps DEF Steady

\* what a user sends, other than a text
LEMMA SendMap ==
  ASSUME SystemInv, SystemInv', NEW c \in Ids, UNCHANGED serverVars,
         NEW m \in ClientMessage, Client!Send(c, m), m.id # "TextClient"
  PROVE  /\ KeepsPairs /\ KeepsUnread
         /\ \A e \in Ids : AnswerDue(e)' <=> AnswerDue(e)
         /\ \A e \in Ids : Due(e, Asks)' <=> Due(e, Asks)
         /\ \A e \in Ids : e # c \/ m \notin Answers => (Sent(e, Answers)' <=> Sent(e, Answers))
         /\ m \in Answers => Sent(c, Answers)'
<1>1. /\ KeepsPairs /\ Moves({m}, {}) /\ UNCHANGED m_qMessagesIn
      /\ \A S \in SUBSET Message : SentCount(c, S)' = SentCount(c, S) + Bit(m, S)
      /\ \A e \in Ids \ {c} : \A S \in SUBSET Message : SentCount(e, S)' = SentCount(e, S)
  BY SendCounts DEF serverVars, KeepsPairs
<1>2. \A e \in Ids : m \notin TextsOf(e)
  BY DEF TextsOf
<1>3. KeepsUnread
  BY <1>1, <1>2, UnreadStays DEF KeepsUnread
<1>4. \A e \in Ids : \A S \in SUBSET Message : DueCount(e, S)' = DueCount(e, S)
  BY <1>1 DEF Moves
<1>5. /\ \A e \in Ids : \A S \in SUBSET Message : (Due(e, S)' <=> Due(e, S))
      /\ \A e \in Ids : \A S \in SUBSET Message :
           SentCount(e, S)' = SentCount(e, S) => (Sent(e, S)' <=> Sent(e, S))
  BY <1>4, CountFacts, CountsNext DEF CountsRight
<1>6. \A e \in Ids : AnswerDue(e)' <=> AnswerDue(e)
  <2>1. \A e \in Ids : Peer(e)' = Peer(e) /\ (Peer(e) # 0 => Peer(e) \in Ids)
    BY <1>1, PeerTyped DEF KeepsPairs, Peer
  <2>2. \A e \in Ids : Due(e, Answers)' <=> Due(e, Answers)
    BY <1>5, MessageSets
  <2>3. QED
    BY <2>1, <2>2 DEF AnswerDue
<1>7. \A e \in Ids : e # c \/ m \notin Answers => (Sent(e, Answers)' <=> Sent(e, Answers))
  <2>1. \A e \in Ids : e # c \/ m \notin Answers => SentCount(e, Answers)' = SentCount(e, Answers)
    BY <1>1, MessageSets DEF Moves
  <2>2. QED
    BY <1>5, <2>1, MessageSets
<1>8. ASSUME m \in Answers PROVE Sent(c, Answers)'
  <2>1. SentCount(c, Answers)' = SentCount(c, Answers) + 1 /\ SentCount(c, Answers) \in Nat
    BY <1>1, <1>8, CountFacts, MessageSets DEF Bit
  <2>2. SentCount(c, Answers)' # 0
    BY <2>1
  <2>3. QED
    BY <2>2, CountsNext, MessageSets DEF CountsRight
<1>9. QED
  BY <1>1, <1>3, <1>5, <1>6, <1>7, <1>8, MessageSets

LEMMA UserMaps ==
  ASSUME SystemInv, SystemInv', TalkInv, PromptedInv, UNCHANGED serverVars, NEW c \in Ids,
         \/ Client!Ask(c) \/ Client!Accept(c)
         \/ \E id \in Ids \cup OtherIds : Client!ConnectTo(c, id)
  PROVE  ProtocolStep
<1>0. /\ DOMAIN proc = Ids /\ DOMAIN proc[c] = Fields
      /\ Ours(proc[c], Peer(c)) /\ Prompted(proc[c]) /\ proc[c].ui = "prompt"
  BY ProcShape, TalkFacts
     DEF PromptedInv, Client!Ask, Client!Accept, Client!ConnectTo, Client!Typed, Client!At
<1>1. proc[c].id = 0 /\ ~ Accepting(proc[c]) /\ ChatOf(proc[c]) = 0
  BY <1>0 DEF Ours, Prompted, InChat, Asking, Pending, Waits, Accepting, ChatOf
<1>2. CASE Client!Ask(c)
  <2>1. PICK ask \in {<<"Ping", "ServerPing">>, <<"HelloAll", "MessageAll">>,
                       <<"Clients", "ClientList">>} :
          Client!Typed(c, ask[1], "prompt") /\ Client!Send(c, Client!Msg(ask[2], 0))
    BY <1>2 DEF Client!Ask
  <2> DEFINE m == Client!Msg(ask[2], 0)
  <2>2. ask[2] \in {"ServerPing", "MessageAll", "ClientList"}
    OBVIOUS
  <2>3. m \in ClientMessage /\ Client!Send(c, m)
    BY <2>1, <2>2, MessagesTyped
  <2>4. m.id # "TextClient" /\ m \notin Answers
    BY <2>2 DEF Client!Msg, Answers
  <2> HIDE DEF m
  <2>5. proc' = [proc EXCEPT ![c].typed = proc[c].typed + 1, ![c].ui = "prompt"]
    BY <2>1 DEF Client!Typed
  <2>6. /\ Local(proc[c], proc'[c]) /\ \A e \in Ids \ {c} : proc'[e] = proc[e]
        /\ Holds(proc'[c]) <=> Holds(proc[c])
    BY <1>0, <2>5 DEF Fields, Local, Holds, Accepting, ChatOf, Asking, Pending, Waits, InChat
  <2>7. KeepsProcs /\ \A e \in Ids : Holds(proc'[e]) <=> Holds(proc[e])
    BY <2>6 DEF KeepsProcs, Local
  <2>8. KeepsOwed /\ KeepsPairs /\ KeepsUnread
    BY <2>3, <2>4, <2>7, SendMap, SameOwed
  <2>9. QED
    BY <2>7, <2>8, MapStutter
<1>3. CASE Client!Accept(c)
  <2> DEFINE m == Client!Msg("RequestAnswer", 1)
  <2>1. m \in ClientMessage /\ Client!Send(c, m)
    BY <1>3, MessagesTyped DEF Client!Accept
  <2>2. m.id # "TextClient" /\ m \in Answers
    BY <2>1, OnItsWay DEF Client!Msg, Answers
  <2> HIDE DEF m
  <2>3. /\ proc' = [proc EXCEPT ![c].typed = proc[c].typed + 1, ![c].ui = "accept"]
        /\ proc[c].ConnectionRequestId # 0
    BY <1>3 DEF Client!Accept, Client!Typed, Client!IsClientId, Client!FirstId
  <2>4. /\ Accepting(proc'[c]) /\ proc'[c].id = 0 /\ ChatOf(proc'[c]) = 0
        /\ \A e \in Ids \ {c} : proc'[e] = proc[e]
    BY <1>0, <1>1, <2>3 DEF Fields, Accepting, ChatOf
  <2>5. Holds(proc[c])
    BY <1>0, <2>3 DEF Holds, Accepting, ChatOf, Asking, Pending, Waits, InChat
  <2>6. ~ Sent(c, Answers) /\ ~ AnswerDue(c)
    BY <2>5 DEF TalkInv, TalkClient, OneAnswer
  <2>7. KeepsPairs /\ KeepsUnread /\ \A e \in Ids \ {c} : Owed(e)' = Owed(e)
    BY <2>1, <2>2, <2>4, SendMap DEF Owed
  <2>8. Owed(c) = "request"
    BY <2>5, <2>6 DEF Owed
  <2>9. Owed(c)' = "answer"
    BY <2>1, <2>2, SendMap DEF Owed
  <2>10. QED
    BY <1>0, <1>1, <2>4, <2>7, <2>8, <2>9, MapAccept DEF Local
<1>4. ASSUME NEW id \in Ids \cup OtherIds, Client!ConnectTo(c, id) PROVE ProtocolStep
  <2> DEFINE m == Client!Msg("RequestToClient", id)
  <2>1. m \in ClientMessage /\ Client!Send(c, m)
    BY <1>4, MessagesTyped DEF Client!ConnectTo
  <2>2. m.id # "TextClient" /\ m \notin Answers
    BY DEF Client!Msg, Answers
  <2> HIDE DEF m
  <2>3. proc' = [proc EXCEPT ![c].typed = proc[c].typed + 1, ![c].ui = "setRequest", ![c].id = id]
    BY <1>4 DEF Client!ConnectTo
  <2>4. /\ proc'[c].ui = "setRequest" /\ proc'[c].id = id /\ ChatOf(proc'[c]) = 0
        /\ proc'[c].ConnectionRequestId = proc[c].ConnectionRequestId
        /\ ~ Accepting(proc'[c])
        /\ \A e \in Ids \ {c} : proc'[e] = proc[e]
    BY <1>0, <1>1, <2>3 DEF Fields, Accepting, ChatOf
  <2>5. Holds(proc'[c]) <=> Holds(proc[c])
    BY <1>0, <2>4 DEF Holds, Accepting, ChatOf, Asking, Pending, Waits, InChat
  <2>6. \A e \in Ids : Holds(proc'[e]) <=> Holds(proc[e])
    BY <2>4, <2>5
  <2>7. KeepsOwed /\ KeepsPairs /\ KeepsUnread
    BY <2>1, <2>2, <2>6, SendMap, SameOwed
  <2>8. QED
    BY <1>0, <1>1, <2>4, <2>7, MapAsk DEF Local
<1>5. QED
  BY <1>2, <1>3, <1>4

-----------------------------------------------------------------------------
(* The executor *)

LEMMA ReadMap ==
  ASSUME SystemInv, SystemInv', NEW c \in Ids, NEW types, Client!Pops(c, types),
         UNCHANGED serverVars
  PROVE  /\ KeepsPairs /\ Head(toClient[c]) \in Message
         /\ \A S \in SUBSET Message : Head(toClient[c]) \notin S =>
              (Due(c, S)' <=> Due(c, S))
         /\ \A e \in Ids : (Sent(e, Answers)' <=> Sent(e, Answers))
         /\ \A e \in Ids \ {c} : (Due(e, Asks)' <=> Due(e, Asks))
         /\ \A e \in Ids : Head(toClient[c]) \notin Answers \/ Peer(e) # c =>
              (AnswerDue(e)' <=> AnswerDue(e))
         /\ \A e \in Ids : Head(toClient[c]) \notin TextsOf(e) => Unread(e)' = Unread(e)
<1> DEFINE m == Head(toClient[c])
<1>1. KeepsPairs /\ UNCHANGED m_qMessagesIn
  BY DEF serverVars, KeepsPairs
<1>2. Moves({}, {m}) /\ m \in Message
      /\ \A e \in Ids \ {c} : \A S \in SUBSET Message : DueCount(e, S)' = DueCount(e, S)
  BY <1>1, PopCounts, PopsTake
<1> HIDE DEF m
<1>3. /\ \A e \in Ids : \A S \in SUBSET Message :
           DueCount(e, S)' = DueCount(e, S) => (Due(e, S)' <=> Due(e, S))
      /\ \A e \in Ids : \A S \in SUBSET Message :
           SentCount(e, S)' = SentCount(e, S) => (Sent(e, S)' <=> Sent(e, S))
  BY CountFacts, CountsNext DEF CountsRight
<1>4. \A e \in Ids : \A S \in SUBSET Message : m \notin S \/ e # c => (Due(e, S)' <=> Due(e, S))
  BY <1>2, <1>3 DEF Moves
<1>5. \A e \in Ids : Sent(e, Answers)' <=> Sent(e, Answers)
  BY <1>2, <1>3, MessageSets DEF Moves
<1>6. \A e \in Ids : m \notin Answers \/ Peer(e) # c => (AnswerDue(e)' <=> AnswerDue(e))
  <2>1. \A e \in Ids : Peer(e)' = Peer(e) /\ (Peer(e) # 0 => Peer(e) \in Ids)
    BY <1>1, PeerTyped DEF KeepsPairs, Peer
  <2>2. \A e \in Ids : m \notin Answers \/ e # c => (Due(e, Answers)' <=> Due(e, Answers))
    BY <1>4, MessageSets
  <2>3. QED
    BY <2>1, <2>2 DEF AnswerDue
<1>7. \A e \in Ids : m \notin TextsOf(e) => Unread(e)' = Unread(e)
  BY <1>1, <1>2, UnreadStays
<1>8. QED
  BY <1>1, <1>2, <1>4, <1>5, <1>6, <1>7, MessageSets DEF m

LEMMA ShownMaps ==
  ASSUME SystemInv, SystemInv', TalkInv, UNCHANGED serverVars, NEW c \in Ids, Client!Shown(c)
  PROVE  ProtocolStep
<1> DEFINE m == Head(toClient[c])
           types == {"ServerPing", "ServerMessage", "ServerAccept", "ClientList", "TextClient"}
<1>1. Client!Pops(c, types) /\ proc' = proc
  BY DEF Client!Shown
<1>2. m \in Message /\ m.id \in types
  BY <1>1, PopsTake
<1>3. m \notin Answers /\ m \notin Asks /\ \A id : m \in TextsOf(id) <=> m.id = "TextClient" /\ m.arg = id
  BY <1>2 DEF Answers, Asks, Requests, TextsOf
<1> HIDE DEF m, types
<1>4. /\ KeepsPairs
      /\ \A S \in SUBSET Message : m \notin S => (Due(c, S)' <=> Due(c, S))
      /\ \A e \in Ids : (Sent(e, Answers)' <=> Sent(e, Answers))
      /\ \A e \in Ids \ {c} : (Due(e, Asks)' <=> Due(e, Asks))
      /\ \A e \in Ids : m \notin Answers => (AnswerDue(e)' <=> AnswerDue(e))
      /\ \A e \in Ids : m \notin TextsOf(e) => Unread(e)' = Unread(e)
  BY <1>1, ReadMap DEF m
<1>5. KeepsProcs /\ \A e \in Ids : Holds(proc'[e]) <=> Holds(proc[e])
  BY <1>1 DEF KeepsProcs, Local
<1>6. KeepsOwed
  BY <1>3, <1>4, <1>5, MessageSets, SameOwed
<1>7. CASE m.id # "TextClient"
  <2>1. KeepsUnread
    BY <1>3, <1>4, <1>7 DEF KeepsUnread
  <2>2. QED
    BY <1>4, <1>5, <1>6, <2>1, MapStutter
<1>8. CASE m.id = "TextClient"
  <2>1. m.arg \in Args /\ m \in TextsOf(m.arg)
    BY <1>2, <1>3, <1>8 DEF Message
  <2>2. Due(c, TextsOf(m.arg))
    BY <1>1, <2>1, PopsTake, MessageSets DEF m
  <2>3. PICK d \in Ids : d = m.arg /\ d = Peer(c)
    BY <2>1, <2>2 DEF TalkInv, TalkClient, Signed
  <2>4. d # 0 /\ Peer(d) = c /\ c # 0 /\ Peer(d)' = c /\ TextsOf(d) \in SUBSET Message
    BY <1>4, <2>3, PeerTyped, MessageSets DEF KeepsPairs, Peer
  <2>5. m \in TextsOf(d) /\ \A e \in Ids \ {d} : Unread(e)' = Unread(e)
    BY <1>3, <1>4, <1>8, <2>3
  <2>6. /\ DueCount(c, TextsOf(d)) = DueCount(c, TextsOf(d))' + 1
        /\ SentCount(d, TextsOf(d))' = SentCount(d, TextsOf(d))
    <3>1. UNCHANGED m_qMessagesIn
      BY DEF serverVars
    <3>2. /\ DueCount(c, TextsOf(d)) = DueCount(c, TextsOf(d))' + Bit(m, TextsOf(d))
          /\ Moves({}, {m})
      BY <1>1, <2>4, <3>1, PopCounts DEF m
    <3>3. QED
      BY <2>4, <2>5, <3>2 DEF Bit, Moves
  <2>7. /\ DueCount(c, TextsOf(d))' \in Nat /\ SentCount(d, TextsOf(d)) \in Nat
    BY <2>4, CountFacts, CountsNext DEF CountsRight
  <2>8. Unread(d) = SentCount(d, TextsOf(d)) + DueCount(c, TextsOf(d))
    BY <2>4, UnreadFacts
  <2>9. Unread(d)' = SentCount(d, TextsOf(d))' + DueCount(c, TextsOf(d))'
    BY <1>4, <2>4, UnreadNext
  <2>10. Unread(d) > 0 /\ Unread(d)' = Unread(d) - 1
    BY <2>6, <2>7, <2>8, <2>9
  <2>11. QED
    BY <1>4, <1>5, <1>6, <2>3, <2>4, <2>5, <2>10, MapRead
<1>9. QED
  BY <1>7, <1>8

LEMMA RequestReadMaps ==
  ASSUME SystemInv, SystemInv', TalkInv, UNCHANGED serverVars, NEW c \in Ids,
         Client!Refused(c) \/ Client!Requested(c)
  PROVE  ProtocolStep
<1> DEFINE m == Head(toClient[c])
<1>0. DOMAIN proc = Ids /\ DOMAIN proc[c] = Fields
  BY ProcShape
<1>1. Client!Pops(c, {"RequestToClient"})
  BY DEF Client!Refused, Client!Requested
<1>2. m \in Message /\ m.id = "RequestToClient"
  BY <1>1, PopsTake
<1>3. m \notin Answers /\ \A e : m \notin TextsOf(e)
  BY <1>2 DEF Answers, TextsOf
<1>4. m \in Asks => Due(c, Asks)
  BY <1>1, PopsTake, MessageSets
<1> HIDE DEF m
<1>5. /\ KeepsPairs
      /\ \A S \in SUBSET Message : m \notin S => (Due(c, S)' <=> Due(c, S))
      /\ \A e \in Ids : (Sent(e, Answers)' <=> Sent(e, Answers))
      /\ \A e \in Ids \ {c} : (Due(e, Asks)' <=> Due(e, Asks))
      /\ \A e \in Ids : m \notin Answers => (AnswerDue(e)' <=> AnswerDue(e))
      /\ \A e \in Ids : m \notin TextsOf(e) => Unread(e)' = Unread(e)
  BY <1>1, ReadMap DEF m
<1>6. KeepsUnread
  BY <1>3, <1>5 DEF KeepsUnread
<1>7. CASE Client!Refused(c)
  <2>1. /\ proc' = [proc EXCEPT ![c].executor = "idle", ![c].ConnectionRequestId = 0,
                                ![c].ui = Client!Notified(proc[c].ui)]
        /\ Client!arg(c) \in {NotFound, Busy} /\ proc[c].executor = "idle"
    BY <1>7 DEF Client!Pops, Client!Refused, Client!RequestOver, Client!NotFound, NotFound, Client!Busy, Busy
  <2>2. /\ Local(proc[c], proc'[c]) /\ ~ Holds(proc'[c])
        /\ \A e \in Ids \ {c} : proc'[e] = proc[e]
    BY <1>0, <2>1 DEF Fields, Local, ChatOf, Accepting, Holds, Client!Notified
  <2>3. m \notin Asks
    BY <2>1 DEF m, Client!arg, Asks
  <2>4. KeepsProcs
    BY <2>2 DEF KeepsProcs, Local
  <2>5. Due(c, Asks)' => Due(c, Asks)
    BY <1>5, <2>3, MessageSets
  <2>6. QED
    BY <1>3, <1>5, <1>6, <2>2, <2>4, <2>5, LessOwed
<1>8. CASE Client!Requested(c)
  <2>1. /\ proc' = [proc EXCEPT ![c].ConnectionRequestId = Client!arg(c)]
        /\ Client!arg(c) \notin {NotFound, Busy}
    BY <1>8 DEF Client!Requested, Client!NotFound, NotFound, Client!Busy, Busy
  <2>2. Local(proc[c], proc'[c]) /\ \A e \in Ids \ {c} : proc'[e] = proc[e]
    BY <1>0, <2>1 DEF Fields, Local, ChatOf, Accepting
  <2>3. m \in Asks
    BY <1>2, <2>1 DEF m, Client!arg, Asks, Requests
  <2>4. KeepsProcs
    BY <2>2 DEF KeepsProcs, Local
  <2>5. QED
    BY <1>3, <1>4, <1>5, <1>6, <2>2, <2>3, <2>4, LessOwed
<1>9. QED
  BY <1>7, <1>8

LEMMA AnswerReadMaps ==
  ASSUME SystemInv, SystemInv', TalkInv, TalkInv', UNCHANGED serverVars, NEW c \in Ids,
         Client!Answered(c) \/ Client!Declined(c)
  PROVE  ProtocolStep
<1> DEFINE m == Head(toClient[c])
<1>0. DOMAIN proc = Ids /\ DOMAIN proc[c] = Fields
  BY ProcShape
<1>1. Client!Pops(c, {"RequestAnswer"})
  BY DEF Client!Answered, Client!Declined
<1>2. m \in Message /\ m.id = "RequestAnswer"
  BY <1>1, PopsTake
<1>3. m \notin Asks /\ m \in Answers /\ \A e : m \notin TextsOf(e)
  BY <1>2 DEF Answers, Asks, Requests, TextsOf
<1>4. Due(c, Answers) /\ (DueOnce(c, Answers) => ~ Due(c, Answers)')
  BY <1>1, <1>3, PopsTake, MessageSets
<1> HIDE DEF m
<1>5. /\ KeepsPairs
      /\ \A S \in SUBSET Message : m \notin S => (Due(c, S)' <=> Due(c, S))
      /\ \A e \in Ids : (Sent(e, Answers)' <=> Sent(e, Answers))
      /\ \A e \in Ids \ {c} : (Due(e, Asks)' <=> Due(e, Asks))
      /\ \A e \in Ids : Peer(e) # c => (AnswerDue(e)' <=> AnswerDue(e))
      /\ \A e \in Ids : m \notin TextsOf(e) => Unread(e)' = Unread(e)
  BY <1>1, ReadMap DEF m
<1>6. KeepsUnread
  BY <1>3, <1>5 DEF KeepsUnread
<1>7. PICK d \in Ids \ {c} : d = Peer(c) /\ Peer(d) = c /\ d # 0
  BY ReadsAnswer
<1>8. /\ AnswerDue(d) /\ Waiting(c) /\ Asking(proc[c]) /\ proc[c].id = d
      /\ ChatOf(proc[c]) = 0 /\ proc[c].ConnectedToId = 0
      /\ proc[c].ConnectionRequestId \in {0, d}
  BY <1>7, ReadsAnswer DEF Waiting, Asking, Pending, ChatOf
<1>9. /\ \A e \in Ids \ {c} : proc'[e] = proc[e]
      /\ proc'[c].id = proc[c].id /\ (Accepting(proc'[c]) <=> Accepting(proc[c]))
      /\ ChatOf(proc'[c]) \in {0, d} /\ (Holds(proc'[c]) <=> Holds(proc[c]))
  <2>1. CASE Client!Answered(c)
    <3>1. proc' = [proc EXCEPT ![c].executor = "answered",
                               ![c].answered = proc[c].ConnectionRequestId]
      BY <2>1 DEF Client!Answered
    <3>2. QED
      BY <1>0, <1>8, <3>1 DEF Fields, Holds, Asking, Pending, Waits, Accepting, ChatOf
  <2>2. CASE Client!Declined(c)
    <3>1. proc' = [proc EXCEPT ![c].executor = "idle", ![c].ConnectionRequestId = 0,
                               ![c].ui = Client!Notified(proc[c].ui)]
      BY <2>2 DEF Client!Declined, Client!RequestOver
    <3>2. QED
      BY <1>0, <1>8, <3>1
         DEF Client!Notified, Fields, Holds, Asking, Pending, Waits, Accepting, ChatOf
  <2>3. QED
    BY <2>1, <2>2
<1>10. Owed(d) = "answer"
  BY <1>8 DEF Owed
<1>11. Owed(d)' = "nothing"
  <2>1. Peer(d)' = c /\ c # 0
    BY <1>5, <1>7, PeerTyped DEF KeepsPairs, Peer
  <2>2. ~ AnswerDue(d)'
    BY <1>4, <2>1 DEF AnswerDue, TalkInv, TalkClient, OneAnswer
  <2>3. ~ Sent(d, Answers) /\ ~ Due(d, Asks) /\ ~ Holds(proc[d])
    BY <1>7, <1>8 DEF TalkInv, TalkClient, OneAnswer
  <2>4. ~ Sent(d, Answers)' /\ ~ Due(d, Asks)' /\ ~ Holds(proc'[d])
    BY <1>5, <1>9, <2>3
  <2>5. QED
    BY <2>2, <2>4 DEF Owed
<1>12. ASSUME NEW e \in Ids \ {d} PROVE Owed(e)' = Owed(e)
  <2>1. Peer(e) # c
    BY <1>7, PeerTyped
  <2>2. Due(e, Asks)' <=> Due(e, Asks)
    BY <1>3, <1>5, MessageSets
  <2>3. Holds(proc'[e]) <=> Holds(proc[e])
    BY <1>9
  <2>4. QED
    BY <1>5, <2>1, <2>2, <2>3 DEF Owed
<1>13. QED
  BY <1>5, <1>6, <1>7, <1>8, <1>9, <1>10, <1>11, <1>12, MapConnect DEF Local

-----------------------------------------------------------------------------
(* The server's threads *)

LEMMA ArriveMaps ==
  ASSUME SystemInv, SystemInv', NEW c \in Ids, Arrive(c)
  PROVE  ProtocolStep
<1>1. KeepsPairs /\ proc' = proc /\ Moves({}, {})
  BY ArriveCounts DEF Arrive, Server!Receive, KeepsPairs
<1>2. KeepsProcs
  BY <1>1 DEF KeepsProcs, Local
<1>3. KeepsUnread
  BY <1>1, UnreadStays DEF KeepsUnread
<1>4. KeepsOwed
  BY <1>1, OwedMessages, SameOwed
<1>5. QED
  BY <1>1, <1>2, <1>3, <1>4, MapStutter

LEMMA HandleMoves ==
  ASSUME SystemInv, SystemInv', TalkInv, Handle
  PROVE  Moves({Server!msg}, {p.msg : p \in posted'})
<1> SUFFICES ASSUME NEW e \in Ids, NEW S \in SUBSET Message
             PROVE  /\ S \cap {Server!msg} = {} => SentCount(e, S)' = SentCount(e, S)
                    /\ S \cap {p.msg : p \in posted'} = {} => DueCount(e, S)' = DueCount(e, S)
  BY DEF Moves
<1>1. SentCount(e, S)' \in Nat
  BY CountsNext DEF CountsRight
<1>2. SentCount(e, S) = SentCount(e, S)' + (IF e = Server!client /\ Server!msg \in S THEN 1 ELSE 0)
  BY HandleCounts
<1>3. S \cap {Server!msg} = {} => Server!msg \notin S
  OBVIOUS
<1>4. S \cap {p.msg : p \in posted'} = {} => \A p \in posted' : p.msg \notin S
  OBVIOUS
<1>5. QED
  BY <1>1, <1>2, <1>3, <1>4, DeliverCounts

\* The server answers a client, or sends to all, or refuses a request.
LEMMA PlainMaps ==
  ASSUME SystemInv, SystemInv', TalkInv, Handle, KeepsPairs,
         Server!msg.id \notin {"RequestAnswer", "TextClient"},
         \A p \in posted' : /\ p.msg \notin Asks
                            /\ p.msg.id \notin {"RequestAnswer", "TextClient"}
  PROVE  ProtocolStep
<1> DEFINE M == {Server!msg}
           N == {p.msg : p \in posted'}
<1>1. Moves(M, N)
  BY HandleMoves
<1>2. /\ M \cap Answers = {} /\ N \cap Answers = {} /\ N \cap Asks = {}
      /\ \A e \in Ids : TextsOf(e) \cap M = {} /\ TextsOf(e) \cap N = {}
  BY DEF Answers, TextsOf
<1> HIDE DEF M, N
<1>3. proc' = proc
  BY DEF Handle
<1>4. KeepsProcs
  BY <1>3 DEF KeepsProcs, Local
<1>5. KeepsUnread
  BY <1>1, <1>2, UnreadStays DEF KeepsUnread
<1>6. KeepsOwed
  BY <1>1, <1>2, <1>3, OwedMessages, SameOwed
<1>7. QED
  BY <1>4, <1>5, <1>6, MapStutter

LEMMA PlainHandledMaps ==
  ASSUME SystemInv, SystemInv', TalkInv, Handle,
         Server!OnServerPing \/ Server!OnMessageAll \/ Server!OnClientList
  PROVE  ProtocolStep
<1>1. KeepsPairs
  BY DEF KeepsPairs, Server!OnServerPing, Server!OnMessageAll, Server!OnClientList
<1>2. Server!msg.id \in {"ServerPing", "MessageAll", "ClientList"}
  BY DEF Server!OnServerPing, Server!OnMessageAll, Server!OnClientList, Server!Pop, Server!msg
<1>3. \A p \in posted' : p.msg.id \in {"ServerPing", "ServerMessage", "ClientList"}
  <2>1. CASE Server!OnServerPing
    BY <2>1 DEF Server!OnServerPing, Server!Pop, Server!msg, Server!To
  <2>2. CASE Server!OnMessageAll
    BY <2>2 DEF Server!OnMessageAll, Server!MessageAllClient, Server!To, Server!Msg
  <2>3. CASE Server!OnClientList
    BY <2>3 DEF Server!OnClientList, Server!To, Server!ListMsg
  <2>4. QED
    BY <2>1, <2>2, <2>3
<1>4. \A p \in posted' : p.msg \notin Asks
  BY <1>3 DEF Asks, Requests
<1>5. QED
  BY <1>1, <1>2, <1>3, <1>4, PlainMaps

\* one message is posted, to client b
LEMMA PostedOne ==
  ASSUME SystemInv, SystemInv', TalkInv, Handle, NEW b \in Ids, NEW m, posted' = {Server!To(b, m)}
  PROVE  /\ \A S \in SUBSET Message : DueCount(b, S)' = DueCount(b, S) + Bit(m, S)
         /\ \A e \in Ids \ {b} : \A S \in SUBSET Message : DueCount(e, S)' = DueCount(e, S)
<1>1. Server!To(b, m) \in posted' /\ \A p \in posted' : p.to = b /\ p.msg = m
  BY DEF Server!To
<1>2. QED
  BY <1>1, DeliverCounts

\* a text of k is now on the connection of its peer b
LEMMA TextMaps ==
  ASSUME SystemInv, SystemInv', TalkInv, Handle, Server!OnTextClient
  PROVE  ProtocolStep
<1>1. PICK k \in Ids : k = Server!client
  BY HandleTakes
<1>2. PICK m \in Message : m = Server!msg
  BY HandleTakes
<1>3. Server!Peer = Peer(k) /\ Peer(k) # 0 /\ m.id = "TextClient"
  BY <1>1, <1>2 DEF Server!OnTextClient, Server!PeerPop, Server!Pop, Server!Paired,
                    Server!NoPeer, Server!Peer, Peer, Server!msg
<1>4. PICK b \in Ids \ {k} : b = Peer(k) /\ Peer(b) = k
  BY <1>3, PeerTyped
<1>5. Ids \subseteq m_dequeConnections /\ Server!IsConnected(Server!Peer)
  BY <1>3, <1>4, AllHeld DEF Server!Live
<1>6. KeepsPairs /\ posted' = {Server!To(c, m) : c \in m_dequeConnections \cap {b}}
  BY <1>2, <1>3, <1>4, <1>5 DEF Server!OnTextClient, KeepsPairs
<1>7. posted' = {Server!To(b, m)}
  BY <1>4, <1>5, <1>6
<1>8. m.arg \in Args /\ m \in TextsOf(m.arg)
  BY <1>3 DEF Message, TextsOf
<1>9. Sent(k, TextsOf(m.arg))
  BY <1>1, <1>2, <1>8, HandleTakes, MessageSets
<1>10. m.arg = k
  BY <1>8, <1>9 DEF TalkInv, TalkClient, Signed
<1>11. /\ m \notin Answers /\ m \notin Asks /\ m \in TextsOf(k)
       /\ \A e \in Ids \ {k} : m \notin TextsOf(e)
  BY <1>3, <1>8, <1>10 DEF Answers, Asks, Requests, TextsOf
<1> DEFINE M == {Server!msg}
           N == {p.msg : p \in posted'}
<1>12. Moves(M, N)
  BY HandleMoves
<1>13. M = {m} /\ N = {m}
  BY <1>2, <1>7 DEF Server!To
<1> HIDE DEF M, N
<1>14. proc' = proc
  BY DEF Handle
<1>15. KeepsProcs
  BY <1>14 DEF KeepsProcs, Local
<1>16. KeepsOwed
  <2>1. M \cap Answers = {} /\ N \cap Answers = {} /\ N \cap Asks = {}
    BY <1>11, <1>13
  <2>2. QED
    BY <1>6, <1>12, <1>14, <2>1, OwedMessages, SameOwed
<1>17. \A e \in Ids \ {k} : Unread(e)' = Unread(e)
  <2>1. \A e \in Ids \ {k} : TextsOf(e) \cap M = {} /\ TextsOf(e) \cap N = {}
    BY <1>11, <1>13
  <2>2. QED
    BY <1>6, <1>12, <2>1, UnreadStays
<1>18. Unread(k)' = Unread(k)
  <2>1. TextsOf(k) \in SUBSET Message
    BY MessageSets
  <2>2. SentCount(k, TextsOf(k)) = SentCount(k, TextsOf(k))' + 1
    BY <1>1, <1>2, <1>11, <2>1, HandleCounts
  <2>3. DueCount(b, TextsOf(k))' = DueCount(b, TextsOf(k)) + 1
    BY <1>7, <1>11, <2>1, PostedOne DEF Bit
  <2>4. SentCount(k, TextsOf(k))' \in Nat /\ DueCount(b, TextsOf(k)) \in Nat
    BY <2>1, CountFacts, CountsNext DEF CountsRight
  <2>5. Unread(k) = SentCount(k, TextsOf(k)) + DueCount(b, TextsOf(k))
    BY <1>3, <1>4, UnreadFacts
  <2>6. Unread(k)' = SentCount(k, TextsOf(k))' + DueCount(b, TextsOf(k))'
    <3>1. Peer(k)' = b
      BY <1>4, <1>6 DEF KeepsPairs, Peer
    <3>2. QED
      BY <1>3, <1>4, <1>6, <3>1, UnreadNext
  <2>7. QED
    BY <2>2, <2>3, <2>4, <2>5, <2>6
<1>19. KeepsUnread
  BY <1>17, <1>18 DEF KeepsUnread
<1>20. QED
  BY <1>6, <1>15, <1>16, <1>19, MapStutter

\* an answer of k is now on the connection of its peer b
LEMMA AnswerMaps ==
  ASSUME SystemInv, SystemInv', TalkInv, Handle, Server!OnRequestAnswer
  PROVE  ProtocolStep
<1>1. PICK k \in Ids : k = Server!client
  BY HandleTakes
<1>2. PICK m \in Message : m = Server!msg
  BY HandleTakes
<1>3. Server!Peer = Peer(k) /\ Peer(k) # 0 /\ m \in Answers
  BY <1>1, <1>2 DEF Server!OnRequestAnswer, Server!PeerPop, Server!Pop, Server!Paired,
                    Server!NoPeer, Server!Peer, Peer, Server!msg, Answers
<1>4. PICK b \in Ids \ {k} : b = Peer(k) /\ Peer(b) = k
  BY <1>3, PeerTyped
<1>5. KeepsPairs /\ posted' = {Server!To(c, m) : c \in m_dequeConnections \cap {b}}
  BY <1>2, <1>3, <1>4 DEF Server!OnRequestAnswer, KeepsPairs
<1>6. posted' = {Server!To(b, m)}
  BY <1>4, <1>5, AllHeld
<1>7. m \notin Asks /\ \A e \in Ids : m \notin TextsOf(e)
  BY <1>3 DEF Answers, Asks, Requests, TextsOf
<1> DEFINE M == {Server!msg}
           N == {p.msg : p \in posted'}
<1>8. Moves(M, N)
  BY HandleMoves
<1>9. M = {m} /\ N = {m}
  BY <1>2, <1>6 DEF Server!To
<1> HIDE DEF M, N
<1>10. proc' = proc
  BY DEF Handle
<1>11. KeepsProcs
  BY <1>10 DEF KeepsProcs, Local
<1>12. KeepsUnread
  <2>1. \A e \in Ids : TextsOf(e) \cap M = {} /\ TextsOf(e) \cap N = {}
    BY <1>7, <1>9
  <2>2. QED
    BY <1>5, <1>8, <2>1, UnreadStays DEF KeepsUnread
<1>13. Sent(k, Answers)
  BY <1>1, <1>2, <1>3, HandleTakes, MessageSets
<1>14. AnswerDue(k)'
  <2>1. DueCount(b, Answers)' = DueCount(b, Answers) + 1 /\ DueCount(b, Answers) \in Nat
    BY <1>3, <1>6, PostedOne, CountFacts, MessageSets DEF Bit
  <2>2. DueCount(b, Answers)' # 0
    BY <2>1
  <2>3. Due(b, Answers)'
    BY <2>2, CountsNext, MessageSets DEF CountsRight
  <2>4. Peer(k)' = b /\ b # 0
    BY <1>3, <1>4, <1>5 DEF KeepsPairs, Peer
  <2>5. QED
    BY <2>3, <2>4 DEF AnswerDue
<1>15. Owed(k)' = Owed(k)
  BY <1>13, <1>14 DEF Owed
<1>16. ASSUME NEW e \in Ids \ {k} PROVE Owed(e)' = Owed(e)
  <2>1. /\ SentCount(e, Answers)' = SentCount(e, Answers)
        /\ DueCount(e, Asks)' = DueCount(e, Asks)
        /\ \A f \in Ids \ {b} : DueCount(f, Answers)' = DueCount(f, Answers)
    <3>1. SentCount(e, Answers)' \in Nat
      BY CountsNext, MessageSets DEF CountsRight
    <3>2. SentCount(e, Answers)' = SentCount(e, Answers)
      BY <1>1, <1>16, <3>1, HandleCounts, MessageSets
    <3>3. Asks \cap N = {}
      BY <1>7, <1>9
    <3>4. QED
      BY <1>6, <1>8, <3>2, <3>3, PostedOne, MessageSets DEF Moves
  <2>2. /\ Sent(e, Answers)' <=> Sent(e, Answers)
        /\ Due(e, Asks)' <=> Due(e, Asks)
        /\ \A f \in Ids \ {b} : Due(f, Answers)' <=> Due(f, Answers)
    BY <2>1, CountFacts, CountsNext, MessageSets DEF CountsRight
  <2>3. Peer(e)' = Peer(e) /\ (Peer(e) # 0 => Peer(e) \in Ids \ {b})
    BY <1>4, <1>5, PeerTyped DEF KeepsPairs, Peer
  <2>4. AnswerDue(e)' <=> AnswerDue(e)
    BY <2>2, <2>3 DEF AnswerDue
  <2>5. QED
    BY <1>10, <2>2, <2>4 DEF Owed
<1>17. KeepsOwed
  BY <1>15, <1>16 DEF KeepsOwed
<1>18. QED
  BY <1>5, <1>11, <1>12, <1>17, MapStutter

\* a request of k pairs it with b, which is told of it
LEMMA PairMaps ==
  ASSUME SystemInv, SystemInv', TalkInv, TalkInv', TextsPaired, Handle,
         NEW k \in Ids, k = Server!client, NEW b \in Ids \ {k}, Peer(k) = 0, Peer(b) = 0,
         Server!msg \in RequestsFor(b),
         NEW m, m \in AsksOf(k), posted' = {Server!To(b, m)},
         ClientConnections' = [ClientConnections EXCEPT ![k] = b, ![b] = k]
  PROVE  ProtocolStep
<1>1. /\ m \in Asks /\ m \notin Answers /\ m \in Message /\ m.id = "RequestToClient"
      /\ Server!msg \in Requests /\ Server!msg \notin Answers /\ Server!msg \in Message
      /\ \A id : m \notin TextsOf(id) /\ Server!msg \notin TextsOf(id)
  BY DEF Answers, Requests, AsksOf, Asks, RequestsFor, TextsOf
<1>2. proc' = proc /\ 0 \notin Ids
  BY PeerTyped DEF Handle
<1>3. KeepsProcs
  BY <1>2 DEF KeepsProcs, Local
<1>4. Peer(k)' = b /\ Peer(b)' = k /\ \A e \in Ids \ {k, b} : Peer(e)' = Peer(e)
  BY OnItsWay DEF Peer
<1> DEFINE M == {Server!msg}
           N == {p.msg : p \in posted'}
<1>5. Moves(M, N)
  BY HandleMoves
<1>6. N = {m}
  BY DEF Server!To
<1>7. M \cap Answers = {} /\ N \cap Answers = {} /\ \A id : TextsOf(id) \cap M = {} /\ TextsOf(id) \cap N = {}
  BY <1>1, <1>6
<1> HIDE DEF M, N
<1>8. \A e \in Ids : /\ SentCount(e, Answers)' = SentCount(e, Answers)
                     /\ DueCount(e, Answers)' = DueCount(e, Answers)
                     /\ e # b => DueCount(e, Asks)' = DueCount(e, Asks)
  BY <1>5, <1>7, PostedOne, MessageSets DEF Moves
<1>9. \A e \in Ids : /\ Sent(e, Answers)' <=> Sent(e, Answers)
                     /\ Due(e, Answers)' <=> Due(e, Answers)
                     /\ e # b => (Due(e, Asks)' <=> Due(e, Asks))
  BY <1>8, CountFacts, CountsNext, MessageSets DEF CountsRight
<1>10. /\ \A e \in {k, b} : ~ Sent(e, Answers) /\ ~ Due(e, Answers)
       /\ ~ Holds(proc[k]) /\ ~ AnswerDue(k) /\ ~ Due(k, Asks)
  <2>1. \A e \in {k, b} : Alone(e) /\ Untouched(proc[e])
    BY DEF TalkInv, TalkClient
  <2>2. ~ Holds(proc[k])
    BY <2>1 DEF Untouched, Holds
  <2>3. ~ AnswerDue(k)
    BY DEF AnswerDue
  <2>4. ASSUME NEW i \in DOMAIN toClient[k], toClient[k][i] \in Asks PROVE FALSE
    <3>1. toClient[k][i].arg \in Args /\ toClient[k][i] \in AsksOf(toClient[k][i].arg)
          /\ toClient[k][i].arg # 0
      BY <2>4 DEF Asks, Requests, AsksOf, Message, NotFound
    <3>2. Due(k, AsksOf(toClient[k][i].arg))
      BY <2>4, <3>1 DEF Due, Has
    <3>3. QED
      BY <3>1, <3>2 DEF TalkInv, TalkClient, Signed
  <2>5. ~ Due(k, Asks)
    BY <2>4 DEF Due, Has
  <2>6. QED
    BY <2>1, <2>2, <2>3, <2>5 DEF Alone
<1>11. proc[k].id = b
  <2>1. Sent(k, RequestsFor(b)) /\ b \in Known
    BY HandleTakes, MessageSets DEF Known
  <2>2. QED
    BY <2>1 DEF TalkInv, TalkClient, Alone
<1>12. Owed(b)' = "request"
  <2>1. ~ Sent(b, Answers)' /\ ~ AnswerDue(b)'
    BY <1>4, <1>9, <1>10 DEF AnswerDue
  <2>2. DueCount(b, Asks)' = DueCount(b, Asks) + 1 /\ DueCount(b, Asks) \in Nat
    BY <1>1, PostedOne, CountFacts, MessageSets DEF Bit
  <2>3. DueCount(b, Asks)' # 0
    BY <2>2
  <2>4. Due(b, Asks)'
    BY <2>3, CountsNext, MessageSets DEF CountsRight
  <2>5. QED
    BY <2>1, <2>4 DEF Owed
<1>13. Owed(k)' = Owed(k)
  <2>1. ~ Sent(k, Answers)' /\ ~ AnswerDue(k)' /\ ~ Due(k, Asks)' /\ ~ Holds(proc'[k])
    BY <1>2, <1>4, <1>9, <1>10 DEF AnswerDue
  <2>2. QED
    BY <1>10, <2>1 DEF Owed
<1>14. ASSUME NEW e \in Ids \ {k, b} PROVE Owed(e)' = Owed(e)
  <2>1. AnswerDue(e)' <=> AnswerDue(e)
    BY <1>4, <1>9, PeerTyped DEF AnswerDue
  <2>2. QED
    BY <1>2, <1>9, <2>1 DEF Owed
<1>15. ASSUME NEW e \in Ids PROVE Unread(e)' = Unread(e)
  <2>1. TextsOf(e) \in SUBSET Message
    BY MessageSets
  <2>2. /\ SentCount(e, TextsOf(e))' = SentCount(e, TextsOf(e)) /\ SentCount(e, TextsOf(e)) \in Nat
        /\ \A f \in Ids : /\ DueCount(f, TextsOf(e))' = DueCount(f, TextsOf(e))
                          /\ DueCount(f, TextsOf(e)) \in Nat
    BY <1>5, <1>7, <2>1, CountFacts DEF Moves
  <2>3. Unread(e)' = SentCount(e, TextsOf(e))'
                       + IF Peer(e)' = 0 THEN 0 ELSE DueCount(Peer(e), TextsOf(e))'
    BY DEF Unread, SentCount, DueCount
  <2>4. CASE e \in {k, b}
    <3>1. PICK f \in {k, b} : f = Peer(e)' /\ f # 0
      BY <1>2, <1>4, <2>4
    <3>2. ~ Due(f, TextsOf(e))
      <4>1. Peer(f) = 0 /\ e \in Args
        BY <1>2, <3>1 DEF Args
      <4>2. QED
        BY <1>2, <4>1 DEF TalkInv, TalkClient, Signed
    <3>3. DueCount(f, TextsOf(e))' = 0
      BY <2>1, <2>2, <3>2, CountFacts
    <3>4. Unread(e) = SentCount(e, TextsOf(e))
      BY <2>4, UnreadFacts
    <3>5. QED
      BY <2>2, <2>3, <3>1, <3>3, <3>4
  <2>5. CASE e \notin {k, b}
    <3>1. Peer(e)' = Peer(e) /\ (Peer(e) # 0 => Peer(e) \in Ids)
      BY <1>4, <2>5, PeerTyped
    <3>2. CASE Peer(e) = 0
      BY <2>2, <2>3, <3>1, <3>2, UnreadFacts
    <3>3. ASSUME NEW f \in Ids, f = Peer(e), f # 0 PROVE Unread(e)' = Unread(e)
      <4>1. Unread(e) = SentCount(e, TextsOf(e)) + DueCount(f, TextsOf(e))
        BY <3>3, UnreadFacts
      <4>2. Unread(e)' = SentCount(e, TextsOf(e))' + DueCount(f, TextsOf(e))'
        BY <2>3, <3>1, <3>3
      <4>3. QED
        BY <2>2, <4>1, <4>2
    <3>4. QED
      BY <3>1, <3>2, <3>3
  <2>6. QED
    BY <2>4, <2>5
<1>16. \A e \in Ids \ {b} : Owed(e)' = Owed(e)
  BY <1>13, <1>14
<1>17. KeepsUnread
  BY <1>15 DEF KeepsUnread
<1>18. QED
  BY <1>3, <1>11, <1>12, <1>16, <1>17, MapPair

LEMMA RequestMaps ==
  ASSUME SystemInv, SystemInv', TalkInv, TalkInv', TextsPaired, Handle, Server!OnRequestToClient
  PROVE  ProtocolStep
<1>1. PICK k \in Ids : k = Server!client
  BY HandleTakes
<1>2. PICK m \in Message : m = Server!msg
  BY HandleTakes
<1>3. m.id = "RequestToClient" /\ m \in RequestsFor(m.arg)
  BY <1>2 DEF Server!OnRequestToClient, Server!Pop, Server!msg, Requests, RequestsFor
<1>4. ASSUME NEW a \in {NotFound, Busy}, posted' = {Server!To(k, Server!Msg("RequestToClient", a))},
             UNCHANGED ClientConnections
      PROVE  ProtocolStep
  <2>1. \A p \in posted' : p.msg \notin Asks /\ p.msg.id = "RequestToClient"
    BY <1>4 DEF Server!To, Server!Msg, Asks, NotFound, Busy
  <2>2. QED
    BY <1>2, <1>3, <1>4, <2>1, PlainMaps DEF KeepsPairs
<1>5. ASSUME m.arg \in m_dequeConnections, Server!CanConnect(k, m.arg),
             Server!ConnectClients(k, m.arg),
             posted' = {Server!To(m.arg, Server!Msg("RequestToClient", k))}
      PROVE  ProtocolStep
  <2> DEFINE r == Server!Msg("RequestToClient", k)
  <2>1. r \in AsksOf(k)
    <3>1. k \in Args /\ k # NotFound /\ k # Busy
      BY IdAssumption DEF Args, Ids, FirstId, NotFound, Busy
    <3>2. QED
      BY <3>1 DEF Server!Msg, AsksOf, Asks, Requests, Message, MsgTypes
  <2>2. m.arg \in Ids
    BY <1>5, SameServerMessages DEF SystemInv, ServerProofs!IInv, ServerProofs!TypeOK
  <2>3. PICK b \in Ids : b = m.arg
    BY <2>2
  <2>4. b # k /\ Peer(k) = 0 /\ Peer(b) = 0
        /\ ClientConnections' = [ClientConnections EXCEPT ![k] = b, ![b] = k]
    BY <1>5, <2>3 DEF Server!CanConnect, Server!ConnectClients, Server!Paired, Server!NoPeer, Peer
  <2> HIDE DEF r
  <2>5. posted' = {Server!To(b, r)} /\ Server!msg \in RequestsFor(b)
    BY <1>2, <1>3, <1>5, <2>3 DEF r
  <2>6. QED
    BY <1>1, <2>1, <2>4, <2>5, PairMaps
<1>6. QED
  BY <1>1, <1>2, <1>4, <1>5
     DEF Server!OnRequestToClient, Server!NotFound, NotFound, Server!Busy, Busy

LEMMA HandleMaps ==
  ASSUME SystemInv, SystemInv', TalkInv, TalkInv', TextsPaired, Handle
  PROVE  ProtocolStep
<1>1. Server!OnMessage
  BY DEF Handle
<1>2. QED
  BY <1>1, PlainHandledMaps, RequestMaps, TextMaps, AnswerMaps, NeverThrows, CloseNeverHandled
     DEF Server!OnMessage

LEMMA ClientMaps ==
  ASSUME NobodyEnds, SystemInv, SystemInv', TalkInv, TalkInv', PromptedInv,
         UNCHANGED serverVars, NEW c \in Ids, Client!ClientStep(c)
  PROVE  ProtocolStep
<1>1. CASE Client!UiStep(c)
  BY <1>1, UiMaps
<1>2. CASE Client!WatcherStep(c) \/ Client!EnterStep(c) \/ Client!SpuriousWakeup(c)
  BY <1>2, WatcherMaps
<1>3. CASE Client!ExecutorStep(c)
  BY <1>3, ShownMaps, RequestReadMaps, AnswerReadMaps, WatcherMaps, ClosedNever
     DEF Client!ExecutorStep
<1>4. CASE Client!UserStep(c)
  <2>1. ~ Client!Decline(c) /\ ~ Client!ChatLine(c, "-close", "close")
        /\ ~ Client!WatchClose(c) /\ ~ Client!Leave(c)
    BY DEF NobodyEnds, Client!Decline, Client!ChatLine, Client!WatchClose, Client!Leave,
           Client!Typed, Client!CanType
  <2>2. QED
    BY <1>4, <2>1, SameIds, UserMaps, WatcherMaps DEF Client!UserStep
<1>5. QED
  BY <1>1, <1>2, <1>3, <1>4 DEF Client!ClientStep

LEMMA StutterMaps == UNCHANGED vars => ProtocolStep
<1> SUFFICES ASSUME UNCHANGED vars PROVE ProtocolStep
  OBVIOUS
<1>1. /\ proc' = proc /\ toServer' = toServer /\ toClient' = toClient
      /\ m_qMessagesIn' = m_qMessagesIn /\ ClientConnections' = ClientConnections
  BY DEF vars, serverVars, clientVars
<1>2. KeepsPairs /\ KeepsProcs
  BY <1>1 DEF KeepsPairs, KeepsProcs, Local
<1>3. KeepsOwed
  BY <1>1 DEF KeepsOwed, Owed, Sent, Due, From, AnswerDue, Peer
<1>4. KeepsUnread
  BY <1>1 DEF KeepsUnread, Unread, From, Peer
<1>5. QED
  BY <1>2, <1>3, <1>4, MapStutter

LEMMA MapsStep ==
  ASSUME NobodyEnds, SystemInv, TalkInv, TextsPaired, PromptedInv, [Next]_vars
  PROVE  ProtocolStep
<1>1. SystemInv' /\ TalkInv'
  BY SystemStep, TalkStep
<1>2. CASE Handle
  BY <1>1, <1>2, HandleMaps
<1>3. ASSUME NEW c \in Ids, Does(Client!ClientStep(c)) PROVE ProtocolStep
  BY <1>1, <1>3, ClientMaps DEF Does
<1>4. ASSUME NEW c \in Ids, Arrive(c) PROVE ProtocolStep
  BY <1>1, <1>4, ArriveMaps
<1>5. ASSUME NEW c \in Ids, Disconnect(c) PROVE FALSE
  BY <1>5, TalkFacts DEF Disconnect, Alive
<1>6. CASE UNCHANGED vars
  BY <1>6, StutterMaps
<1>7. QED
  BY <1>2, <1>3, <1>4, <1>5, <1>6 DEF Next

LEMMA InitMaps == Init => Protocol!Init /\ PromptedInv /\ TextsPaired
<1> SUFFICES ASSUME Init PROVE Protocol!Init /\ PromptedInv /\ TextsPaired
  OBVIOUS
<1>1. \A c \in Ids : /\ proc[c] = Client!InitProc /\ toServer[c] = <<>> /\ toClient[c] = <<>>
                     /\ m_qMessagesIn = <<>> /\ Peer(c) = 0
  BY SameIds DEF Init, Client!Init, Server!NoPeer, Peer
<1>2. \A c \in Ids : /\ proc[c].ui = "prompt" /\ proc[c].id = 0
                     /\ ChatOf(proc[c]) = 0 /\ proc[c].ConnectionRequestId = 0
  BY <1>1 DEF Client!InitProc, ChatOf
<1>3. \A S : ~ Has(<<>>, S) /\ Count(<<>>, S) = 0
  <2>1. ASSUME NEW S PROVE ~ Has(<<>>, S) /\ Count(<<>>, S) = 0
    <3>1. {i \in DOMAIN <<>> : <<>>[i] \in S} = {}
      OBVIOUS
    <3>2. QED
      BY <3>1, FS_EmptySet DEF Has, Count
  <2>2. QED
    BY <2>1
<1>4. \A c \in Ids : Owed(c) = "nothing"
  BY <1>1, <1>2, <1>3 DEF Owed, Sent, Due, AnswerDue, Holds
<1>5. \A c \in Ids : Unread(c) = 0
  BY <1>1, <1>3 DEF Unread
<1>6. Protocol!Init
  <2>1. ClientConnections = [c \in Ids |-> 0]
    BY DEF Init, Server!NoPeer
  <2>2. \A c \in Ids : Accepting(proc[c]) = FALSE
    BY <1>2 DEF Accepting
  <2>3. QED
    BY <1>2, <1>4, <1>5, <2>1, <2>2 DEF Protocol!Init
<1>7. PromptedInv
  BY <1>2 DEF PromptedInv, Prompted, InChat
<1>8. TextsPaired
  BY <1>1, <1>3 DEF TextsPaired, Sent
<1>9. QED
  BY <1>6, <1>7, <1>8

(* Server.cpp:68 pairs two clients before the asked one has answered, and  *)
(* Client.cpp:154 an answer does not say which request it belongs to; still*)
(* every step of the system is one of ChatProtocol or leaves it unchanged, *)
(* with any number of clients and commands, while users end nothing.       *)
THEOREM ImplementsProtocol ==
  ASSUME NobodyEnds
  PROVE  Spec => ProtocolKept
<1> DEFINE Inv == SystemInv /\ TalkInv /\ TextsPaired /\ PromptedInv
<1>1. Init => Inv /\ Protocol!Init
  BY InitSystem, InitTalks, InitMaps
<1>2. Inv /\ [Next]_vars => Inv'
  BY SystemStep, TalkStep, TextsStep, PromptedStep
<1>3. Inv /\ [Next]_vars => [Protocol!Next]_(Protocol!vars)
  BY MapsStep DEF ProtocolStep
<1>4. QED
  BY <1>1, <1>2, <1>3, PTL DEF Spec, ProtocolKept, Protocol!Spec
=============================================================================
