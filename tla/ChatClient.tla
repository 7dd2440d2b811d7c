---------------------------- MODULE ChatClient -----------------------------
(***************************************************************************)
(* The client programs: Custom_Client (ChatClient/Client.cpp) with the     *)
(* state it inherits from client_interface (Net_chat/net_client.h), one    *)
(* process for every id.  Three threads of a process share ConnectedToId,  *)
(* ConnectionRequestId, muxConnect and cvConnect:                          *)
(*   - ui: main's loop and the commands of operator<<, with the chat;      *)
(*   - executor: ExecuteMessages, which pops the incoming messages;        *)
(*   - watcher: the std::async thread of ConnectTo that polls the ESC key. *)
(* toServer and toClient are the two directions of a connection, from one  *)
(* side's Send to the other side's incoming queue.                         *)
(*                                                                         *)
(* A step makes at most one access to a shared variable that another       *)
(* thread could tell apart: x = y of two shared ids is a read and a write, *)
(* with the value in connecting or answered in between.  What the executor *)
(* does inside one lock of muxConnect is one step.                         *)
(***************************************************************************)
EXTENDS ChatMessages

CONSTANTS
  Commands,    \* what users do: a subset of AllCommands
  MaxTyped     \* bound of the model: what one user does in a run

AllCommands == {"ConnectTo", "Accept", "Decline", "Text", "-close", "ESC",
                "Ping", "HelloAll", "Clients", "Leave"}

VARIABLES proc, toServer, toClient

vars == <<proc, toServer, toClient>>

Ui == {"prompt", "setRequest", "lock", "test", "asleep", "woken", "checkChat", "join",
       "accept", "connect", "chat", "send", "close", "clear", "reset", "gone"}
Watcher == {"none", "started", "watching", "clear", "reset", "locking", "enter"}
Executor == {"idle", "answered", "accepted", "closed", "gone"}

InitProc == [ui |-> "prompt", watcher |-> "none", executor |-> "idle",
             id |-> 0,                  \* c.id of the ConnectTo being executed
             ConnectedToId |-> 0, ConnectionRequestId |-> 0,
             connecting |-> 0,          \* what the ui has read and not yet written
             answered |-> 0,            \* what the executor has
             muxConnect |-> "free", typed |-> 0]

Init ==
  /\ proc = [c \in Ids |-> InitProc]
  /\ toServer = [c \in Ids |-> <<>>]
  /\ toClient = [c \in Ids |-> <<>>]

\* ids are those of nIDCounter, which starts at 10000
IsClientId(id) == id >= FirstId

Send(c, m) == toServer' = [toServer EXCEPT ![c] = Append(@, m)] /\ UNCHANGED toClient
Silent == UNCHANGED <<toServer, toClient>>

At(c, pc) == proc[c].ui = pc
Go(c, from, to) == At(c, from) /\ Silent /\ proc' = [proc EXCEPT ![c].ui = to]

\* the user does something the model counts
CanType(c, command) == command \in Commands /\ proc[c].typed < MaxTyped
Typed(c, command, pc) ==
  /\ At(c, "prompt")
  /\ CanType(c, command)
  /\ proc' = [proc EXCEPT ![c].typed = @ + 1, ![c].ui = pc]

-----------------------------------------------------------------------------
(* ConnectTo 'id' *)

ConnectTo(c, id) ==
  /\ At(c, "prompt")
  /\ CanType(c, "ConnectTo")
  /\ proc' = [proc EXCEPT ![c].typed = @ + 1, ![c].ui = "setRequest", ![c].id = id]
  /\ Send(c, Msg("RequestToClient", id))

SetRequest(c) ==
  /\ At(c, "setRequest")
  /\ proc' = [proc EXCEPT ![c].ui = "lock", ![c].ConnectionRequestId = proc[c].id]
  /\ Silent

LockAndWatch(c) ==
  /\ At(c, "lock")
  /\ proc[c].muxConnect = "free"
  /\ proc' = [proc EXCEPT ![c].ui = "test", ![c].muxConnect = "ui", ![c].watcher = "started"]
  /\ Silent

Requesting(c) == proc[c].ConnectionRequestId = proc[c].id

\* while (ConnectionRequestId == c.id) cvConnect.wait(ul)
TestRequest(c) ==
  /\ At(c, "test")
  /\ proc' = IF Requesting(c)
             THEN [proc EXCEPT ![c].ui = "asleep", ![c].muxConnect = "free"]
             ELSE [proc EXCEPT ![c].ui = "checkChat"]
  /\ Silent

SpuriousWakeup(c) == Go(c, "asleep", "woken")

Relock(c) ==
  /\ At(c, "woken")
  /\ proc[c].muxConnect = "free"
  /\ proc' = [proc EXCEPT ![c].ui = "test", ![c].muxConnect = "ui"]
  /\ Silent

\* cvConnect.notify_one(): only ui ever waits
Notified(pc) == IF pc = "asleep" THEN "woken" ELSE pc

CheckChat(c) ==
  Go(c, "checkChat", IF IsClientId(proc[c].ConnectedToId) THEN "chat" ELSE "join")

\* Mutants: the watcher is not waited for, as with a detached thread; muxConnect
\* is not released.
JoinDetached(c) ==
  /\ At(c, "join")
  /\ proc' = [proc EXCEPT ![c].ui = "prompt", ![c].muxConnect = "free", ![c].id = 0]
  /\ Silent
JoinKeepsLock(c) ==
  /\ At(c, "join")
  /\ proc[c].watcher = "none"
  /\ proc' = [proc EXCEPT ![c].ui = "prompt", ![c].id = 0]
  /\ Silent

\* The destructors at the end of the case: ~future waits for the watcher to
\* end, then ~unique_lock releases muxConnect.
Join(c) ==
  /\ At(c, "join")
  /\ proc[c].watcher = "none"
  /\ proc' = [proc EXCEPT ![c].ui = "prompt", ![c].muxConnect = "free", ![c].id = 0]
  /\ Silent

-----------------------------------------------------------------------------
(* The watcher; the key may be pressed, or the uninitialised variable key  *)
(* be nonzero, at any time                                                 *)

WatchAgain(c) ==
  /\ proc[c].watcher = "started"
  /\ Requesting(c)
  /\ proc' = [proc EXCEPT ![c].watcher = "watching"]
  /\ Silent

\* Mutant: the watcher's loop ends only when the chat opens.
WatchUntilChat(c) ==
  /\ proc[c].watcher \in {"started", "watching"}
  /\ proc[c].ConnectedToId = proc[c].id
  /\ proc' = [proc EXCEPT ![c].watcher = "none"]
  /\ Silent

WatchEnds(c) ==
  /\ proc[c].watcher \in {"started", "watching"}
  /\ ~ Requesting(c)
  /\ proc' = [proc EXCEPT ![c].watcher = "none"]
  /\ Silent

\* the command CloseClient, first part
WatchClose(c) ==
  /\ proc[c].watcher = "watching"
  /\ CanType(c, "ESC")
  /\ proc' = [proc EXCEPT ![c].typed = @ + 1, ![c].watcher = "clear"]
  /\ Send(c, Msg("CloseClient", 0))

WatchClear(c) ==
  /\ proc[c].watcher = "clear"
  /\ proc' = [proc EXCEPT ![c].watcher = "reset", ![c].ConnectedToId = 0]
  /\ Silent

WatchReset(c) ==
  /\ proc[c].watcher = "reset"
  /\ proc' = [proc EXCEPT ![c].watcher = "locking", ![c].ConnectionRequestId = 0]
  /\ Silent

\* notify_one and std::cin.get() with muxConnect locked
WatchNotify(c) ==
  /\ proc[c].watcher = "locking"
  /\ proc[c].muxConnect = "free"
  /\ proc' = [proc EXCEPT ![c].watcher = "enter", ![c].muxConnect = "watcher",
                          ![c].ui = Notified(@)]
  /\ Silent

WatchEnter(c) ==
  /\ proc[c].watcher = "enter"
  /\ proc' = [proc EXCEPT ![c].watcher = "started", ![c].muxConnect = "free"]
  /\ Silent

-----------------------------------------------------------------------------
(* Accept, Decline and the commands that change no state *)

\* Mutant: one may accept though nobody has asked.
AcceptUnasked(c) ==
  /\ Typed(c, "Accept", "accept")
  /\ Send(c, Msg("RequestAnswer", 1))

Accept(c) ==
  /\ IsClientId(proc[c].ConnectionRequestId)
  /\ Typed(c, "Accept", "accept")
  /\ Send(c, Msg("RequestAnswer", 1))

\* ConnectionRequestId is read again, and kept
AcceptReads(c) ==
  /\ At(c, "accept")
  /\ proc' = [proc EXCEPT ![c].ui = "connect", ![c].connecting = proc[c].ConnectionRequestId]
  /\ Silent

AcceptConnects(c) ==
  /\ At(c, "connect")
  /\ proc' = [proc EXCEPT ![c].ui = "chat", ![c].ConnectedToId = proc[c].connecting,
                          ![c].connecting = 0]
  /\ Silent

Decline(c) ==
  /\ IsClientId(proc[c].ConnectionRequestId)
  /\ Typed(c, "Decline", "prompt")
  /\ Send(c, Msg("RequestAnswer", 0))

Ask(c) ==
  \E ask \in {<<"Ping", "ServerPing">>, <<"HelloAll", "MessageAll">>, <<"Clients", "ClientList">>} :
    Typed(c, ask[1], "prompt") /\ Send(c, Msg(ask[2], 0))

-----------------------------------------------------------------------------
(* OpenChatWithClient: a line is typed first, ConnectedToId tested next *)

ChatLine(c, command, pc) ==
  /\ At(c, "chat")
  /\ proc[c].ConnectedToId # 0
  /\ CanType(c, command)
  /\ proc' = [proc EXCEPT ![c].typed = @ + 1, ![c].ui = pc]
  /\ Silent

SendToClient(c) ==
  /\ At(c, "send")
  /\ proc' = [proc EXCEPT ![c].ui = "chat"]
  /\ Send(c, Msg("TextClient", c))

\* the command CloseClient
CloseChat(c) ==
  /\ At(c, "close")
  /\ proc' = [proc EXCEPT ![c].ui = "clear"]
  /\ Send(c, Msg("CloseClient", 0))

ClearConnected(c) ==
  /\ At(c, "clear")
  /\ proc' = [proc EXCEPT ![c].ui = "reset", ![c].ConnectedToId = 0]
  /\ Silent

ResetRequest(c) ==
  /\ At(c, "reset")
  /\ proc' = [proc EXCEPT ![c].ui = "chat", ![c].ConnectionRequestId = 0]
  /\ Silent

\* Any line ends a chat whose ConnectedToId is 0.  A chat opened by ConnectTo
\* still holds muxConnect.
LeaveChat(c) ==
  /\ At(c, "chat")
  /\ proc[c].ConnectedToId = 0
  /\ proc' = [proc EXCEPT ![c].ui = IF proc[c].muxConnect = "ui" THEN "join" ELSE "prompt"]
  /\ Silent

-----------------------------------------------------------------------------
(* ExecuteMessages *)

Pops(c, types) ==
  /\ proc[c].executor = "idle"
  /\ toClient[c] # <<>>
  /\ Head(toClient[c]).id \in types
  /\ toClient' = [toClient EXCEPT ![c] = Tail(@)]
  /\ UNCHANGED toServer

arg(c) == Head(toClient[c]).arg

\* ConnectionRequestId = 0 and notify_one under muxConnect
RequestOver(c, executor) ==
  /\ proc[c].muxConnect = "free"
  /\ proc' = [proc EXCEPT ![c].executor = executor, ![c].ConnectionRequestId = 0,
                          ![c].ui = Notified(@)]

Shown(c) ==
  /\ Pops(c, {"ServerPing", "ServerMessage", "ServerAccept", "ClientList", "TextClient"})
  /\ UNCHANGED proc

Refused(c) ==
  /\ Pops(c, {"RequestToClient"})
  /\ arg(c) \in {NotFound, Busy}
  /\ RequestOver(c, "idle")

\* Mutant: an incoming request connects at once.
RequestConnects(c) ==
  /\ Pops(c, {"RequestToClient"})
  /\ arg(c) \notin {NotFound, Busy}
  /\ proc' = [proc EXCEPT ![c].ConnectedToId = arg(c)]

\* Mutant: the case 1 is missing.
RequestedBusy(c) ==
  /\ Pops(c, {"RequestToClient"})
  /\ arg(c) # NotFound
  /\ proc' = [proc EXCEPT ![c].ConnectionRequestId = arg(c)]

\* neither locked nor notified
Requested(c) ==
  /\ Pops(c, {"RequestToClient"})
  /\ arg(c) \notin {NotFound, Busy}
  /\ proc' = [proc EXCEPT ![c].ConnectionRequestId = arg(c)]

Answered(c) ==
  /\ Pops(c, {"RequestAnswer"})
  /\ arg(c) # 0
  /\ proc' = [proc EXCEPT ![c].executor = "answered",
                          ![c].answered = proc[c].ConnectionRequestId]

Accepted(c) ==
  /\ proc[c].executor = "answered"
  /\ proc' = [proc EXCEPT ![c].executor = "accepted", ![c].ConnectedToId = proc[c].answered,
                          ![c].answered = 0]
  /\ Silent

AcceptedNotifies(c) ==
  /\ proc[c].executor = "accepted"
  /\ RequestOver(c, "idle")
  /\ Silent

Declined(c) ==
  /\ Pops(c, {"RequestAnswer"})
  /\ arg(c) = 0
  /\ RequestOver(c, "idle")

Closed(c) ==
  /\ Pops(c, {"CloseClient"})
  /\ proc' = [proc EXCEPT ![c].executor = "closed", ![c].ConnectedToId = 0]

ClosedResets(c) ==
  /\ proc[c].executor = "closed"
  /\ proc' = [proc EXCEPT ![c].executor = "idle", ![c].ConnectionRequestId = 0]
  /\ Silent

-----------------------------------------------------------------------------
\* main never returns: a user leaves by ending the process
Leave(c) ==
  /\ ~ At(c, "gone")
  /\ CanType(c, "Leave")
  /\ proc' = [proc EXCEPT ![c] = [InitProc EXCEPT !.ui = "gone", !.executor = "gone"]]
  /\ Silent

\* what each thread does by itself
UiStep(c) ==
  \/ SetRequest(c) \/ LockAndWatch(c) \/ TestRequest(c) \/ Relock(c) \/ CheckChat(c) \/ Join(c)
  \/ AcceptReads(c) \/ AcceptConnects(c) \/ SendToClient(c)
  \/ CloseChat(c) \/ ClearConnected(c) \/ ResetRequest(c)

WatcherStep(c) ==
  WatchAgain(c) \/ WatchEnds(c) \/ WatchClear(c) \/ WatchReset(c) \/ WatchNotify(c)

ExecutorStep(c) ==
  \/ Shown(c) \/ Refused(c) \/ Requested(c)
  \/ Answered(c) \/ Accepted(c) \/ AcceptedNotifies(c) \/ Declined(c)
  \/ Closed(c) \/ ClosedResets(c)

\* the Enter that the program asks for when a request or a chat is over
EnterStep(c) == WatchEnter(c) \/ LeaveChat(c)

\* what a user decides to do
UserStep(c) ==
  \/ \E id \in Ids \cup OtherIds : ConnectTo(c, id)
  \/ Accept(c) \/ Decline(c) \/ Ask(c)
  \/ ChatLine(c, "Text", "send") \/ ChatLine(c, "-close", "close")
  \/ WatchClose(c) \/ Leave(c)

ClientStep(c) ==
  \/ UiStep(c) \/ WatcherStep(c) \/ ExecutorStep(c)
  \/ EnterStep(c) \/ UserStep(c) \/ SpuriousWakeup(c)

-----------------------------------------------------------------------------
TypeOK ==
  /\ proc \in [Ids -> [ui : Ui, watcher : Watcher, executor : Executor,
                       id : Ids \cup OtherIds \cup {0},
                       ConnectedToId : Ids \cup OtherIds \cup {0},
                       ConnectionRequestId : Ids \cup OtherIds \cup {0},
                       connecting : Ids \cup OtherIds \cup {0},
                       answered : Ids \cup OtherIds \cup {0},
                       muxConnect : {"free", "ui", "watcher"}, typed : 0 .. MaxTyped]]
  /\ toServer \in [Ids -> Seq(ClientMessage)]
  /\ toClient \in [Ids -> Seq(Message)]

(* Client.cpp:213 The watcher's lambda captures the command by reference:  *)
(* it must not run once the ui has left that ConnectTo.                    *)
WatcherHasCommand ==
  \A c \in Ids : proc[c].watcher # "none" =>
    proc[c].ui \in {"test", "asleep", "woken", "checkChat", "join",
                    "chat", "send", "close", "clear", "reset"}
=============================================================================
