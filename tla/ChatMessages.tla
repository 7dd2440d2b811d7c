--------------------------- MODULE ChatMessages ----------------------------
(***************************************************************************)
(* The ids of the clients and the messages that client and server          *)
(* exchange (CustomMsgTypes in ChatServer/Utilities.h and, with the same   *)
(* members, in ChatClient/Utilities.h).                                    *)
(***************************************************************************)
EXTENDS Integers, Sequences

CONSTANTS
  MaxClients,   \* bound of the model: connections accepted in a run
  OtherIds      \* ids a user may type that no client will have

FirstId == 10000                                  \* nIDCounter's first value
Ids == FirstId .. FirstId + MaxClients - 1
NotFound == 0                                     \* answer codes of a
Busy == 1                                         \* RequestToClient

ASSUME IdAssumption ==
  /\ MaxClients \in Nat
  /\ OtherIds \in SUBSET Nat
  /\ OtherIds \cap Ids = {}

\* A message is its header id, the number its body carries (0 when it carries
\* none or when nothing depends on it; for a text, the id of the client that
\* typed it) and, for a ClientList, the ids listed.
MsgTypes == {"ServerAccept", "ServerPing", "MessageAll", "ServerMessage", "ClientList",
             "RequestToClient", "TextClient", "RequestAnswer", "CloseClient"}
Args == Ids \cup OtherIds \cup {0, 1}
Message == [id : MsgTypes, arg : Args, list : SUBSET Ids]

Msg(id, arg) == [id |-> id, arg |-> arg, list |-> {}]
ListMsg(ids) == [id |-> "ClientList", arg |-> 0, list |-> ids]

\* The messages Custom_Client can send.
ClientMessage ==
  {Msg(t, 0) : t \in {"ServerPing", "MessageAll", "ClientList", "CloseClient"}}
    \cup {Msg("TextClient", i) : i \in Ids}
    \cup {Msg("RequestToClient", i) : i \in Ids \cup OtherIds}
    \cup {Msg("RequestAnswer", a) : a \in {0, 1}}
=============================================================================
