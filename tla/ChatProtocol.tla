--------------------------- MODULE ChatProtocol ----------------------------
(***************************************************************************)
(* What the chat promises to users who end nothing: two users are paired   *)
(* because one asked for the other, the asked one is told once and answers *)
(* at most once, the asking one waits as long as an answer may come, a     *)
(* chat opens only by an answer and only with the peer, and a text is said *)
(* only in a chat and never comes twice.  No thread, no lock, no server,   *)
(* no message.                                                             *)
(***************************************************************************)
EXTENDS Integers

CONSTANTS Ids, OtherIds

VARIABLES
  asks,       \* the id that a user is asking for or has asked for, or 0
  peer,       \* who a user is paired with, or 0
  owed,       \* what a user may still do for its peer: answer its request,
              \* or have the answer that was given read
  accepting,  \* a user has answered and its own side of the chat is not open yet
  chat,       \* the id that a user's chat is with, or 0
  unread      \* how many texts of a user its peer has not read

vars == <<asks, peer, owed, accepting, chat, unread>>

Init ==
  /\ asks = [c \in Ids |-> 0]
  /\ peer = [c \in Ids |-> 0]
  /\ owed = [c \in Ids |-> "nothing"]
  /\ accepting = [c \in Ids |-> FALSE]
  /\ chat = [c \in Ids |-> 0]
  /\ unread = [c \in Ids |-> 0]

\* a user who neither asks nor chats
Free(c) == asks[c] = 0 /\ ~ accepting[c] /\ chat[c] = 0

Ask(c, id) ==
  /\ Free(c)
  /\ asks' = [asks EXCEPT ![c] = id]
  /\ UNCHANGED <<peer, owed, accepting, chat, unread>>

\* refused or overtaken by another's request, never while an answer may come
StopAsking(c) ==
  /\ asks[c] # 0 /\ chat[c] = 0
  /\ peer[c] # 0 => owed[peer[c]] = "nothing"
  /\ asks' = [asks EXCEPT ![c] = 0]
  /\ UNCHANGED <<peer, owed, accepting, chat, unread>>

Pair(a, b) ==
  /\ asks[a] = b /\ a # b /\ peer[a] = 0 /\ peer[b] = 0
  /\ peer' = [peer EXCEPT ![a] = b, ![b] = a]
  /\ owed' = [owed EXCEPT ![b] = "request"]
  /\ UNCHANGED <<asks, accepting, chat, unread>>

\* the user was asking itself, and the request it was told of is lost
Forget(c) ==
  /\ owed[c] = "request"
  /\ owed' = [owed EXCEPT ![c] = "nothing"]
  /\ UNCHANGED <<asks, peer, accepting, chat, unread>>

Accept(c) ==
  /\ Free(c) /\ owed[c] = "request"
  /\ owed' = [owed EXCEPT ![c] = "answer"]
  /\ accepting' = [accepting EXCEPT ![c] = TRUE]
  /\ UNCHANGED <<asks, peer, chat, unread>>

\* A chat that does not open is one whose request was overwritten meanwhile.
Open(c) ==
  /\ accepting[c]
  /\ accepting' = [accepting EXCEPT ![c] = FALSE]
  /\ \E id \in {0, peer[c]} : chat' = [chat EXCEPT ![c] = id]
  /\ UNCHANGED <<asks, peer, owed, unread>>

\* the answer is read, by a user who still asks for the one who gave it
Connect(c) ==
  /\ peer[c] # 0 /\ asks[c] = peer[c] /\ chat[c] = 0
  /\ owed[peer[c]] = "answer"
  /\ owed' = [owed EXCEPT ![peer[c]] = "nothing"]
  /\ \E id \in {0, peer[c]} : chat' = [chat EXCEPT ![c] = id]
  /\ UNCHANGED <<asks, peer, accepting, unread>>

Say(c) ==
  /\ chat[c] # 0
  /\ unread' = [unread EXCEPT ![c] = @ + 1]
  /\ UNCHANGED <<asks, peer, owed, accepting, chat>>

Read(c) ==
  /\ peer[c] # 0 /\ unread[peer[c]] > 0
  /\ unread' = [unread EXCEPT ![peer[c]] = @ - 1]
  /\ UNCHANGED <<asks, peer, owed, accepting, chat>>

Next ==
  \E c \in Ids :
    \/ \E id \in Ids \cup OtherIds : Ask(c, id)
    \/ \E b \in Ids : Pair(c, b)
    \/ StopAsking(c) \/ Forget(c) \/ Accept(c) \/ Open(c) \/ Connect(c) \/ Say(c) \/ Read(c)

Spec == Init /\ [][Next]_vars
=============================================================================
