--------------------------- MODULE MCChatSystem ---------------------------
(* Instances of ChatSystem for TLC. *)
EXTENDS ChatSystem

\* An id that is typed and belongs to nobody.
MCOtherIds == {10007}
MCNoOtherIds == {}

\* Users who talk and end nothing; who also close their chats, but answer a
\* request by Accept or not at all, and do not give up their own.
MCTalk == {"ConnectTo", "Accept", "Text"}
MCPolite == MCTalk \cup {"-close"}
MCAll == MCPolite \cup {"Decline", "ESC", "Leave", "Ping", "HelloAll", "Clients"}
MCConnect == {"ConnectTo"}
MCAbort == {"ConnectTo", "ESC"}
=============================================================================
