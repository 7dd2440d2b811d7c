--------------------------- MODULE MCChatServer ---------------------------
(* Instances of ChatServer for TLC. *)
EXTENDS ChatServer

\* An id that is typed and belongs to nobody.
MCOtherIds == {7}
=============================================================================
