--------------------------- MODULE OrderedChannel --------------------------
(***************************************************************************)
(* What one direction of a connection promises to the two programs: the    *)
(* messages received are those sent, whole, once each, in their order, as  *)
(* far as the connection lasts.  No socket, no handshake, no buffer.       *)
(***************************************************************************)
EXTENDS Integers, Sequences

CONSTANT Message      \* the messages that can be sent

VARIABLES
  sent,               \* in the order of the calls of Send
  received            \* in the order in which they were queued

Init == sent = <<>> /\ received = <<>>

Send(m) ==
  /\ sent' = Append(sent, m)
  /\ UNCHANGED received

Receive ==
  /\ Len(received) < Len(sent)
  /\ received' = Append(received, sent[Len(received) + 1])
  /\ UNCHANGED sent

Next == Receive \/ \E m \in Message : Send(m)

Spec == Init /\ [][Next]_<<sent, received>>
=============================================================================
