----------------------------- MODULE FifoQueue -----------------------------
(***************************************************************************)
(* What tsqueue promises to the threads that share it: every message that  *)
(* is put is handed to the reader once, in the order the messages were     *)
(* put.  No lock, no condition variable, no thread.                        *)
(***************************************************************************)
EXTENDS Sequences

CONSTANT Message      \* the messages that can be put

VARIABLES
  queue,              \* put and not yet handled
  handled             \* handled, in the order of handling

Init == queue = <<>> /\ handled = <<>>

Put(m) ==
  /\ queue' = Append(queue, m)
  /\ UNCHANGED handled

Handle ==
  /\ queue # <<>>
  /\ handled' = Append(handled, Head(queue))
  /\ queue' = Tail(queue)

Next == Handle \/ \E m \in Message : Put(m)

Spec == Init /\ [][Next]_<<queue, handled>>
=============================================================================
