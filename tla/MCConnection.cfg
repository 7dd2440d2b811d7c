\* The ServerAccept and one more message in one direction, two in the other.
CONSTANTS
  MaxSends = 2
  MaxShort = 1
SPECIFICATION FairSpec
INVARIANTS TypeOK WriterNeverStalls RefusedOnlyIfEarly
PROPERTIES ServerHearsInOrder ClientHearsInOrder HandshakeDecided DeliveredOrClosed
\* When both sockets are closed nothing is left to do.
CHECK_DEADLOCK FALSE
