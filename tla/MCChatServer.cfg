\* Three clients: two can be paired while the third asks for one of them.  Two
\* slots: a sweep happens while another message waits.
CONSTANTS
  MaxClients = 3
  MaxQueue = 2
  OtherIds <- MCOtherIds
SPECIFICATION Spec
INVARIANTS TypeOK PairsSymmetric EraseDefined PeerHeldOrGone
PROPERTIES RelayedBetweenPeers
\* An uncaught exception ends the process.
CHECK_DEADLOCK FALSE
