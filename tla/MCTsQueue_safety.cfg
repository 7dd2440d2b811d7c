\* The server's reader: Update(-1, true), with its message limit brought
\* within reach.
CONSTANTS
  Producers = {p1, p2}
  Consumer = consumer
  Free = free
  LowCpu = TRUE
  MaxMessages = 2
  MaxPush = 3
SPECIFICATION FairSpec
INVARIANTS TypeOK PopDefined NoLostWakeup StopsOnlyInLockCycle WaitsInCycleOrIdle
PROPERTIES FifoSpec PushedIsHandledUnlessStopped
\* The two mutexes are taken in opposite orders: the threads may stop.
CHECK_DEADLOCK FALSE
