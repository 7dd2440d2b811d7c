\* The server's reader, which sleeps in wait().
CONSTANTS
  Producers = {p1, p2}
  Consumer = consumer
  Free = free
  LowCpu = TRUE
  MaxMessages = 2
  MaxPush = 2
SPECIFICATION FairSpec
PROPERTY PushedIsHandled
CHECK_DEADLOCK FALSE
