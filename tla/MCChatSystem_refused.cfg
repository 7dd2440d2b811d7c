\* One client that asks for an id nobody has.
CONSTANTS
  MaxClients = 1
  MaxQueue = 1
  MaxTyped = 1
  OtherIds <- MCOtherIds
  Commands <- MCConnect
SPECIFICATION Spec
INVARIANT RefusedIsReleased
\* Users may stop typing, and an uncaught exception ends the server.
CHECK_DEADLOCK FALSE
