\* One client that asks for an id nobody has and presses ESC.
CONSTANTS
  MaxClients = 1
  MaxQueue = 1
  MaxTyped = 2
  OtherIds <- MCOtherIds
  Commands <- MCAbort
SPECIFICATION Spec
INVARIANT AbortReturns
\* Users may stop typing, and an uncaught exception ends the server.
CHECK_DEADLOCK FALSE
