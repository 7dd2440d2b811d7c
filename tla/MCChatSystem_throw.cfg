\* Two clients that chat and end their chat.
CONSTANTS
  MaxClients = 2
  MaxQueue = 1
  MaxTyped = 2
  OtherIds <- MCNoOtherIds
  Commands <- MCPolite
SPECIFICATION Spec
INVARIANT NoThrow
\* Users may stop typing, and an uncaught exception ends the server.
CHECK_DEADLOCK FALSE
