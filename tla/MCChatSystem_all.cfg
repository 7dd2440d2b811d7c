\* Two clients that use every command.
CONSTANTS
  MaxClients = 2
  MaxQueue = 1
  MaxTyped = 2
  OtherIds <- MCOtherIds
  Commands <- MCAll
SPECIFICATION Spec
INVARIANTS TypeOK WatcherHasCommand
\* Users may stop typing, and an uncaught exception ends the server.
CHECK_DEADLOCK FALSE
