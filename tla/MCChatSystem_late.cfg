\* Two clients that also close their chats: an answer may come late.
CONSTANTS
  MaxClients = 2
  MaxQueue = 1
  MaxTyped = 4
  OtherIds <- MCNoOtherIds
  Commands <- MCPolite
SPECIFICATION Spec
PROPERTY TextAttribution
\* Users may stop typing, and an uncaught exception ends the server.
CHECK_DEADLOCK FALSE
