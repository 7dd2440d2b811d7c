\* Two clients that ask, accept and talk, with fair scheduling.
CONSTANTS
  MaxClients = 2
  MaxQueue = 1
  MaxTyped = 3
  OtherIds <- MCNoOtherIds
  Commands <- MCTalk
SPECIFICATION FairSpec
INVARIANT NoThrow
PROPERTIES TextAttribution ChatWithAsked ProtocolKept MessagesRead PromptReturns
\* Users may stop typing.
CHECK_DEADLOCK FALSE
