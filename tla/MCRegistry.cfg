\* Three connections: the deque has a first, a middle and a last entry.
CONSTANTS
  MaxConnections = 3
  MaxMessages = 3
SPECIFICATION Spec
INVARIANTS TypeOK  OpenAreHeld IdIsTheOneTold 
PROPERTY LoopReachesAll
\* The bounds end every run.
CHECK_DEADLOCK FALSE
