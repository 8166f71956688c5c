\* The four threads of locks.c with its own QUEUE_SIZE and NUM_REQUESTS: the
\* ring becomes full and empty, and is gone round twice.
CONSTANTS
  Producers = {p1, p2}
  Consumers = {c1, c2}
  QUEUE_SIZE = 5
  NUM_REQUESTS = 10
  Nobody = Nobody
SPECIFICATION FairSpec
INVARIANTS
  TypeOK
  NothingLostOrRepeated
  DecisionsHold
  NoEarlyExit
PROPERTIES
  ImplementsQueue
  Termination
