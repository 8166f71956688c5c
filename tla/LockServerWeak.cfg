\* The four threads of locks.c under a scheduler that promises a thread
\* nothing about entering a mutex which others take and release.
CONSTANTS
  Producers = {p1, p2}
  Consumers = {c1, c2}
  QUEUE_SIZE = 5
  NUM_REQUESTS = 10
  Nobody = Nobody
SPECIFICATION WeakFairSpec
PROPERTY FullBufferDrains
