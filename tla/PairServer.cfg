\* The constants of "locks copy.c" and "convar copy.c" themselves.
CONSTANTS
  QUEUE_SIZE = 5
  NUM_REQUESTS = 10
SPECIFICATION FairSpec
INVARIANT TypeOK
PROPERTY ImplementsQueue
