\* The four threads of convar.c and no wakeup without a signal.
CONSTANTS
  Producers = {p1, p2}
  Consumers = {c1, c2}
  QUEUE_SIZE = 5
  NUM_REQUESTS = 10
  MAX_SPURIOUS = 0
  Nobody = Nobody
SPECIFICATION FairSpec
PROPERTY EveryThreadReturns
\* A consumer that still waits when the last request is processed is never
\* woken: the system stops there.
CHECK_DEADLOCK FALSE
