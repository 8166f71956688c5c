\* The program's own constants and four threads, with two wakeups that
\* nobody signalled.
CONSTANTS
  Producers = {p1, p2}
  Consumers = {c1, c2}
  QUEUE_SIZE = 5
  NUM_REQUESTS = 10
  MAX_SPURIOUS = 2
  Nobody = Nobody
SPECIFICATION FairSpec
INVARIANTS
  TypeOK
  NothingLostOrRepeated
  DecisionsHold
  NoLostWakeup
PROPERTIES
  ImplementsQueue
  ProducersAndAConsumerReturn
\* A consumer that still waits when the last request is processed is never
\* woken (see the README): the system stops there.
CHECK_DEADLOCK FALSE
