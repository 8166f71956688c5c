\* The four threads of semaphores.c, against the comment at its line 84.
CONSTANTS
  Producers = {p1, p2}
  Consumers = {c1, c2}
  QUEUE_SIZE = 5
  NUM_REQUESTS = 10
SPECIFICATION Spec
INVARIANT NothingAfterTheLast
