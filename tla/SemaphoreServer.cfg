\* The program's own constants and its four threads.
CONSTANTS
  Producers = {p1, p2}
  Consumers = {c1, c2}
  QUEUE_SIZE = 5
  NUM_REQUESTS = 10
SPECIFICATION FairSpec
INVARIANTS
  TypeOK
  SlotsAccounted
  SlotsTrusted
  OverrunBounded
PROPERTIES
  ImplementsQueue
  Termination
