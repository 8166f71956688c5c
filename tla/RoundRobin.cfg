\* Every file of up to four lines with bursts of less than a quantum, of one
\* quantum, of more than one and of more than two, and of 0.
SPECIFICATION FairSpec
CONSTANTS
  Names = {n1, n2, n3, n4}
  Priorities = {1}
  Bursts = {0, 1, 2, 3, 5}
  MAX_TASKS = 4
  DistinctNames = TRUE
  QUANTUM = 2
INVARIANTS
  TypeOK
  ReportCorrect
  TurnsAreFair
PROPERTY
  ImplementsTimeline
