\* Every file of up to three lines with equal and different priorities, the
\* lowest one -1, and bursts of 0, of less than a quantum, of one quantum and
\* of more than two.
SPECIFICATION FairSpec
CONSTANTS
  Names = {n1, n2, n3}
  Priorities <- MCPriorities
  Bursts = {0, 1, 2, 5}
  MAX_TASKS = 3
  DistinctNames = TRUE
  QUANTUM = 2
INVARIANTS
  TypeOK
  ReportCorrect
  StrictPriority
  TurnsAreFair
PROPERTIES
  ImplementsTimeline
  Termination
