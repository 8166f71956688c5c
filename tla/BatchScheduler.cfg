\* Every file of up to three lines: equal and different bursts and priorities
\* in every order, a burst of 0 among them, and the empty file.
SPECIFICATION FairSpec
CONSTANTS
  Names = {n1, n2, n3}
  Priorities = {1, 2, 3}
  Bursts = {0, 2, 5}
  MAX_TASKS = 3
  DistinctNames = TRUE
INVARIANTS
  TypeOK
  ReportCorrect
  ServesInOrder
  WaitsAreMinimal
PROPERTY
  ImplementsTimeline
