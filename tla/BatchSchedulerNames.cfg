\* Two lines of the file may give the same name.
SPECIFICATION FairSpec
CONSTANTS
  Names = {n1, n2}
  Priorities = {1, 2}
  Bursts = {2, 5}
  MAX_TASKS = 3
  DistinctNames = FALSE
PROPERTY
  DeletesTheSelected
