\* A message that takes two rounds of the reader's loop, a signal longer than
\* the one byte that is read of it, and enough round trips to get out of step.
CONSTANTS
  MESSAGE <- ThreeLines
  SIGNAL <- TwoBytes
  BUFFER = 2
  ITERATIONS = 4
  PIPE_SIZE = 3
SPECIFICATION FairSpec
INVARIANTS
  TypeOK
  OutputCounts
  ChildrenFirst
  PipesInStep
PROPERTY Termination
