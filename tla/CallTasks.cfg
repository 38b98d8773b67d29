SPECIFICATION Spec
CONSTANTS
  Functs <- AllFunctions
  Vectors <- SomeVectors
  Percents = {0, 50, 100}
  Sizes = {0, 1, 3}
  Longest = 7
  MaxTasks = 4
INVARIANTS WithinBuffer WriteExact ReadFilled FilledInOrder FailureExplained FreesOwn DumpReadable
PROPERTY AbortFinal
CHECK_DEADLOCK FALSE
