SPECIFICATION Spec
CONSTANTS
  a = a  b = b  c = c
  TrainIds = {a, b, c}
  TrainSize = 3
  MinibatchSize = 2
  N = 1
  Shuffles <- MCShuffles
  JobLists <- MCJobLists
  LMs = {FALSE}
  UseMerge = FALSE
  Malformed = FALSE
  MaxIterations = 2
  MaxFaults = 1
  MaxDraws = 6
INVARIANT ResumeProceeds
CHECK_DEADLOCK FALSE
