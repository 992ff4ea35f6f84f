SPECIFICATION Spec
CONSTANTS
  a = a  b = b  c = c
  TrainIds = {a, b, c}
  TrainSize = 3
  MinibatchSize = 2
  N = 3
  Shuffles <- MCShuffles
  JobLists <- MCJobLists
  LMs = {TRUE, FALSE}
  UseMerge = TRUE
  Malformed = TRUE
  MaxIterations = 3
  MaxFaults = 3
  MaxDraws = 9
INVARIANTS ResumeAgrees EpochCovers JournaledFirst PaidOnce CostAgrees
PROPERTIES ResampleIsSame JournalsKept RunEnds
CHECK_DEADLOCK FALSE
