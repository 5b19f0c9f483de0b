SPECIFICATION FairSpec
CONSTANTS
  N = 3
  Units = 3
  BufferSize = 2
  SourceMayFail = TRUE
  EndsWithData = TRUE
  MayFail = {0, 2}
INVARIANTS FailureReported 
PROPERTIES LoopEnds
CHECK_DEADLOCK FALSE
