SPECIFICATION FairSpec
CONSTANTS
  N = 3
  Units = 2
  SourceMayFail = TRUE
INVARIANTS SuccessMeansAll ResultsInPlace NoSendAfterClose
PROPERTIES StopsTogether AllEnd
CHECK_DEADLOCK FALSE
