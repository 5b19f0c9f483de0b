SPECIFICATION FairSpec
CONSTANTS
  N = 2
  Units = 1
  BufferSize = 1
  SourceMayFail = TRUE
  EndsWithData = FALSE
  MayFail = {}
PROPERTIES SourceErrorReturned
CHECK_DEADLOCK FALSE
