SPECIFICATION Spec
CONSTANTS
  N = 2
  Units = 2
  BufferSize = 1
  SourceMayFail = FALSE
  EndsWithData = FALSE
  MayFail = {}
INVARIANTS EmitsWholeSource
CHECK_DEADLOCK FALSE
