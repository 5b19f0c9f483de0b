SPECIFICATION Spec
CONSTANTS
  PipeSize = 1
  MaxLines = 3
  Writers = {w1, w2, w3}
  Limit = 2
  NumFiles = 2
  MaxChunks = 2
  Capacity = 2
  Dirs = {d1, d2}
  maxFileAge = 1
  MaxTime = 3
  Goroutines = {g1, g2, g3}
  Nobody = Nobody
  EnvLevel = 2
INVARIANTS TypesOK OutputFaithful SuccessMeansWhole WritersTogether NoErrorMeansGone OneLogger
PROPERTIES YoungKept CallsReturn
