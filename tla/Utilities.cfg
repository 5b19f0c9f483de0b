SPECIFICATION AllSpec
CONSTANTS
  Keys = {k1, k2, k3}
  Values = {v1, v2}
  Size = 2
  Expires = TRUE
  ExpiryMillis = 1
  MaxTime = 3
  NoValue = noValue
  RetryLimit = 3
  MaxTokens = 2
  MaxAtoi = 2
  Tokens <- MCTokens
  MaxInt = 7
  MaxInt64 = 31
  MaxEntries = 4
  MoveTrees <- MCMoveTrees
INVARIANTS TypesOK ListMatchesMap HonestResult ReleaseOrder ValueKept  WalkFaithful NothingLost SuccessMeansDone
PROPERTIES NotifiedOnce ImplementsRecencyCache CallsReturn
