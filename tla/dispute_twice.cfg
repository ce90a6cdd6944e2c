SPECIFICATION Spec
CONSTANTS
  Calls = {c1}
  Workers = {w1}
  NoWorker = NoWorker
  MaxAttempts = 2
  MaxArms = 1
  ChecksProvider = FALSE
  StaleReads = FALSE
  LatePosts = FALSE
  Overlap = FALSE
INVARIANT AtMostOnce
CHECK_DEADLOCK FALSE
