SPECIFICATION FairSpec
CONSTANTS
  Calls = {c1}
  Workers = {w1, w2}
  NoWorker = NoWorker
  MaxAttempts = 3
  MaxArms = 1
  ChecksProvider = TRUE
  StaleReads = TRUE
  LatePosts = FALSE
  Overlap = FALSE
INVARIANT TypeOK
INVARIANT AtMostOnce
PROPERTY KeepsPromise
PROPERTY EveryCallCloses
CHECK_DEADLOCK FALSE
