SPECIFICATION Spec
SYMMETRY WorkerSymmetry
CONSTANTS
  Calls = {c1}
  Workers = {w1, w2}
  NoWorker = NoWorker
  MaxAttempts = 3
  MaxArms = 1
  ChecksProvider = TRUE
  StaleReads = TRUE
  LatePosts = TRUE
  Overlap = TRUE
INVARIANT NoFalseSuccess
INVARIANT RaceLoserStops
CHECK_DEADLOCK FALSE
