SPECIFICATION Spec
CONSTANTS
  Calls = {c1, c2}
  Workers = {w1}
  NoWorker = NoWorker
  MaxAttempts = 2
  MaxArms = 1
  ChecksProvider = TRUE
  StaleReads = FALSE
  LatePosts = FALSE
  Overlap = FALSE
INVARIANT OneExitPerArm
INVARIANT NoFalseSuccess
INVARIANT CompletedIsFinal
CHECK_DEADLOCK FALSE
