CONSTANTS
  Pauses = {1, 2}
  Decisions = {"approve"}
  None = None
  Slots = {1, 2}
  MaxLog = 3
  Polls = 1
SPECIFICATION Spec
INVARIANT NothingMissed
PROPERTIES StopsReconnecting PauseIsVisible HelperComesBack
CHECK_DEADLOCK FALSE
