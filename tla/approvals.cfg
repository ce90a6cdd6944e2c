SPECIFICATION FairSpec
CONSTANTS
  Uses = {a, b, c}
  Gated = {a, b}
  Guarded = {a, c}
  Decisions = {"approve", "deny"}
  Verdicts = {"passed", "blocked"}
  Packages = {"native", "hosted", "unresolvable"}
  None = None
INVARIANT TypeOK
INVARIANT HumanFirst
INVARIANT AskedOnce
INVARIANT PauseIsShown
INVARIANT GuardrailDecides
INVARIANT FinishedIsFinal
PROPERTY ImplementsPausingJob
PROPERTY ClosesOrWaits
PROPERTY AnswerResumes
CHECK_DEADLOCK FALSE
