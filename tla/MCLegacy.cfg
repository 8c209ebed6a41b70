SPECIFICATION Spec
CONSTANTS
  RetryCap = 3
  Slots = {1, 2}
  IntakeEnabled = FALSE
  ResearchDesign = FALSE
  QaRequired = FALSE
  SkipReview = FALSE
  ConfigBlockers = FALSE
  STALE_MAX_RETRY = 2
  PLAN_QUALITY_MAX_RETRIES = 2
  EVIDENCE_MAX_REWORK = 2
  MaxRestarts = 1
  MaxQuestions = 0
INVARIANTS
  TypeOK
  OperatorInputHold
  ExclusiveRun
  DoneEarned
  NoWorkAfterDone
  RetryWindow
  ReworkScope
PROPERTIES
  HoldLeftToHuman
  VerifiedTerminal
