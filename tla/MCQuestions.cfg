SPECIFICATION Spec
CONSTANTS
  RetryCap = 2
  Slots = {1}
  IntakeEnabled = TRUE
  ResearchDesign = FALSE
  QaRequired = FALSE
  SkipReview = FALSE
  ConfigBlockers = FALSE
  STALE_MAX_RETRY = 1
  PLAN_QUALITY_MAX_RETRIES = 1
  EVIDENCE_MAX_REWORK = 1
  MaxRestarts = 0
  MaxQuestions = 1
PROPERTY CancelLeaksOnlyThroughStaleWrites
