SPECIFICATION FairSpec
CONSTANTS
  RetryCap = 2
  Slots = {1, 2}
  IntakeEnabled = FALSE
  ResearchDesign = FALSE
  QaRequired = FALSE
  SkipReview = TRUE
  ConfigBlockers = TRUE
  STALE_MAX_RETRY = 1
  PLAN_QUALITY_MAX_RETRIES = 1
  EVIDENCE_MAX_REWORK = 1
  MaxRestarts = 1
  MaxQuestions = 0
INVARIANT DoneEarned
PROPERTIES
  DueBlockReleased
  ClaimReleased
