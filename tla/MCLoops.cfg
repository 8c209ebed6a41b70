SPECIFICATION LoopsSpec
CONSTANTS
  Findings = {f1, f2}
  ParseErrors = {p1}
  Contract = Contract
  Trees = {d1, d2}
  NoTree = NoTree
  MAX_ITERATIONS = 2
  STALL_THRESHOLD = 2
  EVIDENCE_MAX = 1
  MaxResumes = 1
  Strategies = {"closure_first", "full_re_review"}
INVARIANTS BrakesHold NoBlockerLost PromptSentOnce SuccessEarned
PROPERTIES ReviewLoopSettles AppRunSettles
CHECK_DEADLOCK FALSE
