SPECIFICATION StoresSpec
CONSTANTS
  Parts = {"questions"}
  Profiles = {v, s, l}
  NoProfile = NoProfile
  v = v
  s = s
  l = l
  Capacity <- SomeCapacity
  Preferred = {v}
  Reroute <- SomeRoute
  Artifacts = {a1}
  NoArtifact = NoArtifact
  Families = {"transport"}
  AUDIT_REPORT_TIMEOUT_RECOVERY_MAX_RETRIES = 1
  MaxOperator = 1
  Keys = {k1, k2}
  Unkeyed = {k2}
  Templates = {k1}
  MAX_CYCLES = 2
  MaxBatches = 3
  AutoResume = {TRUE}
  MaxReturns = 1
  Tasks = {t1, t2, t3}
  NoTask = NoTask
  SynthesisTasks = {t3}
  Policies = {"all_children_verified", "synthesis_child_verified"}
  MAX_TASK_HIERARCHY_DEPTH = 2
  LastReport = 1
  Attended = {}
INVARIANT AnswersResume
CHECK_DEADLOCK FALSE
