SPECIFICATION WaitingSpec
CONSTANTS
  Convs = {c1, c2}
  Sessions = {s1, s2}
  Existing = {s1}
  NoKey = NoKey
  READINESS_MAX_RETRIES = 2
  MaxWakeCycles = 2
  MaxAgentRestarts = 1
INVARIANT StopReachesTurn
PROPERTIES StreamEnds WorkPolled WakeChannelReturns
CHECK_DEADLOCK FALSE
