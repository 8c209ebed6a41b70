SPECIFICATION Spec
CONSTANTS
  a1 = a1
  a2 = a2
  b1 = b1
  agent = agent
  api = api
  Requests = {a1, a2, b1}
  Processes = {agent, api}
  ProcOf <- TwoProcesses
  NoRequest = NoRequest
  LEASE_TTL = 2
  COOLDOWN = 1
  COOLDOWN_WAIT_MAX = 1
  MULTIPLIER_MAX = 2
  QUEUE_LIMIT = 1
  HTTP_RETRY_LIMIT <- OneEachProcess
INVARIANTS
  TypeOK
  SemaphoreExclusive
  LeaseFenced
PROPERTY SlotSpec
