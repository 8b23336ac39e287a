CONSTANTS
  t1 = t1
  plain = plain
  changed = changed
  s1 = s1
  s2 = s2
  p1 = p1
  p2 = p2
  v1 = v1
  c1 = c1
  good = good
  other = other
  None = None
  Principals <- MCPrincipals
  TaskIds <- MCTaskIds
  Payloads <- MCPayloads
  Requests <- MCRequests
  EffectKeys = {}
  Outputs <- MCOneOutput
  Sessions <- MCSessions
  Clients <- MCClients
  Credentials <- MCCredentials
  Verify <- MCVerify
  Authorize <- MCAuthorize
  MaxSessions = 2
SPECIFICATION FairWorkerSpec
INVARIANTS
  WorkerSafe
PROPERTIES
  WorkerProgresses
