CONSTANTS
  t1 = t1
  t2 = t2
  plain = plain
  changed = changed
  s1 = s1
  s2 = s2
  p1 = p1
  p2 = p2
  v1 = v1
  v2 = v2
  k1 = k1
  None = None
  Principals <- MCPrincipals
  TaskIds <- MCTaskIds
  Payloads <- MCPayloads
  Requests <- MCRequests
  EffectKeys <- MCEffectKeys
  Outputs <- MCOutputs
  Sessions <- MCSessions
SPECIFICATION FairSpec
INVARIANTS
  LedgerConsistent
  AckedIsDurable
PROPERTIES
  KeepsPromise
  WaitersProceed
