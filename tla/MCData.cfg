SPECIFICATION Spec
CONSTANTS
  SecretNames = {s1}
  SecretValues = {y1, y2}
  KeyIds = {k1, k2, k3}
  Salts = {ma1, ma2}
  Passphrases = {"p", "q"}
  Absent = Absent
  AccessNames = {"a", "b"}
  EnvNames = {"b"}
  ProviderChain <- MCProviders
  Templates <- MCTemplates
  Unclosed = Unclosed
  NoSecret = NoSecret
  MaxSecretIds = 2
  MaxVersions = 2
  MaxAudit = 5
  RotSecrets = {s1}
  RotCallers = {rc1}
  Checkers = {ch1}
  AutoRotated = {s1}
  MaxVersion = 3
  Sources = {o1, o2}
  MaxEntries = 3
  BufferCapacity = 2
  FileSize = 2
  MemoryCapacity = 1
  DirLimit = 2
  MaxMemories = 3
  Drafts <- MCDrafts
  Recallers = {ta1}
  Compactors = {tb1}
  Consolidators = {tc1}
  ToWarm = 1
  ToHot = 2
  MaxAccess = 2
  MaxRecalls = 2
  StoreClients = {sc1}
  MemoryKeys = {1, 2}
  Labels = {"u", "v"}
  MaxWrites = 3
  MaxRestarts = 1
  k1 = k1
  k2 = k2
  k3 = k3
  ma1 = ma1
  ma2 = ma2
  x1 = x1
  x2 = x2
  x3 = x3
  ContextIds = {x1, x2, x3}
  ContextCapacity = 2
  About <- MCAbout
  Queries <- MCQueries
  Speakers = {sp1, sp2}
  MaxRecorded = 3
  Topologies <- MCTopologies
  Appliers = {pa1, pa2}
  MaxPids = 4
  MaxMishaps = 2
  VarKeys = {"k", "l"}
  VarValues = {"x", "y"}
  MaxPushes = 3
  Inventory <- MCInventory
  PlayTasks <- MCPlayTasks
  Handlers <- MCHandlers
  RoleNames = {"p", "q", "r"}
  RoleOrder <- MCRoles
  ReviewProcs = {p1, p2}
  MaxRetries = 1
  MaxEvents = 2
  MaxReviewRuns = 2
  MaxEdits = 1
  NoJournal = NoJournal
  Free = Free
  n1 = n1
  n2 = n2
  n3 = n3
  NodeIds = {n1, n2, n3}
  Conds = {"OnSuccess", "OnFailure"}
  WaveLimit = 1
  Weight <- MCWeight
  Estimate <- MCEstimate
  ManifestFiles <- MCFiles
  TypeNames = {"t1", "t2"}
  MaxFileEdits = 3
INVARIANTS
  VaultSound
  AccessSound
  
  
  
  BackendsFaithful
  ApplyRecoverable
  
  
  
PROPERTIES
  ReviewDisciplined
CHECK_DEADLOCK FALSE
