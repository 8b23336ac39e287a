SPECIFICATION Spec
CONSTANTS
  Starters = {s1, s2}
  Stoppers = {p1, p2}
  Loops = {watch, reload}
  NoCaller = NoCaller
  compile = compile
  test = test
  publish = publish
  FileOrder <- MCFileOrder
  UnknownName = UnknownName
  Parallelisms = {1, 2}
  AgentIds = {a1, a2}
  Strategies <- MCStrategies
  MaxRestarts = 2
  TimeWindow = 1
  StaleAfter = 0
  MaxTime = 2
  Controllers = {c1}
  Messages = {m1, m2, m3}
  Authorized = {m1}
  Routed = {m1, m2}
  SdkTasks = {k1, k2}
  TaskSlots = 1
  Stacks <- MCStacks
  SdkRetries = 1
  InstanceRestarts = 1
  RegAgents = {"r1", "r2"}
  Declared <- MCDeclared
  Requests <- MCRequests
  AgentStatus = {"Spawning"}
  Registrars = {g1, g2}
  DegradeAfter = 1
  UnhealthyAfter = 2
  DeregisterAfter = 2
  NoAgent = NoAgent
  Released = 2
  Unparsable = Unparsable
  Peers = {n1, n2}
  Cleaners = {w1}
  Subsystems = {cpu, mem}
  PlanPhases = {"a", "b", "c"}
  PhaseTasks <- MCPhaseTasks
  MaxTasksPerWave = 2
  Unknown = Unknown
  HandoffIds = {h1, h2}
  HandoffAgents = {d1, d2}
  Specialists = {sp1, sp2}
  Skills <- MCSkills
  RoleOrder <- MCRoleOrder
  Canonical <- MCCanonical
  DefaultRole = "builder"
  NeedSets <- MCNeeds
  ContextKeys = {ck}
  Administrators = {ad1, ad2}
  Unlisted = Unlisted
  MaxAdmin = 3
  YamlFiles <- MCYamlFiles
  Garbled = Garbled
  EnvSettings <- MCEnvSettings
  DataDirs <- MCDataDirs
  NoConfig = NoConfig
  MaxAttempts = 2
INVARIANTS
  BootSound
  RoutingSound
  
  InstanceSound
  RegistrySound
  RetriesBounded
  PeersSound
  
  RuntimeSafe
PROPERTIES
  CallersReturn
  RunnerSound
CHECK_DEADLOCK FALSE
