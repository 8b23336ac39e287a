CONSTANTS
  a1 = a1
  a2 = a2
  m1 = m1
  m2 = m2
  m3 = m3
  build = build
  test = test
  solo = solo
  loop = loop
  c1 = c1
  c2 = c2
  None = None
  AgentIds <- MCOneAgent
  MissionIds <- MCMissions
  Phases <- MCPhases
  PhasesOf <- MCPhasesOf
  DependsOn <- MCDependsOn
  Tasks <- MCTasks
  Capable <- MCOneCapable
  MaxRetries = 0
  OwnRetries <- MCOwnRetries
  Callers <- MCCallers
  MaxConcurrentMissions = 2
  MaxTasksPerAgent = 1
  FailFast = TRUE
  DrainFirst = FALSE
SPECIFICATION FairSpec
PROPERTY ShutdownDrains
