SPECIFICATION SupervisionSpec
CONSTANTS
  Controllers = {c1, c2}
  Messages = {}
  Authorized = {}
  Routed = {}
  SdkTasks = {}
  TaskSlots = 1
  Stacks <- MCStacks
  SdkRetries = 0
  InstanceRestarts = 1
  Topologies <- MCTopologies
  Appliers = {pa1}
  MaxPids = 2
  MaxMishaps = 1
  AgentIds = {a1, a2}
  Strategies = {"all_for_one"}
  MaxRestarts = 2
  TimeWindow = 1
  StaleAfter = 0
  MaxTime = 2
INVARIANT DeadAlwaysStaysDown
CHECK_DEADLOCK FALSE
