CONSTANTS
  n1 = n1
  n2 = n2
  n3 = n3
  n4 = n4
  Nodes <- MCNodes
  Graphs <- MCGraphs
  Limits <- MCLimits
  Rank <- MCRank
  MaxRetries <- MCMaxRetries
  InitStates <- MCInitStates
SPECIFICATION FairSpec
INVARIANTS
  DependenciesRespected
  NoTaskOutlivesExecute
  OutcomeSound
PROPERTIES
  ExecutionEnds
