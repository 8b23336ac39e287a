------------------------------- MODULE MCNode -------------------------------
(***************************************************************************)
(* A node and its agents: parts that share no state, each on an instance   *)
(* of its own. focus names the part a behaviour is about; the others keep  *)
(* their first state.                                                      *)
(***************************************************************************)
EXTENDS RuntimeLifecycle, MissionRunner, Supervisor, AgentInstance,
        AgentRegistry, PeerTracker, SprintPlan, SpecialistRouting, NodeBootstrap

CONSTANTS compile, test, publish

MCFileOrder == <<publish, test, compile>>

MCStrategies == {"one_for_one", "all_for_one", "rest_for_one"}

MCStacks == {<<"timeout", "retry", "auth">>, <<"logging", "retry", "metrics">>}

Version(major, minor, patch, pre) == [major |-> major, minor |-> minor, patch |-> patch, pre |-> pre]

\* Capabilities and requests at the edges of the version operators.
MCDeclared ==
  [a \in RegAgents |->
    IF a = "r1"
    THEN {[name |-> "x", version |-> Version(0, 1, 0, 2)], [name |-> "x", version |-> Version(0, 2, 0, 2)],
          [name |-> "y", version |-> Version(1, 0, 0, 1)]}
    ELSE {[name |-> "x", version |-> Version(0, 1, 1, 2)], [name |-> "y", version |-> Version(2, 0, 0, 1)],
          [name |-> "z", version |-> Unparsable]}]

Requirement(name, op, base, required) ==
  [name |-> name, constraint |-> [op |-> op, base |-> base, high |-> Version(2, 0, 0, 2)], required |-> required]

MCRequests ==
  {{Requirement("x", "caret", Version(0, 1, 1, 2), TRUE), Requirement("z", "exact", ZeroVersion, FALSE)},
   {Requirement("x", "tilde", Version(0, 2, 0, 2), TRUE)},
   {Requirement("x", "gte", Version(0, 1, 0, 1), TRUE), Requirement("y", "range", Version(1, 0, 0, 1), FALSE)},
   {Requirement("y", "lt", Version(2, 0, 0, 2), FALSE), Requirement("z", "any", ZeroVersion, TRUE)}}

MCPhaseTasks == [p \in PlanPhases |-> IF p = "a" THEN 3 ELSE 1]

MCRoleOrder == <<"planner", "builder", "tester">>
MCCanonical == [planner |-> {"planning"}, builder |-> {"implementation"}, tester |-> {"testing", "qa"}]
MCSkills == {{"planning", "testing", "qa"}, {"implementation"}}
MCNeeds == {{}, {"testing"}}

MCYamlFiles == {Garbled, Development, [Development EXCEPT !.max_agents = 0], [Development EXCEPT !.level = "bad"]}
MCEnvSettings ==
  {[max_agents |-> 0], [max_agents |-> Garbled, level |-> "bad"], [node_name |-> "", shutdown_timeout |-> Garbled],
   [node_name |-> "node", shutdown_timeout |-> 1]}
MCDataDirs == <<"data", "logs", "memory", "registry", "tmp">>

VARIABLE focus

parts == <<runtimeVars, runnerVars, supervisorVars, instanceVars, registryVars,
           peerVars, sprintVars, handoffVars, routingVars, bootVars>>
vars == <<parts, focus>>

Foci == {"runtime", "runner", "supervisor", "messages", "tasks", "health", "discovery",
         "peers", "sprint", "handoffs", "routing", "bootstrap"}

\* A part out of focus with several first states starts in one of them.
OneOutOfFocus ==
  /\ focus # "runner" => dependsOn = [t \in RunTasks |-> {}] /\ parallelism = CHOOSE p \in Parallelisms : TRUE
  /\ focus # "supervisor" => strategy = "one_for_one"
  /\ focus # "messages" => stack = CHOOSE s \in Stacks : TRUE
  /\ focus # "sprint" => phaseDeps = [p \in PlanPhases |-> {}]

Init ==
  /\ focus \in Foci
  /\ OneOutOfFocus
  /\ RuntimeInit /\ RunnerInit /\ SupervisorInit /\ InstanceInit /\ RegistryInit
  /\ PeerInit /\ SprintInit /\ HandoffInit /\ RoutingInit /\ BootInit

\* Only the part in focus moves.
OthersStill ==
  /\ focus # "runtime" => UNCHANGED runtimeVars
  /\ focus # "runner" => UNCHANGED runnerVars
  /\ focus # "supervisor" => UNCHANGED supervisorVars
  /\ focus \notin {"messages", "tasks"} => UNCHANGED instanceVars
  /\ focus \notin {"health", "discovery"} => UNCHANGED registryVars
  /\ focus # "peers" => UNCHANGED peerVars
  /\ focus # "sprint" => UNCHANGED sprintVars
  /\ focus # "handoffs" => UNCHANGED handoffVars
  /\ focus # "routing" => UNCHANGED routingVars
  /\ focus # "bootstrap" => UNCHANGED bootVars

\* Bound: a behaviour is about two messages, of any kind.
TwoMessages == Cardinality({m \in Messages : msg'[m].at # "new"}) <= 2

\* Bound: two administrators meet on one agent, and the other one is tied to
\* a context; one task per agent.
OneAgentEach ==
  LET one == CHOOSE a \in Specialists : TRUE
  IN /\ \A a \in Specialists : loadOf'[a] \in {0, 1, Unlisted}
     /\ overlapped' \subseteq {one}
     /\ \A a \in Specialists \ {one} : statusOf'[a] # "Terminated"
     /\ \A tie \in affinities' : tie[2] # one

Next ==
  /\ UNCHANGED focus
  /\ OthersStill
  /\ \/ focus = "runtime" /\ RuntimeNext
     \/ focus = "runner" /\ RunnerNext
     \/ focus = "supervisor" /\ SupervisorNext
     \/ focus = "messages" /\ (ControlNext \/ MessageNext) /\ TwoMessages
     \/ focus = "tasks" /\ (ControlNext \/ TaskNext)
     \/ focus = "health" /\ (RegistrationNext \/ HealthNext)
     \/ focus = "discovery" /\ (RegistrationNext \/ DiscoverNext)
     \/ focus = "peers" /\ PeerNext
     \/ focus = "sprint" /\ SprintNext
     \/ focus = "handoffs" /\ HandoffNext
     \/ focus = "routing" /\ RoutingNext /\ OneAgentEach
     \/ focus = "bootstrap" /\ BootNext

\* RuntimeFairness asks nothing of a node nobody has called; the runner's
\* fairness is its own, where the behaviour is about it.
InRunner(A) == focus = "runner" /\ A /\ OthersStill /\ UNCHANGED focus

Spec ==
  /\ Init /\ [][Next]_vars
  /\ RuntimeFairness
  /\ WF_vars(InRunner(ExecStep))
  /\ \A t \in RunTasks : WF_vars(InRunner(\E o \in Outcomes : CommandEnds(t, o)))
=============================================================================
