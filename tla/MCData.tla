------------------------------- MODULE MCData -------------------------------
(***************************************************************************)
(* What keeps data: secrets, logs, memories, provisioned resources,        *)
(* configuration, reviews, graphs and manifests. The parts share no state, *)
(* each is on an instance of its own. focus names the part a behaviour is  *)
(* about; the others keep their first state.                               *)
(***************************************************************************)
EXTENDS VaultStore, VaultAccess, SecretRotation, LogPipeline, MemoryTiers, MemoryBackends,
        ProvisionApply, Configuration, ReviewRun, GraphDesign, ManifestReload

CONSTANTS k1, k2, k3, ma1, ma2, x1, x2, x3, n1, n2, n3

MCDrafts ==
  {[kind |-> "Episodic", importance |-> 1, content |-> "x"], [kind |-> "Working", importance |-> 0, content |-> "x"]}

MCAbout ==
  x1 :> [words |-> {"a"}, tags |-> {"t"}, accessed |-> 2, accesses |-> 0, importance |-> 0] @@
  x2 :> [words |-> {"a"}, tags |-> {}, accessed |-> 1, accesses |-> 2, importance |-> 0] @@
  x3 :> [words |-> {"a", "b"}, tags |-> {"t"}, accessed |-> 0, accesses |-> 1, importance |-> 2]
MCQueries == {[word |-> "a", tags |-> {}, max |-> 3], [word |-> "a", tags |-> {"t"}, max |-> 1]}

Declares(provider, version, on) ==
  [provider |-> provider, config |-> [of |-> provider, v |-> version], dependsOn |-> on]
MCTopologies ==
  {"a" :> Declares("agent_pool", 1, {}) @@ "b" :> Declares("agent_pool", 1, {"a"}),
   "a" :> Declares("agent_pool", 2, {}) @@ "c" :> Declares("channel", 1, {"a"}),
   "b" :> Declares("channel", 1, {"a"}) @@ "a" :> Declares("agent_pool", 1, {"b"}),
   "b" :> Declares("channel", 1, {})}

\* Two groups that are each other's children, and a child that is missing.
MCInventory ==
  [groups |-> "g1" :> [members |-> {"a1"}, children |-> {"g2"}, vars |-> [k |-> "x"]] @@
              "g2" :> [members |-> {"a2"}, children |-> {"g1", "gone"}, vars |-> [k |-> "y"]],
   agents |-> "a1" :> EmptyMap @@ "a2" :> [l |-> "x"]]

AlwaysRuns == [op |-> "Always"]
Playing(module, set, remove, notify, when) ==
  [module |-> module, when |-> when, set |-> set, remove |-> remove, notify |-> notify, clearTags |-> {},
   src |-> "k", dest |-> "d", creates |-> {}, removes |-> {}]
MCPlayTasks ==
  {Playing("config", [c |-> "x"], {"e"}, {"h1"}, AlwaysRuns),
   Playing("health", [c |-> "y", e |-> "y"], {}, {"ev"}, [op |-> "Defined", key |-> "k"]),
   Playing("template", EmptyMap, {}, {"h2"},
           [op |-> "And", of |-> {[op |-> "NotEquals", key |-> "k", value |-> "x"],
                                  [op |-> "Not", inner |-> [op |-> "Undefined", key |-> "k"]]}]),
   Playing("channel", [ch |-> "x"], {}, {},
           [op |-> "Or", of |-> {[op |-> "Equals", key |-> "k", value |-> "x"],
                                 [op |-> "Differs", key |-> "l", value |-> "x"]}]),
   [Playing("memory", EmptyMap, {}, {"gone"}, AlwaysRuns) EXCEPT !.clearTags = {"t"}],
   [Playing("command", EmptyMap, {}, {"h1", "ev"}, AlwaysRuns) EXCEPT !.creates = {"c"}, !.removes = {"e"}]}
MCHandlers ==
  <<[name |-> "h1", listen |-> {}], [name |-> "h2", listen |-> {"ev"}], [name |-> "h3", listen |-> {"ev"}]>>

MCProviders == <<"vault", "env">>
MCTemplates == {<<"a", "b">>, <<"b", Unclosed>>}

MCRoles == <<"correctness", "security">>
MCWeight == n1 :> 1 @@ n2 :> 2 @@ n3 :> 3
MCEstimate == n1 :> 0 @@ n2 :> 1 @@ n3 :> 2
MCFiles == <<"f1", "f2">>

VARIABLE focus

vars == <<vaultVars, accessVars, rotationVars, logVars, memoryVars, backendVars, contextVars, episodeVars,
          provisionVars, configurationVars, reviewVars, designVars, reloadVars, focus>>

Foci == {"vault", "access", "rotation", "log", "consolidation", "compaction", "backends", "context", "episodes",
         "provision", "variables", "tasks", "roles", "review", "planning", "editing", "scan", "catalog"}

\* A part out of focus with several first states starts in one of them.
OneOutOfFocus ==
  /\ focus # "rotation" => current = [s \in RotSecrets |-> 0]
  /\ focus # "backends" => backend = "memory"
  /\ focus # "context" => saved = EmptyMap
  /\ focus # "review" => reviewed = 0

Init ==
  /\ focus \in Foci
  /\ OneOutOfFocus
  /\ VaultInit /\ AccessInit /\ RotationInit /\ LogInit /\ MemoryInit /\ BackendInit /\ ContextInit
  /\ EpisodeInit /\ ProvisionInit /\ ConfigurationInit /\ ReviewInit /\ DesignInit /\ ReloadInit

\* Only the part in focus moves.
OthersStill ==
  /\ focus # "vault" => UNCHANGED vaultVars
  /\ focus # "access" => UNCHANGED accessVars
  /\ focus # "rotation" => UNCHANGED rotationVars
  /\ focus # "log" => UNCHANGED logVars
  /\ focus \notin {"consolidation", "compaction"} => UNCHANGED memoryVars
  /\ focus # "backends" => UNCHANGED backendVars
  /\ focus # "context" => UNCHANGED contextVars
  /\ focus # "episodes" => UNCHANGED episodeVars
  /\ focus # "provision" => UNCHANGED provisionVars
  /\ focus \notin {"variables", "tasks", "roles"} => UNCHANGED configurationVars
  /\ focus # "review" => UNCHANGED reviewVars
  /\ focus \notin {"planning", "editing"} => UNCHANGED designVars
  /\ focus \notin {"scan", "catalog"} => UNCHANGED reloadVars

\* Bounds of one focus each. Keys and salts are drawn in one order: which is
\* which makes no difference.
DrawnInOrder ==
  /\ k2 \in issued' => k1 \in issued'
  /\ k3 \in issued' => k2 \in issued'
  /\ ma2 \in issued' => ma1 \in issued'

\* Plans are of graphs whose nodes were added in the order of their weights,
\* edits and walks of graphs with one kind of edge.
InOrder == \A j \in DOMAIN slots' : \A k \in 1 .. j - 1 : Weight[slots'[k]] < Weight[slots'[j]]
OneCondition == \A a \in arcs' : a.cond = "OnSuccess"

IndexOfTwo == index' # <<>> => Len(recorded') <= 2
TwoMemories == memCount' <= 2
RecallOfTwo == recalls' > 0 => memCount' <= 2
OnePush == pushes' <= 1

\* A walk is in a store nothing of which was written back; its result is taken at once.
WalkOrFlush ==
  (\E c \in StoreClients : storeCall'[c].op \in {"scan", "done"}) => durable' = 0 /\ restarts' = 0
TakenAtOnce == \A c \in StoreClients : storeCall[c].op = "done" => storeCall'[c].op # "done"

Next ==
  /\ UNCHANGED focus
  /\ OthersStill
  /\ \/ focus = "vault" /\ VaultNext /\ DrawnInOrder
     \/ focus = "access" /\ AccessNext
     \/ focus = "rotation" /\ RotationNext
     \/ focus = "log" /\ (WriteNext \/ SweepNext)
     \/ focus = "consolidation" /\ (MemoryUse \/ RecallNext \/ ConsolidateNext) /\ RecallOfTwo
     \/ focus = "compaction" /\ (MemoryUse \/ CompactNext) /\ TwoMemories
     \/ focus = "backends" /\ BackendNext /\ WalkOrFlush /\ TakenAtOnce
     \/ focus = "context" /\ ContextNext
     \/ focus = "episodes" /\ EpisodeNext /\ IndexOfTwo
     \/ focus = "provision" /\ ProvisionNext
     \/ focus = "variables" /\ VariableNext
     \/ focus = "tasks" /\ ((\E a \in DOMAIN Inventory.agents : PushAgentVars(a)) \/ TaskNext) /\ OnePush
     \/ focus = "roles" /\ RoleNext
     \/ focus = "review" /\ ReviewNext
     \/ focus = "planning" /\ (BuildNext \/ PlanNext) /\ InOrder
     \/ focus = "editing" /\ (BuildNext \/ ShrinkNext \/ WalkNext) /\ OneCondition
     \/ focus = "scan" /\ (FileNext \/ ScanNext)
     \/ focus = "catalog" /\ (FileNext \/ CatalogNext)

Spec == Init /\ [][Next]_vars
=============================================================================
