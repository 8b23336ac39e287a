--------------------------- MODULE NodeBootstrap ----------------------------
(***************************************************************************)
(* From a configuration to a node (crates/daf-runtime: config.rs,          *)
(* bootstrap.rs, the builder of runtime.rs).  A configuration is built in, *)
(* or read from a file; the environment overrides some of its fields, set  *)
(* or not, parsable or not; then bootstrap, or RuntimeBuilder::build,      *)
(* makes a Runtime of it.  Directories outlive an attempt that failed, and *)
(* the next attempt finds them.                                            *)
(***************************************************************************)
EXTENDS Naturals, Sequences, FiniteSets

CONSTANTS
  YamlFiles,    \* what the file may hold: a RuntimeConfig, or Garbled
  Garbled,      \* a file that cannot be read or parsed
  EnvSettings,  \* what the environment may set: fields with values or Garbled
  DataDirs,     \* the directories of step 2, in order
  NoConfig,
  MaxAttempts   \* attempts to make a runtime (a bound)

VARIABLES
  nodeConfig,   \* the configuration under construction
  fileRead,     \* history: it came from a file
  overridden,   \* history: what the environment set in it
  bootStep,     \* where bootstrap is
  dirsMade,     \* the directories that exist
  nodeMade,     \* the configuration of the Runtime that was returned
  bootstrapped, \* history: bootstrap returned it
  attempts

bootVars == <<nodeConfig, fileRead, overridden, bootStep, dirsMade, nodeMade, bootstrapped, attempts>>

\* The fields that are checked or overridden; a count or duration is zero or not.
RuntimeConfig ==
  [node_name : {"", "node", "long"}, max_agents : 0..1, shutdown_timeout : 0..1, max_connections : 0..1,
   read_buffer_size : 0..1, hot_capacity : 0..1, max_concurrent_missions : 0..1,
   heartbeat_interval : 0..1, level : {"info", "bad"}]

\* RuntimeConfig::development.
Development ==
  [node_name |-> "node", max_agents |-> 1, shutdown_timeout |-> 1, max_connections |-> 1,
   read_buffer_size |-> 1, hot_capacity |-> 1, max_concurrent_missions |-> 1,
   heartbeat_interval |-> 1, level |-> "info"]

\* validate; the log level is not looked at.
Validates(c) ==
  /\ c.node_name \notin {"", "long"}
  /\ c.max_agents > 0 /\ c.shutdown_timeout > 0
  /\ c.max_connections > 0 /\ c.read_buffer_size > 0
  /\ c.hot_capacity > 0
  /\ c.max_concurrent_missions > 0 /\ c.heartbeat_interval > 0

\* What the environment sets, and a configuration after it.
Parsed(env) == {k \in DOMAIN env : env[k] # Garbled}
Override(c, env) == [k \in DOMAIN c |-> IF k \in Parsed(env) THEN env[k] ELSE c[k]]

\* A file that parses holds a configuration, and what parses of the environment
\* is a value of its field; no directory is listed twice.
ASSUME BootAssumption ==
  /\ YamlFiles \subseteq RuntimeConfig \cup {Garbled}
  /\ \A env \in EnvSettings : \A c \in RuntimeConfig : Override(c, env) \in RuntimeConfig
  /\ NoConfig \notin RuntimeConfig
  /\ DataDirs \in Seq({DataDirs[i] : i \in DOMAIN DataDirs})
  /\ \A i, j \in DOMAIN DataDirs : DataDirs[i] = DataDirs[j] => i = j
  /\ MaxAttempts \in Nat

\* The steps of bootstrap after validation. The ones from transport to
\* orchestrator, health and the built-in agents do nothing yet, and never fail.
BootSteps == <<"tracing", "dirs", "transport", "memory", "registry", "logger", "orchestrator",
               "runtime", "health", "agents", "join">>

BootTypeOK ==
  /\ nodeConfig \in RuntimeConfig \cup {NoConfig}
  /\ fileRead \in BOOLEAN
  /\ bootStep \in 0 .. Len(BootSteps)
  /\ dirsMade \subseteq {DataDirs[i] : i \in DOMAIN DataDirs}
  /\ nodeMade \in RuntimeConfig \cup {NoConfig}
  /\ bootstrapped \in BOOLEAN
  /\ attempts \in 0..MaxAttempts

BootInit ==
  /\ nodeConfig = NoConfig
  /\ fileRead = FALSE
  /\ overridden = {}
  /\ bootStep = 0
  /\ dirsMade = {}
  /\ nodeMade = NoConfig
  /\ bootstrapped = FALSE
  /\ attempts = 0

-----------------------------------------------------------------------------
(* The configuration *)

Configured == nodeConfig # NoConfig

\* RuntimeConfig::default, or RuntimeBuilder::new.
TakeDevelopment ==
  /\ ~Configured
  /\ attempts < MaxAttempts
  /\ nodeConfig' = Development
  /\ fileRead' = FALSE
  /\ overridden' = {}
  /\ attempts' = attempts + 1
  /\ nodeMade' = NoConfig
  /\ UNCHANGED <<bootStep, dirsMade, bootstrapped>>

\* from_yaml: read, parsed and validated, or an error.
FromYaml(f) ==
  /\ ~Configured
  /\ attempts < MaxAttempts
  /\ attempts' = attempts + 1
  /\ IF f # Garbled /\ Validates(f)
     THEN nodeConfig' = f /\ fileRead' = TRUE
     ELSE UNCHANGED <<nodeConfig, fileRead>>
  /\ overridden' = {}
  /\ nodeMade' = NoConfig
  /\ UNCHANGED <<bootStep, dirsMade, bootstrapped>>

\* apply_env_overrides: a value that does not parse is passed over, and
\* nothing is validated.
ApplyEnvOverrides(env) ==
  /\ Configured
  /\ bootStep = 0
  /\ overridden = {}
  /\ overridden' = Parsed(env)
  /\ nodeConfig' = Override(nodeConfig, env)
  /\ UNCHANGED <<fileRead, bootStep, dirsMade, nodeMade, bootstrapped, attempts>>

-----------------------------------------------------------------------------
(* bootstrap *)

\* The error goes to the caller, which may start again.
BootGivesUp ==
  /\ nodeConfig' = NoConfig
  /\ bootStep' = 0
  /\ UNCHANGED <<fileRead, overridden, dirsMade, nodeMade, bootstrapped, attempts>>

\* Mutant: a configuration from a file is not validated again.
Bootstrap_TrustsFile ==
  /\ Configured
  /\ bootStep = 0
  /\ IF fileRead \/ Validates(nodeConfig)
     THEN bootStep' = 1 /\ UNCHANGED <<nodeConfig, fileRead, overridden, dirsMade, nodeMade, bootstrapped, attempts>>
     ELSE BootGivesUp

\* Validation comes first.
Bootstrap ==
  /\ Configured
  /\ bootStep = 0
  /\ IF Validates(nodeConfig)
     THEN bootStep' = 1 /\ UNCHANGED <<nodeConfig, fileRead, overridden, dirsMade, nodeMade, bootstrapped, attempts>>
     ELSE BootGivesUp

AtStep(s) == bootStep > 0 /\ BootSteps[bootStep] = s

\* init_tracing: the log level must parse; a subscriber that is there already
\* is only noted.
InitTracing ==
  /\ AtStep("tracing")
  /\ IF nodeConfig.level = "info"
     THEN bootStep' = bootStep + 1 /\ UNCHANGED <<nodeConfig, fileRead, overridden, dirsMade, nodeMade, bootstrapped, attempts>>
     ELSE BootGivesUp

\* create_data_dirs: one by one, those that are missing.
MissingDirs == {i \in DOMAIN DataDirs : DataDirs[i] \notin dirsMade}
CreateDataDir ==
  /\ AtStep("dirs")
  /\ IF MissingDirs = {}
     THEN bootStep' = bootStep + 1 /\ UNCHANGED dirsMade
     ELSE /\ dirsMade' = dirsMade \cup {DataDirs[CHOOSE i \in MissingDirs : \A j \in MissingDirs : i <= j]}
          /\ UNCHANGED bootStep
  /\ UNCHANGED <<nodeConfig, fileRead, overridden, nodeMade, bootstrapped, attempts>>

\* The directory cannot be created.
CreateDataDirFails ==
  /\ AtStep("dirs")
  /\ MissingDirs # {}
  /\ BootGivesUp

InitSubsystem ==
  /\ \E s \in {"transport", "memory", "registry", "logger", "orchestrator", "health", "agents"} : AtStep(s)
  /\ bootStep' = bootStep + 1
  /\ UNCHANGED <<nodeConfig, fileRead, overridden, dirsMade, nodeMade, bootstrapped, attempts>>

\* RuntimeBuilder::build: no directory, no tracing, Runtime::new alone.
Build ==
  /\ Configured
  /\ bootStep = 0
  /\ IF Validates(nodeConfig)
     THEN /\ nodeMade' = nodeConfig
          /\ bootstrapped' = FALSE
          /\ nodeConfig' = NoConfig
          /\ UNCHANGED <<fileRead, overridden, bootStep, dirsMade, attempts>>
     ELSE BootGivesUp

\* Runtime::new validates what bootstrap has validated.
NewRuntime ==
  /\ AtStep("runtime")
  /\ Validates(nodeConfig)
  /\ bootStep' = bootStep + 1
  /\ UNCHANGED <<nodeConfig, fileRead, overridden, dirsMade, nodeMade, bootstrapped, attempts>>

\* cluster_join announces nothing yet; bootstrap returns the runtime.
ClusterJoin ==
  /\ AtStep("join")
  /\ nodeMade' = nodeConfig
  /\ bootstrapped' = TRUE
  /\ nodeConfig' = NoConfig
  /\ bootStep' = 0
  /\ UNCHANGED <<fileRead, overridden, dirsMade, attempts>>

BootNext ==
  \/ TakeDevelopment
  \/ \E f \in YamlFiles : FromYaml(f)
  \/ \E env \in EnvSettings : ApplyEnvOverrides(env)
  \/ Bootstrap \/ InitTracing \/ CreateDataDir \/ CreateDataDirFails
  \/ Build \/ InitSubsystem \/ NewRuntime \/ ClusterJoin

BootSpec == BootInit /\ [][BootNext]_bootVars

-----------------------------------------------------------------------------
(* Properties *)

(***************************************************************************)
(* A step of bootstrap that touches the machine runs only for a            *)
(* configuration that validates as it then is: overrides that come after   *)
(* the file was validated do not get past it. A node that bootstrap        *)
(* returned has all its directories and a log level that parses, and an    *)
(* attempt that failed leaves the first directories, never a later one.    *)
(***************************************************************************)
BootedSound ==
  /\ bootStep > 0 => Validates(nodeConfig)
  /\ nodeMade # NoConfig => Validates(nodeMade)
  /\ nodeMade # NoConfig /\ bootstrapped => nodeMade.level = "info" /\ MissingDirs = {}
  /\ \A i \in DOMAIN DataDirs : DataDirs[i] \in dirsMade => \A j \in 1..i : DataDirs[j] \in dirsMade

(***************************************************************************)
(* A bootstrapped node is complete and runs on a configuration that was    *)
(* validated.                                                              *)
(***************************************************************************)
BootSound == BootTypeOK /\ BootedSound
=============================================================================
