----------------------------- MODULE NodeProofs -----------------------------
(***************************************************************************)
(* Proofs about the parts of a runtime node: its bootstrap, its start and  *)
(* its shutdown, the supervisor, the specialist router, the peer tracker,  *)
(* the registry, the agent instances of the SDK, sprints and handoffs, and *)
(* the mission runner.                                                     *)
(***************************************************************************)
EXTENDS RuntimeLifecycle, NodeBootstrap, Supervisor, SpecialistRouting, PeerTracker, AgentRegistry, AgentInstance,
        SprintPlan, MissionRunner, FiniteSetTheorems, SequenceTheorems, WellFoundedInduction, TLAPS

(***************************************************************************)
(* Start and shutdown. The state moves forward only: nobody drains before  *)
(* the shutdown state is set, nobody is told Ok before it is left, and one *)
(* start owns the background tasks.                                        *)
(***************************************************************************)
OneStart ==
  \A c, d \in Starters : call[c] \in InProgress /\ call[d] \in InProgress => c = d

NoOrphan == (\A c \in Starters : call[c] \notin InProgress) => \A w \in Waiters : waiter[w] = "off"

\* Until the node has left its first state nobody has called start.
StateInv ==
  /\ rtState = "initializing" => \A c \in Starters : call[c] = "idle"
  /\ (\E c \in Callers : call[c] = "draining") => rtState = "shutting_down"

RuntimeInv ==
  RuntimeTypeOK /\ ShutdownsSucceed /\ OneStart /\ NoOrphan /\ StateInv

\* A notification changes where a task waits, never whether it runs.
LEMMA Woken ==
  ASSUME NEW ws \in [Waiters -> WaitState]
  PROVE  /\ NotifyWaiters(ws) \in [Waiters -> WaitState]
         /\ \A w \in Waiters : NotifyWaiters(ws)[w] = "off" <=> ws[w] = "off"
  BY DEF NotifyWaiters, WaitState

LEMMA WaiterMoves ==
  ASSUME RuntimeInv, NEW w \in Waiters, WaiterStep(w) \/ OtherBranch(w)
  PROVE  RuntimeInv'
<1> USE CallerAssumption DEF RuntimeInv, RuntimeTypeOK, ShutdownsSucceed, OneStart, NoOrphan,
          StateInv, Callers, Waiters, InProgress, InShutdown, RuntimeState, WaitState
<1>1. RuntimeTypeOK'
  BY DEF WaiterStep, OtherBranch, Register, CheckFlag, WaitReturns, AfterWait
<1>2. ShutdownsSucceed'
  BY DEF WaiterStep, OtherBranch, Register, CheckFlag, WaitReturns, AfterWait
<1>3. OneStart'
  BY DEF WaiterStep, OtherBranch, Register, CheckFlag, WaitReturns, AfterWait
<1>4. NoOrphan'
  BY DEF WaiterStep, OtherBranch, Register, CheckFlag, WaitReturns, AfterWait
<1>5. StateInv'
  BY DEF WaiterStep, OtherBranch, Register, CheckFlag, WaitReturns, AfterWait
<1> QED
  BY <1>1, <1>2, <1>3, <1>4, <1>5

LEMMA DeadlineForces ==
  ASSUME RuntimeInv, ForceDeadline
  PROVE  RuntimeInv'
<1> DEFINE ws == [waiter EXCEPT !["deadline"] = "done"]
<1>c. waiter' = NotifyWaiters(ws)
  BY DEF ForceDeadline, ForceShutdown
<1>e. forced' = TRUE
  BY DEF ForceDeadline, ForceShutdown
<1> USE CallerAssumption DEF RuntimeInv, RuntimeTypeOK, ShutdownsSucceed, OneStart, NoOrphan,
          StateInv, Callers, Waiters, InProgress, InShutdown, RuntimeState, WaitState
<1>a. "deadline" \in Waiters /\ "listener" \in Waiters
  OBVIOUS
<1>b. ws \in [Waiters -> WaitState]
  OBVIOUS
<1>d. \A w \in Waiters : ws[w] = "off" <=> waiter[w] = "off"
  BY DEF ForceDeadline
<1>f. UNCHANGED <<rtState, triggered, guard, call>>
  BY DEF ForceDeadline
<1>1. RuntimeTypeOK'
  <2> HIDE DEF ws
  <2> QED BY <1>a, <1>b, <1>c, <1>d, <1>e, <1>f, Woken
<1>2. ShutdownsSucceed'
  BY DEF ForceDeadline, ForceShutdown, NotifyWaiters
<1>3. OneStart'
  BY DEF ForceDeadline, ForceShutdown, NotifyWaiters
<1>4. NoOrphan'
  BY DEF ForceDeadline, ForceShutdown, NotifyWaiters
<1>5. StateInv'
  BY DEF ForceDeadline, ForceShutdown, NotifyWaiters
<1> QED
  BY <1>1, <1>2, <1>3, <1>4, <1>5

LEMMA StarterMoves ==
  ASSUME RuntimeInv, NEW c \in Starters, Start(c) \/ Terminate(c) \/ InterruptAgain(c)
  PROVE  RuntimeInv'
<1> DEFINE ws == [waiter EXCEPT !["listener"] = "off"]
<1>a. InterruptAgain(c) => waiter' = NotifyWaiters(ws) /\ forced' = TRUE
  BY DEF InterruptAgain, ForceShutdown
<1> USE CallerAssumption DEF RuntimeInv, RuntimeTypeOK, ShutdownsSucceed, OneStart, NoOrphan,
          StateInv, Callers, Waiters, InProgress, InShutdown, RuntimeState, WaitState
<1>1. RuntimeTypeOK'
  <2>1. CASE Start(c)
    BY <2>1 DEF Start
  <2>2. CASE Terminate(c)
    BY <2>2 DEF Terminate, Trigger
  <2>3. CASE InterruptAgain(c)
    <3>1. ws \in [Waiters -> WaitState] /\ "listener" \in Waiters /\ ws["listener"] = "off"
      OBVIOUS
    <3>2. waiter' \in [Waiters -> WaitState] /\ waiter'["listener"] = "off"
      <4> HIDE DEF ws, WaitState
      <4> QED BY <1>a, <2>3, <3>1, Woken
    <3> QED BY <1>a, <2>3, <3>2 DEF InterruptAgain
  <2> QED BY <2>1, <2>2, <2>3
<1>2. ShutdownsSucceed'
  BY DEF Start, Terminate, InterruptAgain, Trigger
<1>3. OneStart'
  BY DEF Start, Terminate, InterruptAgain, Trigger
<1>4. NoOrphan'
  BY DEF Start, Terminate, InterruptAgain, Trigger
<1>5. StateInv'
  BY DEF Start, Terminate, InterruptAgain, Trigger
<1> QED
  BY <1>1, <1>2, <1>3, <1>4, <1>5

LEMMA ShutdownCalled ==
  ASSUME RuntimeInv, NEW c \in Stoppers, Shutdown(c)
  PROVE  RuntimeInv'
<1> USE CallerAssumption DEF RuntimeInv, RuntimeTypeOK, ShutdownsSucceed, OneStart, NoOrphan,
          StateInv, Callers, Waiters, InProgress, InShutdown, RuntimeState, WaitState
<1>1. RuntimeTypeOK'
  BY DEF Shutdown, Trigger
<1>2. ShutdownsSucceed'
  BY DEF Shutdown, Trigger
<1>3. OneStart'
  BY DEF Shutdown, Trigger
<1>4. NoOrphan'
  BY DEF Shutdown, Trigger
<1>5. StateInv'
  BY DEF Shutdown, Trigger
<1> QED
  BY <1>1, <1>2, <1>3, <1>4, <1>5

LEMMA CallerMoves ==
  ASSUME RuntimeInv, NEW c \in Callers, Notify(c) \/ AcquireLock(c)
  PROVE  RuntimeInv'
<1> USE CallerAssumption DEF RuntimeInv, RuntimeTypeOK, ShutdownsSucceed, OneStart, NoOrphan,
          StateInv, Callers, Waiters, InProgress, InShutdown, RuntimeState, WaitState
<1>1. RuntimeTypeOK'
  BY DEF Notify, AcquireLock, BeginDrain, Aborted, NotifyWaiters
<1>2. ShutdownsSucceed'
  BY DEF Notify, AcquireLock, BeginDrain, ValidTransition
<1>3. OneStart'
  BY DEF Notify, AcquireLock, BeginDrain
<1>4. NoOrphan'
  BY DEF Notify, AcquireLock, BeginDrain, Aborted, NotifyWaiters
<1>5. StateInv'
  BY DEF Notify, AcquireLock, BeginDrain
<1> QED
  BY <1>1, <1>2, <1>3, <1>4, <1>5

LEMMA CallerEnds ==
  ASSUME RuntimeInv, NEW c \in Callers, EndDrain(c) \/ DropCall(c)
  PROVE  RuntimeInv'
<1> DEFINE ws == Aborted(c, waiter)
<1>b. waiter' = NotifyWaiters(ws) \/ waiter' = ws
  BY DEF EndDrain, DropCall, ForceShutdown
<1> USE CallerAssumption DEF RuntimeInv, RuntimeTypeOK, ShutdownsSucceed, OneStart, NoOrphan,
          StateInv, Callers, Waiters, InProgress, InShutdown, RuntimeState, WaitState
<1>a. /\ ws \in [Waiters -> WaitState] /\ "listener" \in Waiters
      /\ c \in Starters => \A w \in Waiters : ws[w] = "off"
      /\ c \notin Starters => ws = waiter
  BY DEF Aborted
<1>c. /\ waiter' \in [Waiters -> WaitState]
      /\ c \in Starters => \A w \in Waiters : waiter'[w] = "off"
      /\ c \notin Starters => \A w \in Waiters : waiter'[w] = "off" <=> waiter[w] = "off"
  <2> HIDE DEF ws, WaitState
  <2> QED BY <1>a, <1>b, Woken
<1>d. forced' \in BOOLEAN
  <2>1. CASE EndDrain(c)
    BY <2>1 DEF EndDrain, ForceShutdown
  <2>2. CASE DropCall(c)
    BY <2>2 DEF DropCall
  <2> QED BY <2>1, <2>2
<1> HIDE DEF ws
<1>1. RuntimeTypeOK'
  <2>1. CASE EndDrain(c)
    BY <1>a, <1>c, <1>d, <2>1 DEF EndDrain, ValidTransition
  <2>2. CASE DropCall(c)
    BY <1>a, <1>c, <1>d, <2>2 DEF DropCall
  <2> QED BY <2>1, <2>2
<1>2. ShutdownsSucceed'
  BY DEF EndDrain, DropCall, ValidTransition
<1>3. OneStart'
  BY DEF EndDrain, DropCall
<1>4. NoOrphan'
  BY <1>a, <1>c DEF EndDrain, DropCall
<1>5. StateInv'
  BY DEF EndDrain, DropCall
<1> QED
  BY <1>1, <1>2, <1>3, <1>4, <1>5

LEMMA OneStartCounted ==
  ASSUME OneStart
  PROVE  Cardinality({c \in Starters : call[c] \in InProgress}) <= 1
<1> DEFINE S == {c \in Starters : call[c] \in InProgress}
<1>1. CASE S = {}
  BY <1>1, FS_EmptySet
<1>2. CASE S # {}
  <2>1. PICK c \in S : TRUE
    BY <1>2
  <2>2. S = {c}
    BY <2>1 DEF OneStart
  <2>3. Cardinality(S) = 1
    BY <2>2, FS_Singleton
  <2> QED BY <2>3
<1> QED BY <1>1, <1>2

LEMMA RuntimeInvInductive == RuntimeSpec => []RuntimeInv
<1>1. RuntimeInit => RuntimeInv
  BY CallerAssumption DEF RuntimeInit, RuntimeInv, RuntimeTypeOK, ShutdownsSucceed, OneStart,
     NoOrphan, StateInv, Callers, Waiters, InProgress, InShutdown, RuntimeState, WaitState
<1>2. RuntimeInv /\ [RuntimeNext]_runtimeVars => RuntimeInv'
  <2> SUFFICES ASSUME RuntimeInv, [RuntimeNext]_runtimeVars PROVE RuntimeInv'
    OBVIOUS
  <2>1. CASE RuntimeNext
    BY <2>1, WaiterMoves, DeadlineForces, StarterMoves, ShutdownCalled, CallerMoves, CallerEnds
       DEF RuntimeNext, CallerStep
  <2>2. CASE UNCHANGED runtimeVars
    BY <2>2 DEF runtimeVars, RuntimeInv, RuntimeTypeOK, ShutdownsSucceed, OneStart, NoOrphan,
       StateInv
  <2> QED BY <2>1, <2>2
<1> QED BY <1>1, <1>2, PTL DEF RuntimeSpec

(***************************************************************************)
(* However many callers start and shut down one node, in whatever order    *)
(* they are signalled, dropped or wait for each other: no caller meets an  *)
(* invalid transition, Ok means stopped, one start owns the node and none  *)
(* leaves a background task behind.                                        *)
(***************************************************************************)
THEOREM RuntimeStaysSafe == RuntimeSpec => []RuntimeSafe
<1>1. RuntimeInv => RuntimeSafe
  BY OneStartCounted DEF RuntimeInv, RuntimeSafe, StartedOnce, NoOrphan
<1> QED BY <1>1, RuntimeInvInductive, PTL

-----------------------------------------------------------------------------
(* Bootstrap *)

\* Every set of natural numbers that is not empty has a least element.
LEMMA LeastNatural ==
  ASSUME NEW T, T \subseteq Nat, T # {}
  PROVE  \E x \in T : \A y \in T : x <= y
<1> DEFINE R == OpToRel(<, Nat)
<1>1. IsWellFoundedOn(R, Nat)
  BY NatLessThanWellFounded
<1>2. \A a, b \in Nat : <<a, b>> \in R <=> a < b
  BY Zenon DEF OpToRel
<1> HIDE DEF R
<1>3. PICK x \in T : \A y \in T : ~ (<<y, x>> \in R)
  BY <1>1, WFMin
<1>4. \A y \in T : ~(y < x)
  BY <1>2, <1>3
<1>5. \A y \in T : x <= y
  BY <1>4
<1> QED BY <1>5

\* Directories are there from the first on.
FirstDirs ==
  \A i \in DOMAIN DataDirs : DataDirs[i] \in dirsMade => \A j \in 1..i : DataDirs[j] \in dirsMade

(***************************************************************************)
(* What each step of bootstrap has already made sure of, and what the node *)
(* it returned last was made from.                                         *)
(***************************************************************************)
StepsChecked ==
  /\ bootStep > 0 => Configured /\ Validates(nodeConfig)
  /\ bootStep > 1 => nodeConfig.level = "info"
  /\ bootStep > 2 => MissingDirs = {}

NodeValid == nodeMade # NoConfig => Validates(nodeMade)
NodeComplete == nodeMade # NoConfig /\ bootstrapped => nodeMade.level = "info" /\ MissingDirs = {}

BootInv == BootTypeOK /\ StepsChecked /\ NodeValid /\ NodeComplete /\ FirstDirs

LEMMA ElevenSteps == Len(BootSteps) = 11
  BY DEF BootSteps

LEMMA StepNumbers ==
  ASSUME bootStep \in 0 .. Len(BootSteps)
  PROVE  /\ AtStep("tracing") <=> bootStep = 1
         /\ AtStep("dirs") <=> bootStep = 2
         /\ AtStep("runtime") <=> bootStep = 8
         /\ AtStep("join") <=> bootStep = 11
         /\ \A s \in {"transport", "memory", "registry", "logger", "orchestrator", "health", "agents"} :
              AtStep(s) => bootStep \in 3..10
  BY DEF AtStep, BootSteps

LEMMA DirsComeInOrder ==
  ASSUME BootInv, CreateDataDir, MissingDirs # {}
  PROVE  FirstDirs' /\ dirsMade' \subseteq {DataDirs[i] : i \in DOMAIN DataDirs} /\ dirsMade \subseteq dirsMade'
<1> DEFINE k == CHOOSE i \in MissingDirs : \A j \in MissingDirs : i <= j
<1>1. MissingDirs \subseteq Nat /\ DOMAIN DataDirs = 1..Len(DataDirs)
  BY BootAssumption DEF MissingDirs
<1>2. k \in MissingDirs /\ \A j \in MissingDirs : k <= j
  BY <1>1, LeastNatural
<1>3. dirsMade' = dirsMade \cup {DataDirs[k]}
  BY DEF CreateDataDir
<1>4. k \in DOMAIN DataDirs /\ \A j \in 1..Len(DataDirs) : j < k => DataDirs[j] \in dirsMade
  BY <1>1, <1>2 DEF MissingDirs
<1> HIDE DEF k
<1>5. FirstDirs'
  BY <1>1, <1>3, <1>4, BootAssumption DEF BootInv, FirstDirs
<1> QED BY <1>3, <1>4, <1>5 DEF BootInv, BootTypeOK

LEMMA DevelopmentTyped == Development \in RuntimeConfig
  BY DEF Development, RuntimeConfig

\* A configuration is taken, built in or from a file, and overridden.
LEMMA ConfigurationKept ==
  ASSUME BootInv,
         \/ TakeDevelopment
         \/ \E f \in YamlFiles : FromYaml(f)
         \/ \E env \in EnvSettings : ApplyEnvOverrides(env)
  PROVE  BootInv'
<1>0. /\ YamlFiles \subseteq RuntimeConfig \cup {Garbled} /\ NoConfig \notin RuntimeConfig /\ MaxAttempts \in Nat
      /\ \A env \in EnvSettings : \A c \in RuntimeConfig : Override(c, env) \in RuntimeConfig
  BY BootAssumption
<1>1. CASE TakeDevelopment
  <2>1. BootTypeOK'
    <3>1. fileRead' \in BOOLEAN /\ bootstrapped' \in BOOLEAN
      BY <1>1 DEF BootInv, BootTypeOK, TakeDevelopment
    <3>2. nodeConfig' \in RuntimeConfig \cup {NoConfig} /\ nodeMade' \in RuntimeConfig \cup {NoConfig}
      BY <1>0, <1>1, DevelopmentTyped DEF BootInv, BootTypeOK, TakeDevelopment, Configured
    <3>3. attempts' \in 0..MaxAttempts
      BY <1>0, <1>1 DEF BootInv, BootTypeOK, TakeDevelopment
    <3> QED BY <1>1, <3>1, <3>2, <3>3 DEF BootInv, BootTypeOK, TakeDevelopment
  <2>2. StepsChecked'
    BY <1>0, <1>1, DevelopmentTyped DEF BootInv, BootTypeOK, StepsChecked, TakeDevelopment,
       Configured
  <2>3. NodeValid'
    BY <1>0, <1>1, DevelopmentTyped DEF BootInv, NodeValid, TakeDevelopment, Configured
  <2>4. NodeComplete'
    BY <1>0, <1>1, DevelopmentTyped DEF NodeComplete, TakeDevelopment
  <2>5. FirstDirs'
    BY <1>0, <1>1, DevelopmentTyped DEF BootInv, FirstDirs, TakeDevelopment, Configured
  <2> QED BY <2>1, <2>2, <2>3, <2>4, <2>5 DEF BootInv
<1>2. ASSUME NEW f \in YamlFiles, FromYaml(f) PROVE BootInv'
  <2>1. BootTypeOK'
    <3>1. fileRead' \in BOOLEAN /\ bootstrapped' \in BOOLEAN
      BY <1>2 DEF BootInv, BootTypeOK, FromYaml
    <3>2. nodeConfig' \in RuntimeConfig \cup {NoConfig} /\ nodeMade' \in RuntimeConfig \cup {NoConfig}
      BY <1>0, <1>2, DevelopmentTyped DEF BootInv, BootTypeOK, FromYaml, Configured
    <3>3. attempts' \in 0..MaxAttempts
      BY <1>0, <1>2 DEF BootInv, BootTypeOK, FromYaml
    <3> QED BY <1>2, <3>1, <3>2, <3>3 DEF BootInv, BootTypeOK, FromYaml
  <2>2. StepsChecked'
    BY <1>0, <1>2, StepNumbers, ElevenSteps DEF BootInv, BootTypeOK, StepsChecked, FromYaml,
       Configured
  <2>3. NodeValid'
    BY <1>0, <1>2, StepNumbers, ElevenSteps DEF NodeValid, FromYaml
  <2>4. NodeComplete'
    BY <1>0, <1>2, StepNumbers, ElevenSteps DEF NodeComplete, FromYaml
  <2>5. FirstDirs'
    BY <1>0, <1>2, StepNumbers, ElevenSteps DEF BootInv, FirstDirs, FromYaml, Configured
  <2> QED BY <2>1, <2>2, <2>3, <2>4, <2>5 DEF BootInv
<1>3. ASSUME NEW env \in EnvSettings, ApplyEnvOverrides(env) PROVE BootInv'
  <2>1. BootTypeOK'
    BY <1>0, <1>3, StepNumbers, ElevenSteps DEF BootInv, BootTypeOK, ApplyEnvOverrides,
       Configured
  <2>2. StepsChecked'
    BY <1>0, <1>3, StepNumbers, ElevenSteps DEF StepsChecked, ApplyEnvOverrides, Configured
  <2>3. NodeValid'
    BY <1>0, <1>3, StepNumbers, ElevenSteps DEF BootInv, NodeValid, ApplyEnvOverrides
  <2>4. NodeComplete'
    BY <1>0, <1>3, StepNumbers, ElevenSteps DEF BootInv, NodeComplete, MissingDirs,
       ApplyEnvOverrides
  <2>5. FirstDirs'
    BY <1>0, <1>3, StepNumbers, ElevenSteps DEF BootInv, FirstDirs, ApplyEnvOverrides,
       Configured
  <2> QED BY <2>1, <2>2, <2>3, <2>4, <2>5 DEF BootInv
<1> QED BY <1>1, <1>2, <1>3

LEMMA GivingUpKept ==
  ASSUME BootInv, BootGivesUp
  PROVE  BootInv'
<1>1. BootTypeOK'
  BY StepNumbers, ElevenSteps DEF BootInv, BootTypeOK, BootGivesUp
<1>2. StepsChecked'
  BY StepNumbers, ElevenSteps DEF StepsChecked, BootGivesUp
<1>3. NodeValid'
  BY StepNumbers, ElevenSteps DEF BootInv, NodeValid, BootGivesUp
<1>4. NodeComplete'
  BY StepNumbers, ElevenSteps DEF BootInv, NodeComplete, MissingDirs, BootGivesUp
<1>5. FirstDirs'
  BY StepNumbers, ElevenSteps DEF BootInv, FirstDirs, BootGivesUp
<1> QED BY <1>1, <1>2, <1>3, <1>4, <1>5 DEF BootInv

LEMMA BootstrapKept ==
  ASSUME BootInv,
         Bootstrap \/ InitTracing \/ CreateDataDir \/ CreateDataDirFails
           \/ Build \/ InitSubsystem \/ NewRuntime \/ ClusterJoin
  PROVE  BootInv'
<1>0. NoConfig \notin RuntimeConfig
  BY BootAssumption
<1>1. ASSUME Bootstrap, ~BootGivesUp PROVE BootInv'
  <2>1. BootTypeOK'
    BY <1>1, StepNumbers, ElevenSteps DEF BootInv, BootTypeOK, Bootstrap, Configured
  <2>2. StepsChecked'
    BY <1>1, StepNumbers, ElevenSteps DEF StepsChecked, Bootstrap, Configured
  <2>3. NodeValid'
    BY <1>1, StepNumbers, ElevenSteps DEF BootInv, NodeValid, Bootstrap
  <2>4. NodeComplete'
    BY <1>1, StepNumbers, ElevenSteps DEF BootInv, NodeComplete, MissingDirs, Bootstrap
  <2>5. FirstDirs'
    BY <1>1, StepNumbers, ElevenSteps DEF BootInv, FirstDirs, Bootstrap, Configured
  <2> QED BY <2>1, <2>2, <2>3, <2>4, <2>5 DEF BootInv
<1>2. ASSUME InitTracing, ~BootGivesUp PROVE BootInv'
  <2>1. BootTypeOK'
    BY <1>2, StepNumbers, ElevenSteps DEF BootInv, BootTypeOK, InitTracing
  <2>2. StepsChecked'
    BY <1>2, StepNumbers, ElevenSteps DEF BootInv, BootTypeOK, StepsChecked, Configured,
       InitTracing
  <2>3. NodeValid'
    BY <1>2, StepNumbers, ElevenSteps DEF BootInv, NodeValid, InitTracing
  <2>4. NodeComplete'
    BY <1>2, StepNumbers, ElevenSteps DEF BootInv, NodeComplete, MissingDirs, InitTracing
  <2>5. FirstDirs'
    BY <1>2, StepNumbers, ElevenSteps DEF BootInv, FirstDirs, InitTracing
  <2> QED BY <2>1, <2>2, <2>3, <2>4, <2>5 DEF BootInv
<1>3. CASE CreateDataDir
  <2>0. MissingDirs # {} => FirstDirs' /\ dirsMade' \subseteq {DataDirs[i] : i \in DOMAIN DataDirs}
          /\ dirsMade \subseteq dirsMade'
    BY <1>3, DirsComeInOrder
  <2>1. BootTypeOK'
    BY <1>3, <2>0, StepNumbers, ElevenSteps DEF BootInv, BootTypeOK, CreateDataDir
  <2>2. StepsChecked'
    BY <1>3, <2>0, StepNumbers, ElevenSteps DEF BootInv, BootTypeOK, StepsChecked, Configured,
       MissingDirs, CreateDataDir
  <2>3. NodeValid'
    BY <1>3, <2>0, StepNumbers, ElevenSteps DEF BootInv, NodeValid, CreateDataDir
  <2>4. NodeComplete'
    BY <1>3, <2>0, StepNumbers, ElevenSteps DEF BootInv, NodeComplete, MissingDirs,
       CreateDataDir
  <2>5. FirstDirs'
    BY <1>3, <2>0, StepNumbers, ElevenSteps DEF BootInv, FirstDirs, CreateDataDir
  <2> QED BY <2>1, <2>2, <2>3, <2>4, <2>5 DEF BootInv
<1>4. CASE CreateDataDirFails
  BY <1>4, GivingUpKept DEF CreateDataDirFails
<1>5. ASSUME Build, ~BootGivesUp PROVE BootInv'
  <2>1. BootTypeOK'
    BY <1>0, <1>5, StepNumbers, ElevenSteps DEF BootInv, BootTypeOK, Build, Configured
  <2>2. StepsChecked'
    BY <1>0, <1>5, StepNumbers, ElevenSteps DEF StepsChecked, Build, Configured
  <2>3. NodeValid'
    BY <1>0, <1>5, StepNumbers, ElevenSteps DEF NodeValid, Build
  <2>4. NodeComplete'
    BY <1>0, <1>5, StepNumbers, ElevenSteps DEF NodeComplete, Build
  <2>5. FirstDirs'
    BY <1>0, <1>5, StepNumbers, ElevenSteps DEF BootInv, FirstDirs, Build, Configured
  <2> QED BY <2>1, <2>2, <2>3, <2>4, <2>5 DEF BootInv
<1>6. CASE InitSubsystem
  <2>1. BootTypeOK'
    BY <1>6, StepNumbers, ElevenSteps DEF BootInv, BootTypeOK, InitSubsystem
  <2>2. StepsChecked'
    BY <1>6, StepNumbers, ElevenSteps DEF BootInv, BootTypeOK, StepsChecked, Configured,
       MissingDirs, InitSubsystem
  <2>3. NodeValid'
    BY <1>6, StepNumbers, ElevenSteps DEF BootInv, NodeValid, InitSubsystem
  <2>4. NodeComplete'
    BY <1>6, StepNumbers, ElevenSteps DEF BootInv, NodeComplete, MissingDirs, InitSubsystem
  <2>5. FirstDirs'
    BY <1>6, StepNumbers, ElevenSteps DEF BootInv, FirstDirs, InitSubsystem
  <2> QED BY <2>1, <2>2, <2>3, <2>4, <2>5 DEF BootInv
<1>7. CASE NewRuntime
  <2>1. BootTypeOK'
    BY <1>7, StepNumbers, ElevenSteps DEF BootInv, BootTypeOK, NewRuntime
  <2>2. StepsChecked'
    BY <1>7, StepNumbers, ElevenSteps DEF BootInv, BootTypeOK, StepsChecked, Configured,
       MissingDirs, NewRuntime
  <2>3. NodeValid'
    BY <1>7, StepNumbers, ElevenSteps DEF BootInv, NodeValid, NewRuntime
  <2>4. NodeComplete'
    BY <1>7, StepNumbers, ElevenSteps DEF BootInv, NodeComplete, MissingDirs, NewRuntime
  <2>5. FirstDirs'
    BY <1>7, StepNumbers, ElevenSteps DEF BootInv, FirstDirs, NewRuntime
  <2> QED BY <2>1, <2>2, <2>3, <2>4, <2>5 DEF BootInv
<1>8. CASE ClusterJoin
  <2>1. BootTypeOK'
    BY <1>0, <1>8, StepNumbers, ElevenSteps DEF BootInv, BootTypeOK, ClusterJoin
  <2>2. StepsChecked'
    BY <1>0, <1>8, StepNumbers, ElevenSteps DEF StepsChecked, ClusterJoin
  <2>3. NodeValid'
    BY <1>0, <1>8, StepNumbers, ElevenSteps DEF BootInv, BootTypeOK, StepsChecked, NodeValid,
       ClusterJoin
  <2>4. NodeComplete'
    BY <1>0, <1>8, StepNumbers, ElevenSteps DEF BootInv, BootTypeOK, StepsChecked, NodeComplete,
       MissingDirs, ClusterJoin
  <2>5. FirstDirs'
    BY <1>0, <1>8, StepNumbers, ElevenSteps DEF BootInv, FirstDirs, ClusterJoin
  <2> QED BY <2>1, <2>2, <2>3, <2>4, <2>5 DEF BootInv
<1> QED BY <1>1, <1>2, <1>3, <1>4, <1>5, <1>6, <1>7, <1>8, GivingUpKept

(***************************************************************************)
(* Whatever the file and the environment say, and however often bootstrap  *)
(* is tried again over the directories of failed attempts: no step touches *)
(* the machine for a configuration that does not validate as it then is,   *)
(* and a node that is returned is complete.                                *)
(***************************************************************************)
THEOREM BootstrapStaysSound == BootSpec => []BootSound
<1>1. BootInit => BootInv
  <2> SUFFICES ASSUME BootInit PROVE BootInv
    OBVIOUS
  <2>0. MaxAttempts \in Nat
    BY BootAssumption
  <2>1. BootTypeOK
    <3>1. fileRead \in BOOLEAN /\ bootstrapped \in BOOLEAN
      BY DEF BootInit
    <3>2. bootStep \in 0 .. Len(BootSteps) /\ attempts \in 0..MaxAttempts
      BY <2>0, ElevenSteps DEF BootInit
    <3> QED BY <3>1, <3>2 DEF BootInit, BootTypeOK
  <2>2. StepsChecked /\ NodeValid /\ NodeComplete /\ FirstDirs
    BY DEF BootInit, StepsChecked, NodeValid, NodeComplete, FirstDirs
  <2> QED BY <2>1, <2>2 DEF BootInv
<1>2. BootInv /\ [BootNext]_bootVars => BootInv'
  <2>1. BootInv /\ BootNext => BootInv'
    BY ConfigurationKept, BootstrapKept DEF BootNext
  <2>2. ASSUME BootInv, UNCHANGED bootVars PROVE BootInv'
    <3>1. BootTypeOK'
      BY <2>2 DEF BootInv, BootTypeOK, bootVars, Configured
    <3>2. StepsChecked'
      BY <2>2 DEF BootInv, StepsChecked, MissingDirs, bootVars, Configured
    <3>3. NodeValid'
      BY <2>2 DEF BootInv, NodeValid, bootVars, Configured
    <3>4. NodeComplete'
      BY <2>2 DEF BootInv, NodeComplete, MissingDirs, bootVars
    <3>5. FirstDirs'
      BY <2>2 DEF BootInv, FirstDirs, bootVars, Configured
    <3> QED BY <3>1, <3>2, <3>3, <3>4, <3>5 DEF BootInv
  <2> QED BY <2>1, <2>2
<1>3. BootInv => BootSound
  BY DEF BootInv, BootSound, BootedSound, StepsChecked, NodeValid, NodeComplete, FirstDirs
<1> QED BY <1>1, <1>2, <1>3, PTL DEF BootSpec

-----------------------------------------------------------------------------
(***************************************************************************)
(* The specialist router. Registration and removal change three tables one *)
(* lock at a time; they agree on every agent one administrator has to itself.*)
(***************************************************************************)

(***************************************************************************)
(* An administrator at work on an agent nobody else touched has left the   *)
(* tables as far as its steps so far took it.                              *)
(***************************************************************************)
AdminRecord ==
  {Resting} \cup [op : {"register"}, agent : Specialists, skills : Skills, at : 1..3]
            \cup [op : {"deregister"}, agent : Specialists, skills : {Unlisted}, at : 1..3]
AloneAt(x, a) == admins[x].agent = a /\ a \notin overlapped

Alone ==
  \A a \in Specialists, x, y \in Administrators : AloneAt(x, a) /\ AloneAt(y, a) => x = y
HalfRegistered ==
  \A a \in Specialists, x \in Administrators : AloneAt(x, a) /\ admins[x].op = "register" =>
    a \in roleIndex[InferredRole(admins[x].skills)] /\ (admins[x].at >= 2 => loadOf[a] # Unlisted)
HalfRemoved ==
  \A a \in Specialists, x \in Administrators : AloneAt(x, a) /\ admins[x].op = "deregister" =>
    skillsOf[a] = Unlisted /\ (admins[x].at >= 2 => loadOf[a] = Unlisted)

AdminsTyped == admins \in [Administrators -> AdminRecord]
RoutingInv == RoutingTypeOK /\ AdminsTyped /\ Alone /\ HalfRegistered /\ HalfRemoved /\ TablesAgree

\* The role inferred from any skills is one of the listed roles.
LEMMA InferredIsRole == \A skills : InferredRole(skills) \in Roles
<1>1. \A tops \in SUBSET DOMAIN RoleOrder : tops # {} => (CHOOSE i \in tops : TRUE) \in DOMAIN RoleOrder
  OBVIOUS
<1> QED BY <1>1, RoleAssumption DEF InferredRole, Roles

\* An administrator is at rest, or its record says what it does.
LEMMA RecordOf ==
  ASSUME AdminsTyped, NEW x \in Administrators
  PROVE  \/ admins[x] = Resting
         \/ /\ admins[x].op = "register" /\ admins[x].agent \in Specialists
            /\ admins[x].skills \in Skills /\ admins[x].at \in 1..3
            /\ admins[x] \in [op : {"register"}, agent : Specialists, skills : Skills, at : 1..3]
         \/ /\ admins[x].op = "deregister" /\ admins[x].agent \in Specialists /\ admins[x].at \in 1..3
            /\ admins[x] \in [op : {"deregister"}, agent : Specialists, skills : {Unlisted}, at : 1..3]
  BY DEF AdminsTyped, AdminRecord

LEMMA RestingIdle == Resting.op = "none" /\ Resting.agent \notin Specialists
  BY RoleAssumption DEF Resting

\* Nobody is at work on a when no administrator's record names it.
LEMMA WorkingNobody == \A a : Working(a) = {} <=> \A x \in Administrators : admins[x].agent # a
  BY DEF Working

\* The administrators and every table but the load stay; entries stay entries.
LEMMA TablesKept ==
  ASSUME RoutingInv, UNCHANGED <<skillsOf, roleIndex, admins, overlapped>>,
         \A a \in Specialists : loadOf'[a] = Unlisted <=> loadOf[a] = Unlisted,
         RoutingTypeOK'
  PROVE  RoutingInv'
<1>1. AdminsTyped' /\ Alone' /\ HalfRegistered' /\ HalfRemoved'
  BY DEF RoutingInv, AdminsTyped, Alone, HalfRegistered, HalfRemoved, AloneAt
<1>2. TablesAgree'
  BY DEF RoutingInv, TablesAgree, Working, AgentsForRole
<1> QED BY <1>1, <1>2 DEF RoutingInv

LEMMA StartKept ==
  ASSUME RoutingInv, NEW x \in Administrators, NEW a \in Specialists, NEW op, NEW skills,
         AdminStarts(x, op, a, skills)
  PROVE  /\ admins[x] = Resting /\ admins'[x] = [op |-> op, agent |-> a, skills |-> skills, at |-> 1]
         /\ \A y \in Administrators \ {x} : admins'[y] = admins[y]
         /\ [op |-> op, agent |-> a, skills |-> skills, at |-> 1] \in AdminRecord => AdminsTyped'
         /\ \A b \in Specialists, y \in Administrators :
              AloneAt(y, b)' => (y = x /\ b = a) \/ (y # x /\ b # a /\ AloneAt(y, b))
         /\ Alone' /\ overlapped' \subseteq Specialists
<1>1. /\ admins[x] = Resting /\ admins'[x] = [op |-> op, agent |-> a, skills |-> skills, at |-> 1]
      /\ \A y \in Administrators \ {x} : admins'[y] = admins[y]
  BY DEF AdminStarts, RoutingInv, AdminsTyped
<1>2. [op |-> op, agent |-> a, skills |-> skills, at |-> 1] \in AdminRecord => AdminsTyped'
  BY DEF AdminStarts, RoutingInv, AdminsTyped
<1>3. overlapped' \subseteq Specialists /\ \A b \in Specialists : b \notin overlapped' => b \notin overlapped
  <2>1. overlapped' = overlapped \/ overlapped' = overlapped \cup {a}
    BY DEF AdminStarts
  <2>2. overlapped \subseteq Specialists
    BY DEF RoutingInv, RoutingTypeOK
  <2> QED BY <2>1, <2>2
<1>4. a \notin overlapped' => \A y \in Administrators : admins[y].agent # a
  <2>1. a \notin overlapped' => Working(a) = {}
    BY DEF AdminStarts
  <2> QED BY <2>1, WorkingNobody
<1>5. \A b \in Specialists, y \in Administrators :
              AloneAt(y, b)' => (y = x /\ b = a) \/ (y # x /\ b # a /\ AloneAt(y, b))
  BY <1>1, <1>3, <1>4 DEF AloneAt
<1>6. Alone'
  BY <1>5 DEF Alone, RoutingInv
<1> QED BY <1>1, <1>2, <1>3, <1>5, <1>6

\* register_agent puts the agent into the index, deregister_agent takes the manifest.
LEMMA AdminStartsKept ==
  ASSUME RoutingInv, NEW x \in Administrators, NEW a \in Specialists, NEW skills \in Skills,
         RegisterSpecialist(x, a, skills)
  PROVE  RoutingInv'
<1>0. RoutingTypeOK
  BY DEF RoutingInv
<1>1. AdminStarts(x, "register", a, skills) /\ UNCHANGED <<skillsOf, loadOf, statusOf, affinities, routing>>
  BY DEF RegisterSpecialist
<1>2. PICK role \in Roles : role = InferredRole(skills)
  BY InferredIsRole
<1>3. /\ roleIndex' = [roleIndex EXCEPT ![role] = @ \cup {a}]
      /\ roleIndex \in [Roles -> SUBSET Specialists]
  BY <1>0, <1>2 DEF RegisterSpecialist, RoutingTypeOK
<1>4. /\ roleIndex' \in [Roles -> SUBSET Specialists] /\ a \in roleIndex'[role]
      /\ \A r \in Roles : roleIndex[r] \subseteq roleIndex'[r] /\ roleIndex'[r] \subseteq roleIndex[r] \cup {a}
  BY <1>3
<1>5. admins'[x].op = "register" /\ admins'[x].skills = skills /\ admins'[x].at = 1 /\ admins'[x].agent = a
  <2>1. admins'[x] = [op |-> "register", agent |-> a, skills |-> skills, at |-> 1]
    BY <1>1, StartKept
  <2> QED BY <2>1
<1>6. [op |-> "register", agent |-> a, skills |-> skills, at |-> 1] \in AdminRecord
  BY DEF AdminRecord
<1>7. AdminsTyped' /\ Alone' /\ overlapped' \subseteq Specialists
  BY <1>1, <1>6, StartKept
<1>8. RoutingTypeOK'
  BY <1>0, <1>1, <1>4, <1>7 DEF RoutingTypeOK
<1>9. HalfRegistered'
  <2> SUFFICES ASSUME NEW b \in Specialists, NEW y \in Administrators,
                      AloneAt(y, b)', admins'[y].op = "register"
               PROVE  /\ b \in roleIndex'[InferredRole(admins'[y].skills)]
                      /\ admins'[y].at >= 2 => loadOf'[b] # Unlisted
    BY DEF HalfRegistered, InferredRole
  <2>1. CASE y = x /\ b = a
    BY <1>2, <1>4, <1>5, <2>1
  <2>2. CASE y # x /\ b # a /\ AloneAt(y, b)
    BY <1>1, <1>4, <2>2, StartKept, InferredIsRole DEF RoutingInv, HalfRegistered
  <2> QED BY <1>1, <2>1, <2>2, StartKept
<1>10. HalfRemoved'
  BY <1>1, <1>5, StartKept DEF RoutingInv, HalfRemoved
<1>11. TablesAgree'
  <2> SUFFICES ASSUME NEW b \in Specialists, Working(b)' = {}, b \notin overlapped'
               PROVE  IF skillsOf[b] = Unlisted
                      THEN loadOf[b] = Unlisted /\ \A r \in Roles : b \notin roleIndex'[r]
                      ELSE loadOf[b] # Unlisted /\ b \in roleIndex'[InferredRole(skillsOf[b])]
    BY <1>1 DEF TablesAgree, AgentsForRole, InferredRole, Roles
  <2>1. \A y \in Administrators : admins'[y].agent # b
    BY DEF Working
  <2>2. b # a
    BY <1>5, <2>1
  <2>3. Working(b) = {} /\ b \notin overlapped
    <3>1. \A y \in Administrators : admins[y].agent # b
      BY <1>1, <2>1, StartKept, RestingIdle
    <3>2. overlapped \subseteq overlapped'
      BY <1>1 DEF AdminStarts
    <3> QED BY <3>1, <3>2, WorkingNobody
  <2> QED BY <1>4, <2>2, <2>3, InferredIsRole DEF RoutingInv, TablesAgree, AgentsForRole
<1> QED BY <1>7, <1>8, <1>9, <1>10, <1>11 DEF RoutingInv

LEMMA RemoveStartsKept ==
  ASSUME RoutingInv, NEW x \in Administrators, NEW a \in Specialists, DeregisterSpecialist(x, a)
  PROVE  RoutingInv'
<1>0. RoutingTypeOK
  BY DEF RoutingInv
<1>1. AdminStarts(x, "deregister", a, Unlisted) /\ UNCHANGED <<loadOf, statusOf, roleIndex, affinities, routing>>
  BY DEF DeregisterSpecialist
<1>2. /\ skillsOf' \in [Specialists -> Skills \cup {Unlisted}] /\ skillsOf'[a] = Unlisted
      /\ \A b \in Specialists \ {a} : skillsOf'[b] = skillsOf[b]
  BY <1>0 DEF DeregisterSpecialist, RoutingTypeOK
<1>3. admins'[x].op = "deregister" /\ admins'[x].at = 1 /\ admins'[x].agent = a
  <2>1. admins'[x] = [op |-> "deregister", agent |-> a, skills |-> Unlisted, at |-> 1]
    BY <1>1, StartKept
  <2> QED BY <2>1
<1>4. [op |-> "deregister", agent |-> a, skills |-> Unlisted, at |-> 1] \in AdminRecord
  BY DEF AdminRecord
<1>5. AdminsTyped' /\ Alone' /\ overlapped' \subseteq Specialists
  BY <1>1, <1>4, StartKept
<1>10. \A y \in Administrators \ {x} : admins'[y] = admins[y]
  BY <1>1, StartKept
<1>11. \A b \in Specialists, y \in Administrators :
         AloneAt(y, b)' => (y = x /\ b = a) \/ (y # x /\ b # a /\ AloneAt(y, b))
  BY <1>1, StartKept
<1>6. RoutingTypeOK'
  BY <1>0, <1>1, <1>2, <1>5 DEF RoutingTypeOK
<1>7. HalfRemoved'
  <2> SUFFICES ASSUME NEW b \in Specialists, NEW y \in Administrators,
                      AloneAt(y, b)', admins'[y].op = "deregister"
               PROVE  skillsOf'[b] = Unlisted /\ (admins'[y].at >= 2 => loadOf[b] = Unlisted)
    BY <1>1 DEF HalfRemoved
  <2>1. CASE y = x /\ b = a
    BY <1>2, <1>3, <2>1
  <2>2. CASE y # x /\ b # a /\ AloneAt(y, b)
    BY <1>2, <1>10, <2>2 DEF RoutingInv, HalfRemoved
  <2> QED BY <1>11, <2>1, <2>2
<1>8. HalfRegistered'
  <2> SUFFICES ASSUME NEW b \in Specialists, NEW y \in Administrators,
                      AloneAt(y, b)', admins'[y].op = "register"
               PROVE  /\ b \in roleIndex[InferredRole(admins'[y].skills)]
                      /\ admins'[y].at >= 2 => loadOf[b] # Unlisted
    BY <1>1 DEF HalfRegistered, InferredRole
  <2> QED BY <1>3, <1>10, <1>11 DEF RoutingInv, HalfRegistered
<1>9. TablesAgree'
  <2> SUFFICES ASSUME NEW b \in Specialists, Working(b)' = {}, b \notin overlapped'
               PROVE  IF skillsOf'[b] = Unlisted
                      THEN loadOf[b] = Unlisted /\ \A r \in Roles : b \notin roleIndex[r]
                      ELSE loadOf[b] # Unlisted /\ b \in roleIndex[InferredRole(skillsOf'[b])]
    BY <1>1 DEF TablesAgree, AgentsForRole, InferredRole, Roles
  <2>1. \A y \in Administrators : admins'[y].agent # b
    BY DEF Working
  <2>2. b # a
    BY <1>3, <2>1
  <2>3. Working(b) = {} /\ b \notin overlapped
    <3>1. \A y \in Administrators : admins[y].agent # b
      BY <1>1, <2>1, StartKept, RestingIdle
    <3>2. overlapped \subseteq overlapped'
      BY <1>1 DEF AdminStarts
    <3> QED BY <3>1, <3>2, WorkingNobody
  <2> QED BY <1>2, <2>2, <2>3 DEF RoutingInv, TablesAgree, AgentsForRole
<1> QED BY <1>5, <1>6, <1>7, <1>8, <1>9 DEF RoutingInv

\* The next step of a register or a deregister.
LEMMA GoesOn ==
  ASSUME RoutingInv, NEW x \in Administrators, admins[x] # Resting, AdminGoes(x), UNCHANGED overlapped
  PROVE  /\ AdminsTyped' /\ Alone'
         /\ \A y \in Administrators \ {x} : admins'[y] = admins[y]
         /\ \/ admins[x].at = 3 /\ admins'[x] = Resting
            \/ /\ admins[x].at \in 1..2 /\ admins'[x].at = admins[x].at + 1 /\ admins'[x].agent = admins[x].agent
               /\ admins'[x].op = admins[x].op /\ admins'[x].skills = admins[x].skills
         /\ \A b \in Specialists, y \in Administrators : AloneAt(y, b)' => AloneAt(y, b)
<1>0. AdminsTyped /\ Alone
  BY DEF RoutingInv
<1>1. admins[x].at \in 1..3
  BY <1>0, RecordOf
<1>2. PICK r : r = IF admins[x].at = 3 THEN Resting ELSE [admins[x] EXCEPT !.at = admins[x].at + 1]
  OBVIOUS
<1>3. admins' = [admins EXCEPT ![x] = r]
  BY <1>2 DEF AdminGoes
<1>4. CASE admins[x].at = 3
  <2>1. r = Resting /\ r \in AdminRecord
    BY <1>2, <1>4 DEF AdminRecord
  <2>2. AdminsTyped' /\ admins'[x] = Resting /\ \A y \in Administrators \ {x} : admins'[y] = admins[y]
    BY <1>0, <1>3, <2>1 DEF AdminsTyped
  <2>3. \A b \in Specialists, y \in Administrators : AloneAt(y, b)' => AloneAt(y, b)
    BY <2>2, RestingIdle DEF AloneAt
  <2>4. Alone'
    BY <1>0, <2>3 DEF Alone
  <2> QED BY <1>4, <2>2, <2>3, <2>4
<1>5. CASE admins[x].at \in 1..2
  <2>0. PICK k \in 2..3 : k = admins[x].at + 1
    BY <1>5
  <2>1. r = [admins[x] EXCEPT !.at = k]
    BY <1>2, <1>5, <2>0
  <2>2. /\ r \in AdminRecord /\ r.at = k /\ r.agent = admins[x].agent /\ r.op = admins[x].op
        /\ r.skills = admins[x].skills
    <3>1. CASE admins[x] \in [op : {"register"}, agent : Specialists, skills : Skills, at : 1..3]
      BY <2>1, <3>1 DEF AdminRecord
    <3>2. CASE admins[x] \in [op : {"deregister"}, agent : Specialists, skills : {Unlisted}, at : 1..3]
      BY <2>1, <3>2 DEF AdminRecord
    <3> QED BY <1>0, <3>1, <3>2, RecordOf
  <2>3. AdminsTyped' /\ admins'[x] = r /\ \A y \in Administrators \ {x} : admins'[y] = admins[y]
    BY <1>0, <1>3, <2>2 DEF AdminsTyped
  <2>4. \A b \in Specialists, y \in Administrators : AloneAt(y, b)' => AloneAt(y, b)
    BY <2>2, <2>3 DEF AloneAt
  <2>5. Alone'
    BY <1>0, <2>4 DEF Alone
  <2> QED BY <1>5, <2>0, <2>2, <2>3, <2>4, <2>5
<1> QED BY <1>1, <1>4, <1>5

\* Nobody works on b after the step: only its agent can have become free.
LEMMA FreeBefore ==
  ASSUME RoutingInv, NEW x \in Administrators, admins[x] # Resting, AdminGoes(x), UNCHANGED overlapped,
         NEW b \in Specialists, Working(b)' = {}
  PROVE  Working(b) = {} \/ (b = admins[x].agent /\ admins[x].at = 3)
<1>1. \A y \in Administrators : admins'[y].agent # b
  BY DEF Working
<1>2. \A y \in Administrators \ {x} : admins[y].agent # b
  BY <1>1, GoesOn
<1>3. admins[x].agent = b => admins[x].at = 3
  BY <1>1, GoesOn
<1> QED BY <1>2, <1>3, WorkingNobody

LEMMA RegisterKept ==
  ASSUME RoutingInv, NEW x \in Administrators, RegisterGoesOn(x)
  PROVE  RoutingInv'
<1>0. RoutingTypeOK /\ AdminsTyped /\ admins[x].op = "register" /\ admins[x] # Resting
  BY RestingIdle DEF RoutingInv, RegisterGoesOn
<1>1. PICK a \in Specialists : a = admins[x].agent
  BY <1>0, RecordOf, RestingIdle
<1>2. PICK skills \in Skills : skills = admins[x].skills
  BY <1>0, RecordOf, RestingIdle
<1>3. /\ AdminGoes(x) /\ UNCHANGED <<roleIndex, affinities, routing, overlapped>>
      /\ loadOf' = IF admins[x].at = 1 THEN [loadOf EXCEPT ![a] = 0] ELSE loadOf
      /\ statusOf' = IF admins[x].at = 2 THEN [statusOf EXCEPT ![a] = "Idle"] ELSE statusOf
      /\ skillsOf' = IF admins[x].at = 3 THEN [skillsOf EXCEPT ![a] = skills] ELSE skillsOf
  BY <1>1, <1>2 DEF RegisterGoesOn
<1>4. /\ loadOf' \in [Specialists -> Nat \cup {Unlisted}]
           /\ statusOf' \in [Specialists -> {"Idle", "Terminated", Unlisted}]
      /\ skillsOf' \in [Specialists -> Skills \cup {Unlisted}]
  BY <1>0, <1>3 DEF RoutingTypeOK
<1>5. /\ \A b \in Specialists \ {a} : loadOf'[b] = loadOf[b] /\ skillsOf'[b] = skillsOf[b]
      /\ admins[x].at = 1 => loadOf'[a] = 0 /\ skillsOf'[a] = skillsOf[a]
      /\ admins[x].at # 1 => loadOf'[a] = loadOf[a]
      /\ admins[x].at = 3 => skillsOf'[a] = skills
  BY <1>0, <1>3 DEF RoutingTypeOK
<1>6. RoutingTypeOK'
  BY <1>0, <1>3, <1>4 DEF RoutingTypeOK
<1>7. AdminsTyped' /\ Alone' /\ (\A y \in Administrators \ {x} : admins'[y] = admins[y])
  BY <1>0, <1>3, GoesOn
<1>8. \A b \in Specialists, y \in Administrators : AloneAt(y, b)' => AloneAt(y, b)
  BY <1>0, <1>3, GoesOn
<1>9. \/ admins[x].at = 3 /\ admins'[x] = Resting
      \/ /\ admins[x].at \in 1..2 /\ admins'[x].at = admins[x].at + 1 /\ admins'[x].agent = a
         /\ admins'[x].op = "register" /\ admins'[x].skills = skills
  BY <1>0, <1>1, <1>2, <1>3, GoesOn
<1>10. 0 # Unlisted /\ Unlisted \notin Skills /\ Unlisted \notin Specialists
  BY RoleAssumption
<1>11. \A b \in Specialists, y \in Administrators \ {x} : AloneAt(y, b)' => b # a
  <2> SUFFICES ASSUME NEW y \in Administrators \ {x}, AloneAt(y, a)' PROVE FALSE
    OBVIOUS
  <2>1. AloneAt(y, a) /\ AloneAt(x, a)
    BY <1>1, <1>8 DEF AloneAt
  <2> QED BY <2>1 DEF RoutingInv, Alone
<1>12. HalfRegistered'
  <2> SUFFICES ASSUME NEW b \in Specialists, NEW y \in Administrators,
                      AloneAt(y, b)', admins'[y].op = "register"
               PROVE  /\ b \in roleIndex[InferredRole(admins'[y].skills)]
                      /\ admins'[y].at >= 2 => loadOf'[b] # Unlisted
    BY <1>3 DEF HalfRegistered, InferredRole
  <2>0. AloneAt(y, b)
    BY <1>8
  <2>1. CASE y # x
    BY <1>5, <1>7, <1>11, <2>0, <2>1 DEF RoutingInv, HalfRegistered
  <2>2. CASE y = x
    <3>1. admins[x].at \in 1..2 /\ admins'[x].skills = skills /\ b = a
      BY <1>1, <1>9, <2>0, <2>2, RestingIdle DEF AloneAt
    <3>2. b \in roleIndex[InferredRole(skills)] /\ (admins[x].at >= 2 => loadOf[b] # Unlisted)
      BY <1>0, <1>2, <2>0, <2>2 DEF RoutingInv, HalfRegistered
    <3> QED BY <1>5, <1>10, <2>2, <3>1, <3>2
  <2> QED BY <2>1, <2>2
<1>13. HalfRemoved'
  <2> SUFFICES ASSUME NEW b \in Specialists, NEW y \in Administrators,
                      AloneAt(y, b)', admins'[y].op = "deregister"
               PROVE  skillsOf'[b] = Unlisted /\ (admins'[y].at >= 2 => loadOf'[b] = Unlisted)
    BY DEF HalfRemoved
  <2>1. y # x
    BY <1>9, RestingIdle
  <2> QED BY <1>5, <1>7, <1>8, <1>11, <2>1 DEF RoutingInv, HalfRemoved
<1>14. TablesAgree'
  <2> SUFFICES ASSUME NEW b \in Specialists, Working(b)' = {}, b \notin overlapped
               PROVE  IF skillsOf'[b] = Unlisted
                      THEN loadOf'[b] = Unlisted /\ \A r \in Roles : b \notin roleIndex[r]
                      ELSE loadOf'[b] # Unlisted /\ b \in roleIndex[InferredRole(skillsOf'[b])]
    BY <1>3 DEF TablesAgree, AgentsForRole, InferredRole, Roles
  <2>1. CASE Working(b) = {}
    <3>1. b # a
      BY <1>1, <2>1, WorkingNobody
    <3> QED BY <1>5, <2>1, <3>1 DEF RoutingInv, TablesAgree, AgentsForRole
  <2>2. CASE b = admins[x].agent /\ admins[x].at = 3
    <3>1. AloneAt(x, a) /\ a = b
      BY <1>1, <2>2 DEF AloneAt
    <3>2. b \in roleIndex[InferredRole(skills)] /\ loadOf[b] # Unlisted
      BY <1>0, <1>2, <2>2, <3>1 DEF RoutingInv, HalfRegistered
    <3> QED BY <1>5, <1>10, <2>2, <3>1, <3>2
  <2> QED BY <1>0, <1>3, <2>1, <2>2, FreeBefore
<1> QED BY <1>6, <1>7, <1>12, <1>13, <1>14 DEF RoutingInv

LEMMA DeregisterKept ==
  ASSUME RoutingInv, NEW x \in Administrators, DeregisterGoesOn(x)
  PROVE  RoutingInv'
<1>0. RoutingTypeOK /\ AdminsTyped /\ admins[x].op = "deregister" /\ admins[x] # Resting
  BY RestingIdle DEF RoutingInv, DeregisterGoesOn
<1>1. PICK a \in Specialists : a = admins[x].agent
  BY <1>0, RecordOf, RestingIdle
<1>2. /\ AdminGoes(x) /\ UNCHANGED <<skillsOf, affinities, routing, overlapped>>
      /\ loadOf' = IF admins[x].at = 1 THEN [loadOf EXCEPT ![a] = Unlisted] ELSE loadOf
      /\ statusOf' = IF admins[x].at = 2 THEN [statusOf EXCEPT ![a] = Unlisted] ELSE statusOf
      /\ roleIndex' = IF admins[x].at = 3 THEN [r \in Roles |-> roleIndex[r] \ {a}] ELSE roleIndex
  BY <1>1 DEF DeregisterGoesOn, WithoutAgent
<1>3. /\ loadOf' \in [Specialists -> Nat \cup {Unlisted}] /\ roleIndex' \in [Roles -> SUBSET Specialists]
      /\ statusOf' \in [Specialists -> {"Idle", "Terminated", Unlisted}]
  BY <1>0, <1>2 DEF RoutingTypeOK
<1>4. /\ \A b \in Specialists \ {a} : loadOf'[b] = loadOf[b]
           /\ \A r \in Roles : b \in roleIndex'[r] <=> b \in roleIndex[r]
      /\ admins[x].at = 1 => loadOf'[a] = Unlisted
      /\ admins[x].at # 1 => loadOf'[a] = loadOf[a]
      /\ admins[x].at = 3 => \A r \in Roles : a \notin roleIndex'[r]
  BY <1>0, <1>2 DEF RoutingTypeOK
<1>5. RoutingTypeOK'
  BY <1>0, <1>2, <1>3 DEF RoutingTypeOK
<1>6. AdminsTyped' /\ Alone' /\ (\A y \in Administrators \ {x} : admins'[y] = admins[y])
  BY <1>0, <1>2, GoesOn
<1>7. \A b \in Specialists, y \in Administrators : AloneAt(y, b)' => AloneAt(y, b)
  BY <1>0, <1>2, GoesOn
<1>8. \/ admins[x].at = 3 /\ admins'[x] = Resting
      \/ /\ admins[x].at \in 1..2 /\ admins'[x].at = admins[x].at + 1 /\ admins'[x].agent = a
         /\ admins'[x].op = "deregister"
  BY <1>0, <1>1, <1>2, GoesOn
<1>9. \A b \in Specialists, y \in Administrators \ {x} : AloneAt(y, b)' => b # a
  <2> SUFFICES ASSUME NEW y \in Administrators \ {x}, AloneAt(y, a)' PROVE FALSE
    OBVIOUS
  <2>1. AloneAt(y, a) /\ AloneAt(x, a)
    BY <1>1, <1>7 DEF AloneAt
  <2> QED BY <2>1 DEF RoutingInv, Alone
<1>10. HalfRegistered'
  <2> SUFFICES ASSUME NEW b \in Specialists, NEW y \in Administrators,
                      AloneAt(y, b)', admins'[y].op = "register"
               PROVE  /\ b \in roleIndex'[InferredRole(admins'[y].skills)]
                      /\ admins'[y].at >= 2 => loadOf'[b] # Unlisted
    BY DEF HalfRegistered, InferredRole
  <2>1. y # x
    BY <1>8, RestingIdle
  <2> QED BY <1>4, <1>6, <1>7, <1>9, <2>1, InferredIsRole DEF RoutingInv, HalfRegistered
<1>11. HalfRemoved'
  <2> SUFFICES ASSUME NEW b \in Specialists, NEW y \in Administrators,
                      AloneAt(y, b)', admins'[y].op = "deregister"
               PROVE  skillsOf[b] = Unlisted /\ (admins'[y].at >= 2 => loadOf'[b] = Unlisted)
    BY <1>2 DEF HalfRemoved
  <2>0. AloneAt(y, b)
    BY <1>7
  <2>1. CASE y # x
    BY <1>4, <1>6, <1>9, <2>0, <2>1 DEF RoutingInv, HalfRemoved
  <2>2. CASE y = x
    <3>1. admins[x].at \in 1..2 /\ b = a
      BY <1>1, <1>8, <2>0, <2>2, RestingIdle DEF AloneAt
    <3>2. skillsOf[b] = Unlisted /\ (admins[x].at >= 2 => loadOf[b] = Unlisted)
      BY <1>0, <2>0, <2>2 DEF RoutingInv, HalfRemoved
    <3> QED BY <1>4, <3>1, <3>2
  <2> QED BY <2>1, <2>2
<1>12. TablesAgree'
  <2> SUFFICES ASSUME NEW b \in Specialists, Working(b)' = {}, b \notin overlapped
               PROVE  IF skillsOf'[b] = Unlisted
                      THEN loadOf'[b] = Unlisted /\ \A r \in Roles : b \notin roleIndex'[r]
                      ELSE loadOf'[b] # Unlisted /\ b \in roleIndex'[InferredRole(skillsOf'[b])]
    BY <1>2 DEF TablesAgree, AgentsForRole, InferredRole, Roles
  <2>1. CASE Working(b) = {}
    <3>1. b # a
      BY <1>1, <2>1, WorkingNobody
    <3> QED BY <1>2, <1>4, <2>1, <3>1, InferredIsRole DEF RoutingInv, TablesAgree, AgentsForRole
  <2>2. CASE b = admins[x].agent /\ admins[x].at = 3
    <3>1. AloneAt(x, a) /\ a = b
      BY <1>1, <2>2 DEF AloneAt
    <3>2. skillsOf[b] = Unlisted /\ loadOf[b] = Unlisted
      BY <1>0, <2>2, <3>1 DEF RoutingInv, HalfRemoved
    <3> QED BY <1>2, <1>4, <2>2, <3>1, <3>2
  <2> QED BY <1>0, <1>2, <2>1, <2>2, FreeBefore
<1> QED BY <1>5, <1>6, <1>10, <1>11, <1>12 DEF RoutingInv

\* Routing, completing, reporting and remembering affinities.
LEMMA RoutingStepsKept ==
  ASSUME RoutingInv, NEW a, NEW key, NEW needs,
         \/ a \in Specialists /\ (ReportStatus(a) \/ RecordCompletion(a))
         \/ a \in Specialists /\ key \in ContextKeys /\ RecordAffinity(a, key)
         \/ RouteTask(needs, key) \/ CountRouted \/ AffinityDecays
  PROVE  RoutingInv'
<1>1. RoutingTypeOK /\ UNCHANGED <<skillsOf, roleIndex, admins, overlapped>>
  BY DEF RoutingInv, ReportStatus, RecordCompletion, RecordAffinity, RouteTask, CountRouted,
     AffinityDecays
<1>2. Unlisted \notin Nat /\ Unlisted \notin Specialists
  BY RoleAssumption
<1>3. CASE a \in Specialists /\ RecordCompletion(a)
  <2>1. loadOf[a] \in Nat \ {0} /\ UNCHANGED <<statusOf, affinities, routing>>
    BY <1>1, <1>3 DEF RecordCompletion, RoutingTypeOK
  <2>2. PICK k \in Nat : k = loadOf[a] - 1
    BY <2>1
  <2>3. loadOf' = [loadOf EXCEPT ![a] = k] /\ loadOf \in [Specialists -> Nat \cup {Unlisted}]
    BY <1>1, <1>3, <2>2 DEF RecordCompletion, RoutingTypeOK
  <2>4. loadOf' \in [Specialists -> Nat \cup {Unlisted}]
    BY <2>3
  <2>5. \A b \in Specialists : loadOf'[b] = Unlisted <=> loadOf[b] = Unlisted
    BY <1>2, <2>1, <2>3
  <2>6. RoutingTypeOK'
    BY <1>1, <2>1, <2>4 DEF RoutingTypeOK
  <2> QED BY <1>1, <2>5, <2>6, TablesKept
<1>4. CASE CountRouted
  <2>1. routing \in Specialists /\ UNCHANGED <<statusOf, affinities>> /\ routing' = Unlisted
    BY <1>1, <1>4 DEF CountRouted, RoutingTypeOK
  <2>2. PICK k \in Nat \cup {Unlisted} :
          k = IF loadOf[routing] = Unlisted THEN loadOf[routing] ELSE loadOf[routing] + 1
    <3>1. loadOf[routing] \in Nat \cup {Unlisted}
      BY <1>1, <2>1 DEF RoutingTypeOK
    <3>2. CASE loadOf[routing] = Unlisted
      BY <3>2
    <3>3. CASE loadOf[routing] # Unlisted
      <4>1. loadOf[routing] + 1 \in Nat
        BY <3>1, <3>3
      <4> QED BY <3>3, <4>1
    <3> QED BY <3>2, <3>3
  <2>3. loadOf' = [loadOf EXCEPT ![routing] = k] /\ loadOf \in [Specialists -> Nat \cup {Unlisted}]
    BY <1>1, <1>4, <2>2 DEF CountRouted, RoutingTypeOK
  <2>4. loadOf' \in [Specialists -> Nat \cup {Unlisted}]
    BY <2>3
  <2>5. k = Unlisted <=> loadOf[routing] = Unlisted
    BY <1>2, <2>1, <2>2, <2>3
  <2>6. \A b \in Specialists : loadOf'[b] = Unlisted <=> loadOf[b] = Unlisted
    BY <2>3, <2>5
  <2>7. RoutingTypeOK'
    BY <1>1, <2>1, <2>4 DEF RoutingTypeOK
  <2> QED BY <1>1, <2>6, <2>7, TablesKept
<1>5. CASE \/ a \in Specialists /\ ReportStatus(a)
           \/ a \in Specialists /\ key \in ContextKeys /\ RecordAffinity(a, key)
           \/ RouteTask(needs, key) \/ AffinityDecays
  <2>1. UNCHANGED loadOf
    BY <1>5 DEF ReportStatus, RecordAffinity, RouteTask, AffinityDecays
  <2>2. RoutingTypeOK'
    BY <1>1, <1>5 DEF ReportStatus, RecordAffinity, RouteTask, AffinityDecays, Eligible,
       RoutingTypeOK
  <2> QED BY <1>1, <2>1, <2>2, TablesKept
<1> QED BY <1>3, <1>4, <1>5

(***************************************************************************)
(* However SpecialistRouter::register_agent and deregister_agent           *)
(* interleave with routing, completion and status reports, an agent nobody *)
(* works on is in all of the router's tables or in none, unless two        *)
(* administrators worked on it at once.                                    *)
(***************************************************************************)
THEOREM RouterTablesAgree == RoutingSpec => []RoutingSound
<1>1. RoutingInit => RoutingInv
  <2> SUFFICES ASSUME RoutingInit PROVE RoutingInv
    OBVIOUS
  <2>1. RoutingTypeOK
    BY DEF RoutingInit, RoutingTypeOK
  <2>2. AdminsTyped
    BY DEF RoutingInit, AdminsTyped, AdminRecord
  <2>3. \A x \in Administrators : admins[x] = Resting
    BY DEF RoutingInit
  <2>4. \A a \in Specialists, x \in Administrators : ~AloneAt(x, a)
    BY <2>3, RestingIdle DEF AloneAt
  <2>5. Alone /\ HalfRegistered /\ HalfRemoved
    BY <2>4 DEF Alone, HalfRegistered, HalfRemoved
  <2>6. TablesAgree
    BY DEF RoutingInit, TablesAgree, AgentsForRole
  <2> QED BY <2>1, <2>2, <2>5, <2>6 DEF RoutingInv
<1>2. RoutingInv /\ [RoutingNext]_routingVars => RoutingInv'
  <2> SUFFICES ASSUME RoutingInv, [RoutingNext]_routingVars PROVE RoutingInv'
    OBVIOUS
  <2>1. ASSUME NEW x \in Administrators, NEW a \in Specialists, NEW skills \in Skills, RegisterSpecialist(x, a, skills)
        PROVE  RoutingInv'
    BY <2>1, AdminStartsKept
  <2>2. ASSUME NEW x \in Administrators, NEW a \in Specialists, DeregisterSpecialist(x, a)
        PROVE  RoutingInv'
    BY <2>2, RemoveStartsKept
  <2>3. ASSUME NEW x \in Administrators, RegisterGoesOn(x) \/ DeregisterGoesOn(x)
        PROVE  RoutingInv'
    BY <2>3, RegisterKept, DeregisterKept
  <2>4. CASE \E a \in Specialists : \/ ReportStatus(a) \/ RecordCompletion(a)
                                    \/ \E key \in ContextKeys : RecordAffinity(a, key)
    <3>1. ASSUME NEW a \in Specialists, ReportStatus(a) \/ RecordCompletion(a)
          PROVE  RoutingInv'
      BY <3>1, RoutingStepsKept
    <3>2. ASSUME NEW a \in Specialists, NEW key \in ContextKeys, RecordAffinity(a, key)
          PROVE  RoutingInv'
      BY <3>2, RoutingStepsKept
    <3> QED BY <2>4, <3>1, <3>2
  <2>5. CASE (\E needs \in NeedSets, key \in ContextKeys : RouteTask(needs, key)) \/ CountRouted \/ AffinityDecays
    BY <2>5, RoutingStepsKept
  <2>6. CASE UNCHANGED routingVars
    <3>1. RoutingTypeOK'
      BY <2>6 DEF RoutingInv, RoutingTypeOK, routingVars
    <3> QED BY <2>6, <3>1, TablesKept DEF routingVars
  <2> QED BY <2>1, <2>2, <2>3, <2>4, <2>5, <2>6 DEF RoutingNext
<1>3. RoutingInv => RoutingSound
  BY DEF RoutingInv, RoutingSound
<1> QED BY <1>1, <1>2, <1>3, PTL DEF RoutingSpec

-----------------------------------------------------------------------------
(***************************************************************************)
(* The peer tracker: the status of a peer follows from its missed probes.  *)
(***************************************************************************)

PeersTyped ==
  /\ peers \in [DOMAIN peers -> [status : PeerStatus, failed : 0..DeadAfter]]
  /\ DOMAIN peers \subseteq Peers
  /\ silence \in [Peers -> Nat]
PeerInv == PeersTyped /\ PeerStatusHonest

\* One peer gets an entry that is honest about it.
LEMMA EntryKept ==
  ASSUME PeerInv, NEW p \in Peers, NEW e \in [status : PeerStatus, failed : 0..DeadAfter],
         peers' = Put(peers, p, e) \/ (p \in DOMAIN peers /\ peers' = [peers EXCEPT ![p] = e]),
         silence' = [silence EXCEPT ![p] = e.failed],
         e.status = "Alive" => e.failed = 0,
         e.status = "Suspected" => e.failed \in 1..(DeadAfter - 1),
         e.status = "Dead" => e.failed >= DeadAfter
  PROVE  PeerInv'
<1>1. DOMAIN peers' = DOMAIN peers \cup {p} /\ \A q \in DOMAIN peers' : peers'[q] = IF q = p THEN e ELSE peers[q]
  BY DEF Put, PeerInv, PeersTyped
<1>2. \A q \in Peers : silence'[q] = IF q = p THEN e.failed ELSE silence[q]
  BY DEF PeerInv, PeersTyped
<1>3. peers' \in [DOMAIN peers' -> [status : PeerStatus, failed : 0..DeadAfter]]
  BY <1>1 DEF Put, PeerInv, PeersTyped
<1>4. PeersTyped'
  BY <1>1, <1>3 DEF PeerInv, PeersTyped
<1>5. PeerStatusHonest'
  BY <1>1, <1>2 DEF PeerInv, PeersTyped, PeerStatusHonest
<1> QED BY <1>4, <1>5 DEF PeerInv

\* A peer is forgotten, by remove or by a sweep.
LEMMA DropKept ==
  ASSUME PeerInv, NEW p \in Peers, peers' = Drop(peers, p), Heard(p)
  PROVE  PeerInv'
<1>1. DOMAIN peers' = DOMAIN peers \ {p} /\ \A q \in DOMAIN peers' : peers'[q] = peers[q]
  BY DEF Drop
<1>2. silence' \in [Peers -> Nat] /\ \A q \in Peers \ {p} : silence'[q] = silence[q]
  BY DEF Heard, PeerInv, PeersTyped
<1>3. peers' \in [DOMAIN peers' -> [status : PeerStatus, failed : 0..DeadAfter]]
  BY <1>1 DEF Drop, PeerInv, PeersTyped
<1>4. PeersTyped'
  BY <1>1, <1>2, <1>3 DEF PeerInv, PeersTyped
<1>5. PeerStatusHonest'
  BY <1>1, <1>2 DEF PeerInv, PeersTyped, PeerStatusHonest
<1> QED BY <1>4, <1>5 DEF PeerInv

LEMMA PeerStepKept ==
  ASSUME PeerInv, NEW p \in Peers,
         Upsert(p) \/ PeerHeartbeat(p) \/ FailCheck(p) \/ MarkLeft(p) \/ RemovePeer(p)
  PROVE  PeerInv'
<1>1. CASE Upsert(p) \/ PeerHeartbeat(p)
  <2>1. PICK e \in [status : PeerStatus, failed : 0..DeadAfter] : e = [status |-> "Alive", failed |-> 0]
    <3>1. "Alive" \in PeerStatus /\ 0 \in 0..DeadAfter
      BY DEF PeerStatus, DeadAfter
    <3> QED BY <3>1
  <2>2. e.status = "Alive" /\ e.failed = 0
    BY <2>1
  <2>3. peers' = Put(peers, p, e) \/ (p \in DOMAIN peers /\ peers' = [peers EXCEPT ![p] = e])
    BY <1>1, <2>1 DEF Upsert, PeerHeartbeat, Revived, PeerEntry
  <2>4. silence' = [silence EXCEPT ![p] = e.failed]
    BY <1>1, <2>2 DEF Upsert, PeerHeartbeat, Heard
  <2> QED BY <2>2, <2>3, <2>4, EntryKept
<1>2. CASE FailCheck(p)
  <2>1. p \in DOMAIN peers /\ peers[p].failed = silence[p] /\ silence[p] \in Nat /\ peers[p].failed < DeadAfter
    BY <1>2 DEF FailCheck, PeerInv, PeersTyped, PeerStatusHonest
  <2>2. PICK k \in 0..DeadAfter : k = silence[p] + 1
    BY <2>1 DEF DeadAfter
  <2>3. PICK e \in [status : PeerStatus, failed : 0..DeadAfter] :
          e = [status |-> IF k >= DeadAfter THEN "Dead" ELSE "Suspected", failed |-> k]
    <3>1. (IF k >= DeadAfter THEN "Dead" ELSE "Suspected") \in PeerStatus
      BY DEF PeerStatus
    <3> QED BY <3>1
  <2>4. e.failed = k /\ e.status = IF k >= DeadAfter THEN "Dead" ELSE "Suspected"
    BY <2>3
  <2>5. peers' = [peers EXCEPT ![p] = e] /\ silence' = [silence EXCEPT ![p] = e.failed]
    BY <1>2, <2>1, <2>2, <2>3, <2>4 DEF FailCheck, FailedOnce
  <2>6. k >= 1 /\ (~(k >= DeadAfter) => k \in 1..(DeadAfter - 1))
    BY <2>1, <2>2 DEF DeadAfter
  <2> QED BY <2>1, <2>4, <2>5, <2>6, EntryKept
<1>3. CASE MarkLeft(p)
  <2>1. PICK e \in [status : PeerStatus, failed : 0..DeadAfter] : e = [peers[p] EXCEPT !.status = "Left"]
    BY <1>3 DEF MarkLeft, PeerInv, PeersTyped, PeerStatus
  <2>2. e.status = "Left" /\ e.failed = silence[p] /\ p \in DOMAIN peers
    BY <1>3, <2>1 DEF MarkLeft, PeerInv, PeersTyped, PeerStatusHonest
  <2>3. peers' = [peers EXCEPT ![p] = e] /\ silence' = [silence EXCEPT ![p] = e.failed]
    BY <1>3, <2>1, <2>2 DEF MarkLeft, PeerInv, PeersTyped
  <2> QED BY <2>2, <2>3, EntryKept
<1>4. CASE RemovePeer(p)
  BY <1>4, DropKept DEF RemovePeer
<1> QED BY <1>1, <1>2, <1>3, <1>4

\* A set of statuses merges to the worst of them.
LEMMA WorstMerged ==
  ASSUME NEW S \in SUBSET NodeHealthStatus, S # {}
  PROVE  /\ MergedStatus(S) \in S
         /\ \A s \in S : Severity[s] <= Severity[MergedStatus(S)]
<1>. DEFINE worst == IF "Unhealthy" \in S THEN "Unhealthy" ELSE IF "Degraded" \in S THEN "Degraded"
                     ELSE IF "Unknown" \in S THEN "Unknown" ELSE "Healthy"
<1>0. "Unhealthy" # "Degraded" /\ "Unhealthy" # "Unknown" /\ "Unhealthy" # "Healthy" /\ "Degraded" # "Unknown"
      /\ "Degraded" # "Healthy" /\ "Unknown" # "Healthy"
  OBVIOUS
<1>00. /\ Merge("Healthy", "Healthy") = "Healthy" /\ Merge("Healthy", "Unknown") = "Unknown"
       /\ Merge("Healthy", "Degraded") = "Degraded" /\ Merge("Unknown", "Degraded") = "Degraded"
       /\ Merge("Healthy", "Unhealthy") = "Unhealthy" /\ Merge("Unknown", "Unhealthy") = "Unhealthy"
       /\ Merge("Degraded", "Unhealthy") = "Unhealthy"
  BY DEF Merge
<1>1. MergedStatus(S) = worst
  BY <1>0, <1>00 DEF MergedStatus
<1>2. worst \in S
  BY DEF NodeHealthStatus
<1>3. \A s \in S : s \in {"Healthy", "Degraded", "Unhealthy", "Unknown"}
  BY DEF NodeHealthStatus
<1>4. \A s \in S : Severity[s] <= Severity[worst]
  BY <1>3 DEF Severity
<1>. QED BY <1>1, <1>2, <1>4

HealthInv == WorstSubsystemCounts /\ latest.status \in NodeHealthStatus

\* Whatever reports come in, the node is as healthy as the worst of them.
LEMMA ReportsMerged ==
  ASSUME NEW K \in SUBSET Subsystems, NEW reports \in [K -> NodeHealthStatus], UpdateHealth(reports)
  PROVE  HealthInv'
<1>1. latest' = FromSubsystems(reports) /\ DOMAIN reports = K
  BY DEF UpdateHealth
<1>. DEFINE S == {reports[k] : k \in K}
            ranks == {Severity[reports[k]] : k \in K}
<1>2. latest'.subsystems = reports
      /\ latest'.status = IF K = {} THEN "Unknown" ELSE MergedStatus(S)
  BY <1>1 DEF FromSubsystems
<1>3. CASE K = {}
  <2>1. latest'.status = "Unknown" /\ ranks = {} /\ DOMAIN latest'.subsystems = {}
    BY <1>1, <1>2, <1>3
  <2>. QED BY <2>1 DEF HealthInv, WorstSubsystemCounts, NodeHealthStatus
<1>4. CASE K # {}
  <2>1. S # {} /\ S \in SUBSET NodeHealthStatus
    BY <1>4
  <2>2. MergedStatus(S) \in S /\ \A s \in S : Severity[s] <= Severity[MergedStatus(S)]
    BY <2>1, WorstMerged
  <2>. DEFINE top == Severity[MergedStatus(S)]
  <2>3. ranks \subseteq 0 .. 3 /\ ranks # {}
    BY <1>4 DEF Severity, NodeHealthStatus
  <2>4. top \in ranks /\ \A y \in ranks : top >= y
    <3>1. PICK k \in K : MergedStatus(S) = reports[k]
      BY <2>2
    <3>2. top \in ranks
      BY <3>1
    <3>3. \A k2 \in K : Severity[reports[k2]] <= top
      BY <2>2
    <3>4. top \in Int
      BY <2>3, <3>2
    <3>. QED BY <2>3, <3>2, <3>3, <3>4
  <2>. HIDE DEF top
  <2>5. \A x \in ranks : (\A y \in ranks : x >= y) => x = top
    BY <2>3, <2>4
  <2>6. Max(ranks) = top
    <3>1. Max(ranks) = CHOOSE x \in ranks : \A y \in ranks : x >= y
      BY Zenon DEF Max
    <3>. QED BY <2>4, <2>5, <3>1
  <2>7. {Severity[latest'.subsystems[k]] : k \in DOMAIN latest'.subsystems} = ranks
    BY <1>1, <1>2
  <2>. HIDE DEF ranks
  <2>8. WorstSubsystemCounts'
    BY <1>2, <1>4, <2>3, <2>6, <2>7 DEF WorstSubsystemCounts, top
  <2>. QED BY <1>2, <1>4, <2>1, <2>2, <2>8 DEF HealthInv
<1>. QED BY <1>3, <1>4
(***************************************************************************)
(* Whatever sweeps, heartbeats and failed checks race, the status the peer *)
(* tracker gives of a peer is what the peer has shown since it was last    *)
(* heard of, and whatever its subsystems report, the node's own health is  *)
(* that of the worst of them.                                              *)
(***************************************************************************)
THEOREM PeersStayHonest == PeerSpec => []PeersSound
<1>1. PeerInit => PeerInv /\ HealthInv
  <2>1. PeerInit => PeerInv
    BY DEF PeerInit, PeerInv, PeersTyped, PeerStatusHonest, EmptyMap
  <2>2. ASSUME PeerInit PROVE HealthInv
    <3>1. latest.status = "Unknown" /\ DOMAIN latest.subsystems = {}
      BY <2>2 DEF PeerInit, EmptyMap
    <3>. QED BY <3>1 DEF HealthInv, WorstSubsystemCounts, NodeHealthStatus
  <2>. QED BY <2>1, <2>2
<1>2. PeerInv /\ [PeerNext]_peerVars => PeerInv'
  <2> SUFFICES ASSUME PeerInv, [PeerNext]_peerVars PROVE PeerInv'
    OBVIOUS
  <2>1. CASE UNCHANGED <<peers, silence>>
    BY <2>1 DEF PeerInv, PeersTyped, PeerStatusHonest
  <2>2. ASSUME NEW w \in Cleaners, NEW p \in Peers, SweepRemoves(w, p)
        PROVE  PeerInv'
    BY <2>2, DropKept DEF SweepRemoves
  <2>3. (\E w \in Cleaners : SweepDead(w)) \/ NodeHealthNext => UNCHANGED <<peers, silence>>
    BY DEF SweepDead, NodeHealthNext, HealthTick, UpdateHealth
  <2> QED BY <2>1, <2>2, <2>3, PeerStepKept DEF PeerNext, TrackerNext, peerVars
<1>3. HealthInv /\ [PeerNext]_peerVars => HealthInv'
  <2> SUFFICES ASSUME HealthInv, [PeerNext]_peerVars PROVE HealthInv'
    OBVIOUS
  <2>1. CASE NodeHealthNext
    <3>1. PICK K \in SUBSET Subsystems : \E reports \in [K -> NodeHealthStatus] : UpdateHealth(reports)
      <4>1. [k \in Subsystems |-> "Unknown"] \in [Subsystems -> NodeHealthStatus]
        BY DEF NodeHealthStatus
      <4>. QED BY <2>1, <4>1 DEF NodeHealthNext, HealthTick
    <3>. QED BY <3>1, ReportsMerged
  <2>2. CASE TrackerNext \/ UNCHANGED peerVars
    <3>1. latest' = latest
      BY <2>2 DEF TrackerNext, Upsert, PeerHeartbeat, FailCheck, MarkLeft, RemovePeer, SweepDead, SweepRemoves, peerVars
    <3>. QED BY <3>1 DEF HealthInv, WorstSubsystemCounts
  <2>. QED BY <2>1, <2>2 DEF PeerNext
<1>4. PeerInv /\ HealthInv => PeersSound
  BY DEF PeerInv, PeersTyped, HealthInv, PeersSound, PeerTypeOK
<1> QED BY <1>1, <1>2, <1>3, <1>4, PTL DEF PeerSpec

-----------------------------------------------------------------------------
(***************************************************************************)
(* The agent registry and its health monitor: two maps, one agent lock.    *)
(***************************************************************************)

MapsTyped ==
  /\ entries \in [DOMAIN entries -> AgentStatus \cup {"Spawning"}]
  /\ health \in [DOMAIN health -> AgentHealth]
  /\ DOMAIN health \subseteq RegAgents
  /\ regCall \in [Registrars -> [step : {"idle", "insert", "remove"}, agent : RegAgents \cup {NoAgent}]]
  /\ \A c \in Registrars : regCall[c].step # "idle" <=> regCall[c].agent \in RegAgents
  /\ swept \in [Registrars -> SUBSET RegAgents]

\* A call holds its agent's lock alone, and is between the two maps.
LockedOnce ==
  \A c, d \in Registrars : regCall[c].agent \in RegAgents /\ regCall[c].agent = regCall[d].agent => c = d
BetweenMaps ==
  \A c \in Registrars :
    /\ regCall[c].step = "insert" => regCall[c].agent \in DOMAIN health \ DOMAIN entries
    /\ regCall[c].step = "remove" => regCall[c].agent \in DOMAIN entries \ DOMAIN health
BelowThreshold ==
  \A a \in DOMAIN health : health[a].status = "Healthy" => health[a].failures < DegradeAfter

RegistryInv == MapsTyped /\ LockedOnce /\ BetweenMaps /\ TrackedIffRegistered /\ BelowThreshold

LEMMA IdleCallTyped ==
  /\ IdleCall \in [step : {"idle", "insert", "remove"}, agent : RegAgents \cup {NoAgent}]
  /\ IdleCall.step = "idle" /\ IdleCall.agent = NoAgent /\ NoAgent \notin RegAgents
  BY RegistryAssumption DEF IdleCall

\* Health records change, and neither map gains or loses an agent.
LEMMA HealthKept ==
  ASSUME RegistryInv, UNCHANGED regCall, DOMAIN entries' = DOMAIN entries, DOMAIN health' = DOMAIN health,
         entries' \in [DOMAIN entries -> AgentStatus \cup {"Spawning"}],
         health' \in [DOMAIN health -> AgentHealth], BelowThreshold',
         swept' \in [Registrars -> SUBSET RegAgents]
  PROVE  RegistryInv'
<1>1. MapsTyped' /\ LockedOnce'
  BY DEF RegistryInv, MapsTyped, LockedOnce
<1>2. BetweenMaps' /\ TrackedIffRegistered'
  BY DEF RegistryInv, BetweenMaps, TrackedIffRegistered
<1> QED BY <1>1, <1>2 DEF RegistryInv

\* What the monitor makes of a record stays a record, and honest.
LEMMA RecordsTyped ==
  ASSUME NEW h \in AgentHealth, NEW s \in HealthStatus
  PROVE  /\ RecordHeartbeat(h) \in AgentHealth /\ RecordHeartbeat(h).failures < DegradeAfter
         /\ RecordCheck(h, s) \in AgentHealth
         /\ RecordCheck(h, s).status = "Healthy" => RecordCheck(h, s).failures < DegradeAfter
         /\ RecordMissedHeartbeat(h) \in AgentHealth
         /\ RecordMissedHeartbeat(h).status = "Healthy" => RecordMissedHeartbeat(h).failures < DegradeAfter
<1>0. /\ DegradeAfter \in Nat \ {0} /\ DeregisterAfter \in Nat /\ UnhealthyAfter \in Nat
      /\ DegradeAfter <= UnhealthyAfter
  BY RegistryAssumption
<1>1. h.failures \in 0..DeregisterAfter /\ h.silent \in BOOLEAN
  BY DEF AgentHealth
<1>2. PICK n \in 0..DeregisterAfter : n = OneMore(h.failures)
  BY <1>0, <1>1 DEF OneMore
<1>3. PICK m \in 0..DeregisterAfter : m = IF s = "Healthy" THEN 0 ELSE n
  BY <1>0
<1>4. PICK f \in HealthStatus : f = FromFailures(n)
  <2>1. FromFailures(n) \in HealthStatus
    BY DEF FromFailures, HealthStatus
  <2> QED BY <2>1
<1>5. f = "Healthy" => n < DegradeAfter
  BY <1>0, <1>4 DEF FromFailures
<1>6. RecordHeartbeat(h) \in AgentHealth /\ RecordHeartbeat(h).failures < DegradeAfter
  BY <1>0 DEF RecordHeartbeat, AgentHealth, HealthStatus
<1>7. RecordCheck(h, s) = [h EXCEPT !.status = s, !.failures = m]
  BY <1>2, <1>3 DEF RecordCheck
<1>8. RecordCheck(h, s) \in AgentHealth /\ RecordCheck(h, s).failures = m /\ RecordCheck(h, s).status = s
  BY <1>7 DEF AgentHealth
<1>9. RecordMissedHeartbeat(h) = [h EXCEPT !.failures = n, !.status = f]
  BY <1>2, <1>4 DEF RecordMissedHeartbeat
<1>10. /\ RecordMissedHeartbeat(h) \in AgentHealth /\ RecordMissedHeartbeat(h).failures = n
       /\ RecordMissedHeartbeat(h).status = f
  BY <1>9 DEF AgentHealth
<1>11. s = "Healthy" => m < DegradeAfter
  BY <1>0, <1>3
<1> QED BY <1>5, <1>6, <1>8, <1>10, <1>11

\* One record is replaced by an honest one.
LEMMA RecordReplaced ==
  ASSUME RegistryInv, NEW a \in DOMAIN health, NEW h \in AgentHealth, health' = [health EXCEPT ![a] = h],
         h.status = "Healthy" => h.failures < DegradeAfter, UNCHANGED <<entries, regCall, swept>>
  PROVE  RegistryInv'
<1>1. health \in [DOMAIN health -> AgentHealth] /\ entries \in [DOMAIN entries -> AgentStatus \cup {"Spawning"}]
  BY DEF RegistryInv, MapsTyped
<1>2. DOMAIN health' = DOMAIN health /\ health' \in [DOMAIN health -> AgentHealth]
  BY <1>1
<1>3. BelowThreshold'
  BY <1>1, <1>2 DEF RegistryInv, BelowThreshold
<1>4. swept' \in [Registrars -> SUBSET RegAgents]
  BY DEF RegistryInv, MapsTyped
<1> QED BY <1>1, <1>2, <1>3, <1>4, HealthKept

LEMMA MonitorKept ==
  ASSUME RegistryInv, NEW a \in RegAgents,
         \/ AgentHeartbeat(a) \/ TimeoutPasses(a)
         \/ \E t \in AgentStatus : UpdateStatus(a, t)
         \/ \E s \in HealthStatus : CheckReported(a, s)
  PROVE  RegistryInv'
<1>0. MapsTyped
  BY DEF RegistryInv
<1>1. CASE AgentHeartbeat(a)
  <2>1. CASE a \in DOMAIN health
    <3>1. health[a] \in AgentHealth
      BY <1>0, <2>1 DEF MapsTyped
    <3>2. PICK h \in AgentHealth : h = RecordHeartbeat(health[a]) /\ h.failures < DegradeAfter
      <4>1. "Healthy" \in HealthStatus
        BY DEF HealthStatus
      <4> QED BY <3>1, <4>1, RecordsTyped
    <3> QED BY <1>1, <2>1, <3>2, RecordReplaced DEF AgentHeartbeat
  <2>2. CASE a \notin DOMAIN health
    BY <1>0, <1>1, <2>2, HealthKept DEF AgentHeartbeat, MapsTyped, RegistryInv, BelowThreshold
  <2> QED BY <2>1, <2>2
<1>2. CASE TimeoutPasses(a)
  <2>1. health[a] \in AgentHealth /\ a \in DOMAIN health
    BY <1>0, <1>2 DEF TimeoutPasses, MapsTyped
  <2>2. PICK h \in AgentHealth : h = [health[a] EXCEPT !.silent = TRUE]
    BY <2>1 DEF AgentHealth
  <2>3. h.status = health[a].status /\ h.failures = health[a].failures
    BY <2>1, <2>2 DEF AgentHealth
  <2>4. health' = [health EXCEPT ![a] = h]
    BY <1>2, <2>2 DEF TimeoutPasses
  <2>5. h.status = "Healthy" => h.failures < DegradeAfter
    BY <2>1, <2>3 DEF RegistryInv, BelowThreshold
  <2> QED BY <1>2, <2>1, <2>4, <2>5, RecordReplaced DEF TimeoutPasses
<1>3. ASSUME NEW t \in AgentStatus, UpdateStatus(a, t)
      PROVE  RegistryInv'
  BY <1>0, <1>3, HealthKept DEF UpdateStatus, MapsTyped, RegistryInv, BelowThreshold
<1>4. ASSUME NEW s \in HealthStatus, CheckReported(a, s)
      PROVE  RegistryInv'
  <2>1. health[a] \in AgentHealth /\ a \in DOMAIN health
    BY <1>0, <1>4 DEF CheckReported, MapsTyped
  <2>2. PICK h \in AgentHealth : h = RecordCheck(health[a], s) /\ (h.status = "Healthy" => h.failures < DegradeAfter)
    BY <2>1, RecordsTyped
  <2> QED BY <1>4, <2>1, <2>2, RecordReplaced DEF CheckReported
<1> QED BY <1>1, <1>2, <1>3, <1>4

LEMMA SweepAloneKept ==
  ASSUME RegistryInv, NEW c \in Registrars, Sweep(c)
  PROVE  RegistryInv'
<1>0. MapsTyped
  BY DEF RegistryInv
<1>1. \A b \in DOMAIN health : health[b] \in AgentHealth
  BY <1>0 DEF MapsTyped
<1>2. \A b \in DOMAIN health : /\ RecordMissedHeartbeat(health[b]) \in AgentHealth
                               /\ RecordMissedHeartbeat(health[b]).status = "Healthy" =>
                                    RecordMissedHeartbeat(health[b]).failures < DegradeAfter
  <2>1. "Healthy" \in HealthStatus
    BY DEF HealthStatus
  <2> QED BY <1>1, <2>1, RecordsTyped
<1>3. /\ DOMAIN health' = DOMAIN health
      /\ \A b \in DOMAIN health : health'[b] = health[b] \/ health'[b] = RecordMissedHeartbeat(health[b])
  BY DEF Sweep
<1>4. health' \in [DOMAIN health -> AgentHealth]
  BY <1>1, <1>2 DEF Sweep
<1>5. BelowThreshold'
  BY <1>2, <1>3 DEF RegistryInv, BelowThreshold
<1>6. swept' \in [Registrars -> SUBSET RegAgents]
  BY <1>0 DEF Sweep, MapsTyped
<1> QED BY <1>0, <1>3, <1>4, <1>5, <1>6, HealthKept DEF Sweep, MapsTyped

LEMMA SweepKept ==
  ASSUME RegistryInv, NEW c \in Registrars, NEW a \in RegAgents, SweepPasses(c, a)
  PROVE  RegistryInv'
<1>0. MapsTyped
  BY DEF RegistryInv
<1> QED BY <1>0, HealthKept DEF SweepPasses, MapsTyped, RegistryInv, BelowThreshold

\* A caller takes the lock on an agent nobody holds, or lets go of the one it holds.
LEMMA CallChanges ==
  ASSUME RegistryInv, NEW c \in Registrars,
         NEW r \in [step : {"idle", "insert", "remove"}, agent : RegAgents \cup {NoAgent}],
         r.step # "idle" <=> r.agent \in RegAgents, regCall' = [regCall EXCEPT ![c] = r],
         r.agent \in RegAgents => ~Locked(r.agent)
  PROVE  /\ regCall'[c] = r /\ \A d \in Registrars \ {c} : regCall'[d] = regCall[d]
         /\ regCall' \in [Registrars -> [step : {"idle", "insert", "remove"}, agent : RegAgents \cup {NoAgent}]]
         /\ \A d \in Registrars : regCall'[d].step # "idle" <=> regCall'[d].agent \in RegAgents
         /\ LockedOnce'
<1>1. /\ regCall'[c] = r /\ \A d \in Registrars \ {c} : regCall'[d] = regCall[d]
      /\ regCall' \in [Registrars -> [step : {"idle", "insert", "remove"}, agent : RegAgents \cup {NoAgent}]]
  BY DEF RegistryInv, MapsTyped
<1>2. \A d \in Registrars : regCall'[d].step # "idle" <=> regCall'[d].agent \in RegAgents
  BY <1>1 DEF RegistryInv, MapsTyped
<1>3. LockedOnce'
  BY <1>1 DEF RegistryInv, LockedOnce, Locked
<1> QED BY <1>1, <1>2, <1>3

LEMMA RegisterKeeps ==
  ASSUME RegistryInv, NEW c \in Registrars, NEW a \in RegAgents, RegisterAgent(c, a)
  PROVE  RegistryInv'
<1>0. MapsTyped /\ ~Locked(a) /\ a \notin DOMAIN entries /\ regCall[c] = IdleCall /\ UNCHANGED <<entries, swept>>
  BY DEF RegistryInv, RegisterAgent, Unoccupied
<1>1. PICK r \in [step : {"idle", "insert", "remove"}, agent : RegAgents \cup {NoAgent}] :
        r = [step |-> "insert", agent |-> a]
  OBVIOUS
<1>2. r.step = "insert" /\ r.agent = a /\ regCall' = [regCall EXCEPT ![c] = r]
  BY <1>1 DEF RegisterAgent
<1>3. /\ regCall'[c] = r /\ \A d \in Registrars \ {c} : regCall'[d] = regCall[d]
      /\ regCall' \in [Registrars -> [step : {"idle", "insert", "remove"}, agent : RegAgents \cup {NoAgent}]]
      /\ \A d \in Registrars : regCall'[d].step # "idle" <=> regCall'[d].agent \in RegAgents
      /\ LockedOnce'
  BY <1>0, <1>2, CallChanges
<1>4. a \notin DOMAIN health
  BY <1>0 DEF RegistryInv, TrackedIffRegistered, Locked
<1>5. health' = Put(health, a, NewHealth) /\ NewHealth \in AgentHealth /\ NewHealth.status # "Healthy"
  BY <1>4, RegistryAssumption DEF RegisterAgent, NewHealth, AgentHealth, HealthStatus
<1>6. /\ DOMAIN health' = DOMAIN health \cup {a} /\ health' \in [DOMAIN health' -> AgentHealth]
      /\ health'[a] = NewHealth /\ \A b \in DOMAIN health : health'[b] = health[b]
  BY <1>0, <1>4, <1>5 DEF Put, MapsTyped
<1>7. MapsTyped'
  BY <1>0, <1>3, <1>6 DEF MapsTyped
<1>8. BelowThreshold'
  BY <1>5, <1>6 DEF RegistryInv, BelowThreshold
<1>9. BetweenMaps'
  <2> SUFFICES ASSUME NEW d \in Registrars
               PROVE  /\ regCall'[d].step = "insert" => regCall'[d].agent \in DOMAIN health' \ DOMAIN entries'
                      /\ regCall'[d].step = "remove" => regCall'[d].agent \in DOMAIN entries' \ DOMAIN health'
    BY DEF BetweenMaps
  <2>1. CASE d = c
    BY <1>0, <1>2, <1>3, <1>6, <2>1
  <2>2. CASE d # c
    <3>1. regCall[d].agent # a
      BY <1>0 DEF Locked
    <3> QED BY <1>0, <1>3, <1>6, <2>2, <3>1 DEF RegistryInv, BetweenMaps
  <2> QED BY <2>1, <2>2
<1>10. TrackedIffRegistered'
  <2> SUFFICES ASSUME NEW b \in RegAgents, \A d \in Registrars : regCall'[d].agent # b
               PROVE  b \in DOMAIN entries' <=> b \in DOMAIN health'
    BY DEF TrackedIffRegistered
  <2>1. b # a /\ \A d \in Registrars : regCall[d].agent # b
    BY <1>0, <1>2, <1>3, IdleCallTyped
  <2> QED BY <1>0, <1>6, <2>1 DEF RegistryInv, TrackedIffRegistered
<1> QED BY <1>3, <1>7, <1>8, <1>9, <1>10 DEF RegistryInv

LEMMA UnregisterKeeps ==
  ASSUME RegistryInv, NEW c \in Registrars, NEW a \in RegAgents, UnregisterAgent(c, a)
  PROVE  RegistryInv'
<1>0. MapsTyped /\ ~Locked(a) /\ a \in DOMAIN entries /\ regCall[c] = IdleCall /\ UNCHANGED entries
  BY DEF RegistryInv, UnregisterAgent
<1>1. PICK r \in [step : {"idle", "insert", "remove"}, agent : RegAgents \cup {NoAgent}] :
        r = [step |-> "remove", agent |-> a]
  OBVIOUS
<1>2. r.step = "remove" /\ r.agent = a /\ regCall' = [regCall EXCEPT ![c] = r]
  BY <1>1 DEF UnregisterAgent
<1>3. /\ regCall'[c] = r /\ \A d \in Registrars \ {c} : regCall'[d] = regCall[d]
      /\ regCall' \in [Registrars -> [step : {"idle", "insert", "remove"}, agent : RegAgents \cup {NoAgent}]]
      /\ \A d \in Registrars : regCall'[d].step # "idle" <=> regCall'[d].agent \in RegAgents
      /\ LockedOnce'
  BY <1>0, <1>2, CallChanges
<1>4. health' = Drop(health, a) /\ swept' \in [Registrars -> SUBSET RegAgents]
  BY <1>0 DEF UnregisterAgent, MapsTyped
<1>5. /\ DOMAIN health' = DOMAIN health \ {a} /\ health' \in [DOMAIN health' -> AgentHealth]
      /\ \A b \in DOMAIN health' : health'[b] = health[b]
  BY <1>0, <1>4 DEF Drop, MapsTyped
<1>6. MapsTyped'
  BY <1>0, <1>3, <1>4, <1>5 DEF MapsTyped
<1>7. BelowThreshold'
  BY <1>5 DEF RegistryInv, BelowThreshold
<1>8. BetweenMaps'
  <2> SUFFICES ASSUME NEW d \in Registrars
               PROVE  /\ regCall'[d].step = "insert" => regCall'[d].agent \in DOMAIN health' \ DOMAIN entries'
                      /\ regCall'[d].step = "remove" => regCall'[d].agent \in DOMAIN entries' \ DOMAIN health'
    BY DEF BetweenMaps
  <2>1. CASE d = c
    BY <1>0, <1>2, <1>3, <1>5, <2>1
  <2>2. CASE d # c
    <3>1. regCall[d].agent # a
      BY <1>0 DEF Locked
    <3> QED BY <1>0, <1>3, <1>5, <2>2, <3>1 DEF RegistryInv, BetweenMaps
  <2> QED BY <2>1, <2>2
<1>9. TrackedIffRegistered'
  <2> SUFFICES ASSUME NEW b \in RegAgents, \A d \in Registrars : regCall'[d].agent # b
               PROVE  b \in DOMAIN entries' <=> b \in DOMAIN health'
    BY DEF TrackedIffRegistered
  <2>1. b # a /\ \A d \in Registrars : regCall[d].agent # b
    BY <1>0, <1>2, <1>3, IdleCallTyped
  <2> QED BY <1>0, <1>5, <2>1 DEF RegistryInv, TrackedIffRegistered
<1> QED BY <1>3, <1>6, <1>7, <1>8, <1>9 DEF RegistryInv

\* The second half of a call completes the agent in both maps or in neither.
LEMMA SecondHalfKeeps ==
  ASSUME RegistryInv, NEW c \in Registrars, InsertEntry(c) \/ RemoveEntry(c)
  PROVE  RegistryInv'
<1>0. MapsTyped /\ UNCHANGED <<health, swept>>
  BY DEF RegistryInv, InsertEntry, RemoveEntry
<1>1. PICK a \in RegAgents : a = regCall[c].agent
  BY <1>0 DEF InsertEntry, RemoveEntry, MapsTyped
<1>2. regCall' = [regCall EXCEPT ![c] = IdleCall]
  BY DEF InsertEntry, RemoveEntry
<1>3. /\ regCall'[c] = IdleCall /\ \A d \in Registrars \ {c} : regCall'[d] = regCall[d]
      /\ regCall' \in [Registrars -> [step : {"idle", "insert", "remove"}, agent : RegAgents \cup {NoAgent}]]
      /\ \A d \in Registrars : regCall'[d].step # "idle" <=> regCall'[d].agent \in RegAgents
      /\ LockedOnce'
  BY <1>2, CallChanges, IdleCallTyped
<1>4. /\ \A b \in RegAgents \ {a} : b \in DOMAIN entries' <=> b \in DOMAIN entries
      /\ a \in DOMAIN entries' <=> a \in DOMAIN health
      /\ entries' \in [DOMAIN entries' -> AgentStatus \cup {"Spawning"}]
  <2>1. CASE InsertEntry(c)
    <3>1. entries' = Put(entries, a, "Spawning") /\ a \in DOMAIN health
      BY <1>1, <2>1 DEF InsertEntry, RegistryInv, BetweenMaps
    <3>2. DOMAIN entries' = DOMAIN entries \cup {a}
            /\ entries' \in [DOMAIN entries \cup {a} -> AgentStatus \cup {"Spawning"}]
      BY <1>0, <3>1 DEF Put, MapsTyped
    <3> QED BY <3>1, <3>2
  <2>2. CASE RemoveEntry(c)
    <3>1. entries' = Drop(entries, a) /\ a \notin DOMAIN health
      BY <1>1, <2>2 DEF RemoveEntry, RegistryInv, BetweenMaps
    <3>2. DOMAIN entries' = DOMAIN entries \ {a} /\ entries' \in [DOMAIN entries \ {a} -> AgentStatus \cup {"Spawning"}]
      BY <1>0, <3>1 DEF Drop, MapsTyped
    <3> QED BY <3>1, <3>2
  <2> QED BY <2>1, <2>2
<1>5. MapsTyped' /\ BelowThreshold'
  BY <1>0, <1>3, <1>4 DEF RegistryInv, MapsTyped, BelowThreshold
<1>6. \A d \in Registrars \ {c} : regCall[d].agent # a
  BY <1>1 DEF RegistryInv, LockedOnce
<1>7. BetweenMaps'
  <2> SUFFICES ASSUME NEW d \in Registrars
               PROVE  /\ regCall'[d].step = "insert" => regCall'[d].agent \in DOMAIN health' \ DOMAIN entries'
                      /\ regCall'[d].step = "remove" => regCall'[d].agent \in DOMAIN entries' \ DOMAIN health'
    BY DEF BetweenMaps
  <2>1. CASE d = c
    BY <1>3, <2>1, IdleCallTyped
  <2>2. CASE d # c
    BY <1>0, <1>3, <1>4, <1>6, <2>2 DEF RegistryInv, BetweenMaps, MapsTyped
  <2> QED BY <2>1, <2>2
<1>8. TrackedIffRegistered'
  <2> SUFFICES ASSUME NEW b \in RegAgents, \A d \in Registrars : regCall'[d].agent # b
               PROVE  b \in DOMAIN entries' <=> b \in DOMAIN health'
    BY DEF TrackedIffRegistered
  <2>1. CASE b = a
    BY <1>0, <1>4, <2>1
  <2>2. CASE b # a
    <3>1. \A d \in Registrars : regCall[d].agent # b
      BY <1>1, <1>3, <2>2
    <3> QED BY <1>0, <1>4, <2>2, <3>1 DEF RegistryInv, TrackedIffRegistered
  <2> QED BY <2>1, <2>2
<1> QED BY <1>3, <1>5, <1>7, <1>8 DEF RegistryInv

\* ClusterHealth is Healthy only if no record says Degraded or Unhealthy.
LEMMA ClusterHonest ==
  ASSUME RegistryInv, ClusterHealth = "Healthy", NEW a \in DOMAIN health
  PROVE  health[a].status \in {"Healthy", "Unknown"}
<1>0. health[a].status \in HealthStatus /\ DOMAIN health \subseteq RegAgents
  BY DEF RegistryInv, MapsTyped, AgentHealth
<1>1. ASSUME NEW s, health[a].status = s
      PROVE  /\ Cardinality({b \in DOMAIN health : health[b].status = s}) \in Nat
             /\ Cardinality({b \in DOMAIN health : health[b].status = s}) > 0
  <2>1. PICK S : S = {b \in DOMAIN health : health[b].status = s}
    OBVIOUS
  <2>2. IsFiniteSet(S) /\ S # {}
    BY <1>0, <1>1, <2>1, FS_Subset, RegistryAssumption
  <2>3. Cardinality(S) \in Nat /\ Cardinality(S) # 0
    BY <2>2, FS_CardinalityType, FS_EmptySet
  <2> QED BY <2>1, <2>3
<1>2. ASSUME health[a].status = "Unhealthy" PROVE FALSE
  <2>1. Cardinality({b \in DOMAIN health : health[b].status = "Unhealthy"}) > 0
    BY <1>1, <1>2
  <2>2. ClusterHealth = "Unhealthy"
    BY <2>1 DEF ClusterHealth
  <2> QED BY <2>2
<1>3. ASSUME health[a].status = "Degraded" PROVE FALSE
  <2>1. Cardinality({b \in DOMAIN health : health[b].status = "Degraded"}) > 0
    BY <1>1, <1>3
  <2>2. Cardinality({b \in DOMAIN health : health[b].status = "Unhealthy"}) \in Nat
    <3>1. {b \in DOMAIN health : health[b].status = "Unhealthy"} \subseteq RegAgents
      BY <1>0
    <3> QED BY <3>1, FS_Subset, FS_CardinalityType, RegistryAssumption
  <2>3. CASE Cardinality({b \in DOMAIN health : health[b].status = "Unhealthy"}) > 0
    <3>1. ClusterHealth = "Unhealthy"
      BY <2>3 DEF ClusterHealth
    <3> QED BY <3>1
  <2>4. CASE Cardinality({b \in DOMAIN health : health[b].status = "Unhealthy"}) = 0
    <3>1. ClusterHealth = "Degraded"
      BY <2>1, <2>4 DEF ClusterHealth
    <3> QED BY <3>1
  <2> QED BY <2>2, <2>3, <2>4
<1> QED BY <1>0, <1>2, <1>3 DEF HealthStatus

-----------------------------------------------------------------------------
(***************************************************************************)
(* Discovery: versions are ordered, of the capabilities that satisfy a     *)
(* requirement there is a newest, and scores compare agents that fit.      *)
(***************************************************************************)

\* A finite set has a greatest element under every total preorder R.
LEMMA FiniteTop ==
  ASSUME NEW F, IsFiniteSet(F), F # {}, NEW R,
         \A x, y \in F : <<x, y>> \in R \/ <<y, x>> \in R,
         \A x, y, z \in F : <<x, y>> \in R /\ <<y, z>> \in R => <<x, z>> \in R
  PROVE  \E m \in F : \A x \in F : <<x, m>> \in R
<1>. DEFINE Topped(T) == \E m \in T : \A x \in T : <<x, m>> \in R
            Bad == {T \in SUBSET F : T # {} /\ ~Topped(T)}
            N == {Cardinality(T) : T \in Bad}
<1>. SUFFICES ASSUME ~Topped(F) PROVE FALSE
  OBVIOUS
<1>1. F \in Bad
  OBVIOUS
<1>2. \A T \in Bad : T \in SUBSET F /\ T # {} /\ ~Topped(T) /\ IsFiniteSet(T) /\ Cardinality(T) \in Nat
  <2>1. \A T \in Bad : T \in SUBSET F /\ T # {} /\ ~Topped(T)
    OBVIOUS
  <2>2. \A T \in Bad : IsFiniteSet(T) /\ Cardinality(T) \in Nat
    BY FS_Subset, FS_CardinalityType
  <2>. QED BY <2>1, <2>2
<1>3. \A T \in SUBSET F : T # {} /\ ~Topped(T) => T \in Bad
  OBVIOUS
<1>. HIDE DEF Bad
<1>3a. (\A T \in Bad : Cardinality(T) \in N) /\ \A k \in N : \E T \in Bad : k = Cardinality(T)
  OBVIOUS
<1>. HIDE DEF N
<1>4. N \subseteq Nat /\ N # {}
  <2>1. Cardinality(F) \in N
    BY <1>1, <1>3a
  <2>2. ASSUME NEW k \in N PROVE k \in Nat
    <3>1. PICK T \in Bad : k = Cardinality(T)
      BY <1>3a
    <3>. QED BY <1>2, <3>1
  <2>. QED BY <2>1, <2>2
<1>5. PICK n \in N : \A k \in N : n <= k
  BY <1>4, LeastNatural
<1>6. PICK T \in Bad : n = Cardinality(T)
  BY <1>3a, <1>5
<1>7. PICK x \in T : TRUE
  BY <1>2, <1>6
<1>. DEFINE U == T \ {x}
<1>8. x \in F /\ <<x, x>> \in R /\ T = U \cup {x} /\ U \in SUBSET F /\ IsFiniteSet(T)
  <2>1. T \in SUBSET F /\ IsFiniteSet(T)
    BY <1>2, <1>6
  <2>2. x \in F
    BY <1>7, <2>1
  <2>3. T = U \cup {x} /\ U \in SUBSET F
    BY <1>7, <2>1
  <2>. QED BY <2>1, <2>2, <2>3
<1>9. Cardinality(U) = n - 1
  BY <1>2, <1>6, <1>7, FS_RemoveElement
<1>10. U \notin Bad
  <2>. SUFFICES ASSUME U \in Bad PROVE FALSE
    OBVIOUS
  <2>1. Cardinality(U) \in N
    BY <1>3a
  <2>2. n \in Nat /\ n <= n - 1
    BY <1>4, <1>5, <1>9, <2>1
  <2>. QED BY <2>2
<1>11. U # {}
  <2>. SUFFICES ASSUME U = {} PROVE FALSE
    OBVIOUS
  <2>1. \A y \in T : <<y, x>> \in R
    BY <1>8
  <2>. QED BY <1>2, <1>6, <1>7, <2>1
<1>12. Topped(U)
  BY <1>3, <1>8, <1>10, <1>11
<1>13. PICK m \in U : \A y \in U : <<y, m>> \in R
  BY <1>12
<1>14. CASE <<x, m>> \in R
  <2>1. \A y \in T : <<y, m>> \in R
    BY <1>8, <1>13, <1>14
  <2>. QED BY <1>2, <1>6, <1>13, <2>1
<1>15. CASE <<m, x>> \in R
  <2>1. m \in F /\ \A y \in U : y \in F
    BY <1>8, <1>13
  <2>2. \A y \in T : <<y, x>> \in R
    BY <1>8, <1>13, <1>15, <2>1
  <2>. QED BY <1>2, <1>6, <1>7, <2>2
<1>. QED BY <1>8, <1>13, <1>14, <1>15

\* Versions are ordered: Before is a strict order and its complement is total.
LEMMA VersionOrder ==
  ASSUME NEW u \in SemVer, NEW v \in SemVer, NEW w \in SemVer
  PROVE  /\ ~Before(u, v) \/ ~Before(v, u)
         /\ ~Before(v, u) /\ ~Before(w, v) => ~Before(w, u)
<1>1. /\ u.major \in Nat /\ u.minor \in Nat /\ u.patch \in Nat /\ u.pre \in Int
      /\ v.major \in Nat /\ v.minor \in Nat /\ v.patch \in Nat /\ v.pre \in Int
      /\ w.major \in Nat /\ w.minor \in Nat /\ w.patch \in Nat /\ w.pre \in Int
  BY VersionsAssumption DEF SemVer
<1>. QED BY <1>1 DEF Before

\* What a caret admits is what comes before the first breaking version.
LEMMA CaretIsRange ==
  ASSUME NEW base \in SemVer, NEW v \in SemVer
  PROVE  CaretAllows(base, v) <=> InCompatibleRange(base, v)
<1>1. /\ base.major \in Nat /\ base.minor \in Nat /\ base.patch \in Nat /\ base.pre \in Nat /\ base.pre >= 1
      /\ v.major \in Nat /\ v.minor \in Nat /\ v.patch \in Nat /\ v.pre \in Nat /\ v.pre >= 1
  BY VersionsAssumption DEF SemVer
<1>2. CASE base.major > 0
  <2>. DEFINE q == [major |-> base.major + 1, minor |-> 0, patch |-> 0, pre |-> 1]
  <2>1. InCompatibleRange(base, v) <=> ~Before(v, base) /\ Before(v, q)
    BY <1>2 DEF InCompatibleRange
  <2>2. q.major = base.major + 1 /\ q.minor = 0 /\ q.patch = 0 /\ q.pre = 1
    OBVIOUS
  <2>. HIDE DEF q
  <2>. QED BY <1>1, <1>2, <2>1, <2>2 DEF CaretAllows, Before
<1>3. CASE base.major = 0 /\ base.minor > 0
  <2>. DEFINE q == [major |-> 0, minor |-> base.minor + 1, patch |-> 0, pre |-> 1]
  <2>1. InCompatibleRange(base, v) <=> ~Before(v, base) /\ Before(v, q)
    BY <1>3 DEF InCompatibleRange
  <2>2. q.major = 0 /\ q.minor = base.minor + 1 /\ q.patch = 0 /\ q.pre = 1
    OBVIOUS
  <2>. HIDE DEF q
  <2>. QED BY <1>1, <1>3, <2>1, <2>2 DEF CaretAllows, Before
<1>4. CASE base.major = 0 /\ base.minor = 0
  <2>. DEFINE q == [major |-> 0, minor |-> 0, patch |-> base.patch + 1, pre |-> 1]
  <2>1. InCompatibleRange(base, v) <=> ~Before(v, base) /\ Before(v, q)
    BY <1>4 DEF InCompatibleRange
  <2>2. q.major = 0 /\ q.minor = 0 /\ q.patch = base.patch + 1 /\ q.pre = 1
    OBVIOUS
  <2>. HIDE DEF q
  <2>. QED BY <1>1, <1>4, <2>1, <2>2 DEF CaretAllows, Before
<1>. QED BY <1>1, <1>2, <1>3, <1>4

LEMMA OffersTyped ==
  ASSUME NEW a \in RegAgents
  PROVE  IsFiniteSet(Offers(a)) /\ \A c \in Offers(a) : c.version \in SemVer
<1>1. IsFiniteSet(Declared[a]) /\ \A c \in Declared[a] : c.version \in SemVer \cup {Unparsable}
  BY VersionsAssumption
<1>. DEFINE P(c) == [name |-> c.name, version |-> IF c.version = Unparsable THEN ZeroVersion ELSE c.version]
<1>2. Offers(a) = {P(c) : c \in Declared[a]}
  BY DEF Offers, ParseCapabilities
<1>3. ZeroVersion \in SemVer
  BY VersionsAssumption DEF ZeroVersion, SemVer
<1>4. \A c \in Declared[a] : P(c).version \in SemVer
  BY <1>1, <1>3
<1>. HIDE DEF P
<1>5. IsFiniteSet({P(c) : c \in Declared[a]})
  <2>. DEFINE T == {P(c) : c \in Declared[a]}
              f == [c \in Declared[a] |-> P(c)]
  <2>1. f \in Surjection(Declared[a], T)
    BY DEF Surjection
  <2>. HIDE DEF T, f
  <2>2. IsFiniteSet(T)
    BY <1>1, <2>1, FS_Surjection
  <2>. QED BY <2>2 DEF T
<1>. QED BY <1>2, <1>4, <1>5

\* A requirement is matched when some capability meets it: of those that do,
\* there is a newest.
LEMMA MatchMeets ==
  ASSUME NEW a \in RegAgents, NEW r, r.constraint.base \in SemVer
  PROVE  FindMatch(Offers(a), r) # {} <=> Meets(a, r)
<1>. DEFINE fit == {c \in Offers(a) : c.name = r.name /\ Satisfies(r.constraint, c.version)}
            R == {p \in fit \X fit : ~Before(p[2].version, p[1].version)}
<1>1. FindMatch(Offers(a), r) = {c \in fit : \A d \in fit : ~Before(c.version, d.version)}
  BY DEF FindMatch
<1>2. IsFiniteSet(fit) /\ \A c \in fit : c.version \in SemVer
  BY OffersTyped, FS_Subset
<1>3. fit # {} <=> Meets(a, r)
  <2>1. r.constraint.op = "caret" => \A v : Satisfies(r.constraint, v) = CaretAllows(r.constraint.base, v)
    BY DEF Satisfies
  <2>2. \A c \in Offers(a) : r.constraint.op = "caret" =>
          (Satisfies(r.constraint, c.version) <=> InCompatibleRange(r.constraint.base, c.version))
    BY <2>1, OffersTyped, CaretIsRange
  <2>. QED BY <2>2 DEF Meets
<1>. HIDE DEF fit
<1>4. \A x, y \in fit : <<x, y>> \in R <=> ~Before(y.version, x.version)
  OBVIOUS
<1>. HIDE DEF R
<1>5. \A x, y \in fit : <<x, y>> \in R \/ <<y, x>> \in R
  BY <1>2, <1>4, VersionOrder
<1>6. \A x, y, z \in fit : <<x, y>> \in R /\ <<y, z>> \in R => <<x, z>> \in R
  BY <1>2, <1>4, VersionOrder
<1>7. fit # {} => \E m \in fit : \A x \in fit : <<x, m>> \in R
  BY <1>2, <1>5, <1>6, FiniteTop
<1>8. fit # {} => \E m \in fit : \A x \in fit : ~Before(m.version, x.version)
  BY <1>4, <1>7
<1>. QED BY <1>1, <1>3, <1>8

FitsAll(a, reqs) == \A r \in reqs : r.required => Meets(a, r)
OptionalMet(a, reqs) == Cardinality({r \in reqs : ~r.required /\ Meets(a, r)})

\* What the score of every agent that fits has in common, and what an
\* optional requirement adds to it.
Required(reqs) == {r \in reqs : r.required}
CommonScore(reqs) ==
  3 * (IF Required(reqs) = {} THEN 1 ELSE Cardinality(Required(reqs)))
    * (IF reqs \ Required(reqs) = {} THEN 1 ELSE Cardinality(reqs \ Required(reqs)))
OptionalWeight(reqs) == IF Required(reqs) = {} THEN 1 ELSE Cardinality(Required(reqs))

LEMMA FitsMatched ==
  ASSUME NEW a \in RegAgents, NEW reqs \in Requests
  PROVE  AllRequiredMet(Offers(a), reqs) <=> FitsAll(a, reqs)
<1>1. \A r \in reqs : FindMatch(Offers(a), r) # {} <=> Meets(a, r)
  BY VersionsAssumption, MatchMeets
<1>. QED BY <1>1 DEF AllRequiredMet, MissingRequired, FitsAll

LEMMA ScoreOfFit ==
  ASSUME NEW a \in RegAgents, NEW reqs \in Requests, FitsAll(a, reqs)
  PROVE  /\ TotalScore(Offers(a), reqs) = CommonScore(reqs) + OptionalMet(a, reqs) * OptionalWeight(reqs)
         /\ CommonScore(reqs) \in Nat /\ OptionalMet(a, reqs) \in Nat /\ OptionalWeight(reqs) \in Nat \ {0}
<1>0. IsFiniteSet(reqs) /\ \A r \in reqs : r.required \in BOOLEAN
  BY VersionsAssumption
<1>1. \A r \in reqs : FindMatch(Offers(a), r) # {} <=> Meets(a, r)
  BY VersionsAssumption, MatchMeets
<1>. DEFINE Q == Required(reqs)
            O == reqs \ Required(reqs)
<1>2. {r \in Q : FindMatch(Offers(a), r) # {}} = Q
  BY <1>1 DEF FitsAll, Required
<1>3. {r \in O : FindMatch(Offers(a), r) # {}} = {r \in reqs : ~r.required /\ Meets(a, r)}
  BY <1>1 DEF Required
<1>4. IsFiniteSet(Q) /\ IsFiniteSet(O) /\ IsFiniteSet({r \in reqs : ~r.required /\ Meets(a, r)})
  BY <1>0, FS_Subset DEF Required
<1>5. /\ Cardinality(Q) \in Nat /\ Cardinality(O) \in Nat /\ OptionalMet(a, reqs) \in Nat
      /\ (Q # {} => Cardinality(Q) # 0)
  BY <1>4, FS_CardinalityType, FS_EmptySet DEF OptionalMet
<1>6. OptionalWeight(reqs) \in Nat \ {0}
  BY <1>5 DEF OptionalWeight
<1>7. CommonScore(reqs) \in Nat
  <2>1. PICK k \in Nat : k = IF Q = {} THEN 1 ELSE Cardinality(Q)
    BY <1>5
  <2>2. PICK n \in Nat : n = IF O = {} THEN 1 ELSE Cardinality(O)
    BY <1>5
  <2>3. CommonScore(reqs) = 3 * k * n
    BY <2>1, <2>2 DEF CommonScore
  <2>. QED BY <2>3
<1>8. TotalScore(Offers(a), reqs)
      = 3 * (IF Q = {} THEN 1 ELSE Cardinality({r \in Q : FindMatch(Offers(a), r) # {}}))
          * (IF O = {} THEN 1 ELSE Cardinality(O))
        + Cardinality({r \in O : FindMatch(Offers(a), r) # {}}) * (IF Q = {} THEN 1 ELSE Cardinality(Q))
  BY Zenon DEF TotalScore, Required
<1>9. TotalScore(Offers(a), reqs) = CommonScore(reqs) + OptionalMet(a, reqs) * OptionalWeight(reqs)
  BY <1>2, <1>3, <1>8, Zenon DEF CommonScore, OptionalMet, OptionalWeight
<1>. QED BY <1>5, <1>6, <1>7, <1>9

LEMMA ScoresCompare ==
  ASSUME NEW p \in Nat, NEW x \in Nat, NEW y \in Nat, NEW n \in Nat \ {0}, p + x * n <= p + y * n
  PROVE  x <= y
<1>. SUFFICES ASSUME x > y PROVE FALSE
  OBVIOUS
<1>1. PICK k \in Nat : x = y + 1 + k
  <2>1. x - y - 1 \in Nat /\ x = y + 1 + (x - y - 1)
    OBVIOUS
  <2>. QED BY <2>1
<1>2. x * n = y * n + n + k * n
  BY <1>1
<1>3. y * n \in Nat /\ k * n \in Nat /\ n > 0
  OBVIOUS
<1>4. PICK u \in Nat, w \in Nat : u = y * n /\ w = k * n
  BY <1>3
<1>5. p + (u + n + w) <= p + u
  BY <1>2, <1>4
<1>. QED BY <1>3, <1>5

EntriesKnown == DOMAIN entries \subseteq RegAgents

\* Whatever is registered, best_agent answers with an agent that fits best.
LEMMA BestFits ==
  ASSUME DOMAIN entries \subseteq RegAgents, NEW reqs \in Requests, BestAgent(reqs)
  PROVE  BestAgentFits'
<1>. DEFINE among == DOMAIN entries
            fit == Discover(among, reqs)
            S(a) == TotalScore(Offers(a), reqs)
            top == {a \in fit : \A b \in fit : S(b) <= S(a)}
            R == {p \in fit \X fit : S(p[1]) <= S(p[2])}
<1>1. PICK a \in IF top = {} THEN {NoAgent} ELSE top : best' = [agent |-> a, asked |-> reqs, among |-> among]
  BY DEF BestAgent
<1>2. best'.agent = a /\ best'.asked = reqs /\ best'.among = among
  BY <1>1
<1>3. \A b \in among : b \in fit <=> FitsAll(b, reqs)
  BY FitsMatched DEF Discover
<1>4. fit \subseteq among /\ IsFiniteSet(fit) /\ fit \subseteq RegAgents
  BY RegistryAssumption, FS_Subset DEF Discover
<1>. HIDE DEF fit
<1>5. \A b \in fit : /\ S(b) = CommonScore(reqs) + OptionalMet(b, reqs) * OptionalWeight(reqs)
                     /\ CommonScore(reqs) \in Nat /\ OptionalMet(b, reqs) \in Nat /\ OptionalWeight(reqs) \in Nat \ {0}
  BY <1>3, <1>4, ScoreOfFit
<1>6. \A b \in fit : S(b) \in Nat
  <2>1. \A x, y, z \in Nat : x + y * z \in Nat
    OBVIOUS
  <2>. QED BY <1>5, <2>1
<1>. HIDE DEF S
<1>7. fit # {} => top # {}
  <2>1. \A x, y \in fit : <<x, y>> \in R <=> S(x) <= S(y)
    OBVIOUS
  <2>. HIDE DEF R
  <2>2. ASSUME NEW x \in fit, NEW y \in fit PROVE <<x, y>> \in R \/ <<y, x>> \in R
    <3>1. S(x) \in Nat /\ S(y) \in Nat
      BY <1>6
    <3>2. S(x) <= S(y) \/ S(y) <= S(x)
      BY <3>1
    <3>. QED BY <2>1, <3>2
  <2>3. ASSUME NEW x \in fit, NEW y \in fit, NEW z \in fit, <<x, y>> \in R, <<y, z>> \in R
        PROVE  <<x, z>> \in R
    <3>1. S(x) \in Nat /\ S(y) \in Nat /\ S(z) \in Nat /\ S(x) <= S(y) /\ S(y) <= S(z)
      BY <1>6, <2>1, <2>3
    <3>2. S(x) <= S(z)
      BY <3>1
    <3>. QED BY <2>1, <3>2
  <2>4. fit # {} => \E m \in fit : \A x \in fit : <<x, m>> \in R
    BY <1>4, <2>2, <2>3, FiniteTop
  <2>. QED BY <2>1, <2>4
<1>8. CASE top = {}
  <2>1. a = NoAgent /\ fit = {}
    BY <1>1, <1>7, <1>8
  <2>2. \A b \in among : ~FitsAll(b, reqs)
    BY <1>3, <2>1
  <2>. QED BY <1>2, <2>1, <2>2, Zenon DEF BestAgentFits, FitsAll
<1>9. CASE top # {}
  <2>1. a \in fit /\ (\A b \in fit : S(b) <= S(a)) /\ a # NoAgent
    BY <1>1, <1>4, <1>9, RegistryAssumption
  <2>2. \A b \in fit : OptionalMet(b, reqs) <= OptionalMet(a, reqs)
    BY <1>5, <2>1, ScoresCompare
  <2>3. a \in among /\ FitsAll(a, reqs) /\ \A b \in among : FitsAll(b, reqs) => OptionalMet(b, reqs) <= OptionalMet(a, reqs)
    BY <1>3, <1>4, <2>1, <2>2
  <2>. QED BY <1>2, <2>1, <2>3, Zenon DEF BestAgentFits, FitsAll, OptionalMet
<1>. QED BY <1>8, <1>9

(***************************************************************************)
(* For any number of callers of register, unregister and sweep_unhealthy:  *)
(* the registry and its health monitor hold the same agents, and neither   *)
(* an agent nor the cluster is reported Healthy against what was counted.  *)
(* For any versions declared and asked for, best_agent answers with an     *)
(* agent that fits and that no other one that fits betters.                *)
(***************************************************************************)
THEOREM RegistryStaysSound == RegistrySpec => []RegistrySound
<1>1. RegistryInit => RegistryInv
  <2> SUFFICES ASSUME RegistryInit PROVE RegistryInv
    OBVIOUS
  <2>1. DOMAIN entries = {} /\ DOMAIN health = {} /\ \A c \in Registrars : regCall[c] = IdleCall
    BY DEF RegistryInit, EmptyMap
  <2>2. MapsTyped
    BY <2>1, IdleCallTyped DEF RegistryInit, MapsTyped, EmptyMap
  <2> QED BY <2>1, <2>2, IdleCallTyped DEF RegistryInv, LockedOnce, BetweenMaps,
     TrackedIffRegistered, BelowThreshold
<1>2. RegistryInv /\ [RegistryNext]_registryVars => RegistryInv'
  <2> SUFFICES ASSUME RegistryInv, [RegistryNext]_registryVars PROVE RegistryInv'
    OBVIOUS
  <2>1. CASE RegistrationNext
    BY <2>1, RegisterKeeps, UnregisterKeeps, SecondHalfKeeps DEF RegistrationNext
  <2>2. ASSUME NEW c \in Registrars, Sweep(c)
        PROVE  RegistryInv'
    BY <2>2, SweepAloneKept
  <2>3. ASSUME NEW c \in Registrars, NEW a \in RegAgents, SweepPasses(c, a)
        PROVE  RegistryInv'
    BY <2>3, SweepKept
  <2>4. ASSUME NEW a \in RegAgents,
               \/ AgentHeartbeat(a) \/ TimeoutPasses(a)
               \/ \E t \in AgentStatus : UpdateStatus(a, t)
               \/ \E s \in HealthStatus : CheckReported(a, s)
        PROVE  RegistryInv'
    BY <2>4, MonitorKept
  <2>5. CASE DiscoverNext \/ UNCHANGED registryVars
    <3>1. UNCHANGED <<entries, health, regCall, swept>>
      BY <2>5 DEF DiscoverNext, BestAgent, registryVars
    <3> QED BY <3>1, HealthKept DEF RegistryInv, MapsTyped, BelowThreshold
  <2> QED BY <2>1, <2>2, <2>3, <2>4, <2>5 DEF RegistryNext, HealthNext
<1>3. RegistryInv /\ BestAgentFits => RegistrySound
  <2> SUFFICES ASSUME RegistryInv, BestAgentFits PROVE RegistrySound
    OBVIOUS
  <2>1. RegistryTypeOK
    BY DEF RegistryInv, MapsTyped, RegistryTypeOK
  <2>2. HealthyMeansBelowThreshold
    BY ClusterHonest DEF RegistryInv, BelowThreshold, HealthyMeansBelowThreshold
  <2> QED BY <2>1, <2>2 DEF RegistryInv, RegistrySound
<1>4. RegistryInit => BestAgentFits
  <2> SUFFICES ASSUME RegistryInit PROVE BestAgentFits
    OBVIOUS
  <2>1. best.agent = NoAgent /\ best.among = {}
    BY DEF RegistryInit
  <2> QED BY <2>1, Zenon DEF BestAgentFits
<1>5. RegistryInv /\ EntriesKnown /\ BestAgentFits /\ [RegistryNext]_registryVars => BestAgentFits'
  <2> SUFFICES ASSUME RegistryInv, EntriesKnown, BestAgentFits, [RegistryNext]_registryVars PROVE BestAgentFits'
    OBVIOUS
  <2>1. CASE DiscoverNext
    BY <2>1, BestFits DEF DiscoverNext, EntriesKnown
  <2>2. CASE RegistrationNext \/ HealthNext \/ UNCHANGED registryVars
    <3>1. best' = best
      BY <2>2 DEF RegistrationNext, HealthNext, registryVars, RegisterAgent, UnregisterAgent, InsertEntry, RemoveEntry,
         Sweep, SweepPasses, AgentHeartbeat, TimeoutPasses, UpdateStatus, CheckReported
    <3>2. BestAgentFits' <=> BestAgentFits
      BY <3>1, Zenon DEF BestAgentFits, Meets, Offers
    <3> QED BY <3>2
  <2> QED BY <2>1, <2>2 DEF RegistryNext
<1>6. RegistryInit => EntriesKnown
  BY DEF RegistryInit, EmptyMap, EntriesKnown
<1>7. RegistryInv /\ EntriesKnown /\ [RegistryNext]_registryVars => EntriesKnown'
  <2> SUFFICES ASSUME RegistryInv, EntriesKnown, [RegistryNext]_registryVars PROVE EntriesKnown'
    OBVIOUS
  <2>1. ASSUME NEW c \in Registrars, InsertEntry(c) PROVE EntriesKnown'
    <3>1. regCall[c].agent \in RegAgents
      BY <2>1 DEF InsertEntry, RegistryInv, MapsTyped
    <3> QED BY <2>1, <3>1 DEF InsertEntry, EntriesKnown, Put
  <2>2. ASSUME NEW c \in Registrars, RemoveEntry(c) PROVE EntriesKnown'
    BY <2>2 DEF RemoveEntry, EntriesKnown, Drop
  <2>3. ASSUME NEW a \in RegAgents, NEW t \in AgentStatus, UpdateStatus(a, t) PROVE EntriesKnown'
    BY <2>3 DEF UpdateStatus, EntriesKnown
  <2>4. ASSUME UNCHANGED entries PROVE EntriesKnown'
    BY <2>4 DEF EntriesKnown
  <2>5. \/ \E c \in Registrars : InsertEntry(c) \/ RemoveEntry(c)
        \/ \E a \in RegAgents, t \in AgentStatus : UpdateStatus(a, t)
        \/ UNCHANGED entries
    BY DEF RegistryNext, RegistrationNext, HealthNext, DiscoverNext, registryVars, RegisterAgent, UnregisterAgent,
       Sweep, SweepPasses, AgentHeartbeat, TimeoutPasses, CheckReported, BestAgent
  <2> QED BY <2>1, <2>2, <2>3, <2>4, <2>5
<1> QED BY <1>1, <1>2, <1>3, <1>4, <1>5, <1>6, <1>7, PTL DEF RegistrySpec

-----------------------------------------------------------------------------
(***************************************************************************)
(* An agent of the SDK: its messages, its middleware and its slots.        *)
(***************************************************************************)

\* A count over a finite set when one element changes sides.
LEMMA CountChanges ==
  ASSUME NEW S, IsFiniteSet(S), NEW A \in SUBSET S, NEW B \in SUBSET S, NEW x \in S, A \ {x} = B \ {x}
  PROVE  /\ Cardinality(A) \in Nat /\ Cardinality(B) \in Nat
         /\ Cardinality(B) + (IF x \in A THEN 1 ELSE 0) = Cardinality(A) + (IF x \in B THEN 1 ELSE 0)
<1>1. IsFiniteSet(A) /\ IsFiniteSet(B)
  BY FS_Subset
<1>2. Cardinality(A) \in Nat /\ Cardinality(B) \in Nat
  BY <1>1, FS_CardinalityType
<1>3. CASE x \in A /\ x \in B
  <2>1. A = B
    BY <1>3
  <2>. QED BY <1>2, <1>3, <2>1
<1>4. CASE x \notin A /\ x \notin B
  <2>1. A = B
    BY <1>4
  <2>. QED BY <1>2, <1>4, <2>1
<1>5. CASE x \in A /\ x \notin B
  <2>1. B = A \ {x}
    BY <1>5
  <2>2. Cardinality(B) = Cardinality(A) - 1
    BY <1>1, <1>5, <2>1, FS_RemoveElement
  <2>. QED BY <1>2, <1>5, <2>2
<1>6. CASE x \notin A /\ x \in B
  <2>1. A = B \ {x}
    BY <1>6
  <2>2. Cardinality(A) = Cardinality(B) - 1
    BY <1>1, <1>6, <2>1, FS_RemoveElement
  <2>. QED BY <1>2, <1>6, <2>2
<1>. QED BY <1>3, <1>4, <1>5, <1>6

\* A message that was received and has not been answered.
Open(r) == r.at \in {"in", "handler", "out", "dropped"}

\* What a message has passed: no auth layer without a valid token.
CallOK(m, r, layers) ==
  /\ r \in Call /\ r.depth <= Len(layers) /\ DOMAIN r.tries = DOMAIN layers
  /\ ~Open(r) => r.depth = 0
  /\ \A d \in 1 .. r.depth : layers[d] = "auth" => m \in Authorized

CallsOK ==
  /\ stack \in Stacks
  /\ msg \in [Messages -> Call]
  /\ \A m \in Messages : CallOK(m, msg[m], stack)

InvokedOK == invoked \in [Messages -> Nat] /\ DeniedNeverHandled

OpenCalls == {m \in Messages : Open(msg[m])}
Within(r, k) == IF Open(r) /\ r.depth >= k THEN 1 ELSE 0
Inside(k) == {m \in Messages : Open(msg[m]) /\ msg[m].depth >= k}

MetricsType == [total : Nat, successful : Nat, failed : Nat]
UncutMetrics(k, layers) == layers[k] = "metrics" /\ \A d \in 1 .. k : layers[d] # "timeout"

StatsOK == stats \in RuntimeStats /\ stats.received = stats.processed + stats.failed + Cardinality(OpenCalls)

MetricsOK ==
  /\ metrics \in MetricsType
  /\ \A k \in DOMAIN stack : UncutMetrics(k, stack) =>
       metrics.total = metrics.successful + metrics.failed + Cardinality(Inside(k))

TaskPhases == {"new", "running", "completed", "failed", "refused", "dropped"}
RunningTasks == {t \in SdkTasks : tasks[t] = "running"}
EndedTasks == {t \in SdkTasks : tasks[t] \in {"completed", "failed"}}

TasksOK ==
  /\ tasks \in [SdkTasks -> TaskPhases]
  /\ slots \in 0 .. TaskSlots
  /\ slots + Cardinality(RunningTasks) = TaskSlots
  /\ stats.tasksCompleted + stats.tasksFailed = Cardinality(EndedTasks)

InstanceInv == instance \in InstanceState /\ CallsOK /\ InvokedOK /\ StatsOK /\ MetricsOK /\ TasksOK

LEMMA InvGivesSound == InstanceInv => InstanceSound
<1>. SUFFICES ASSUME InstanceInv PROVE InstanceSound
  OBVIOUS
<1>1. OpenCalls = {m \in Messages : InFlight(m) \/ msg[m].at = "dropped"}
  BY DEF OpenCalls, Open, InFlight
<1>2. \A k : Inside(k) = {m \in Messages : /\ InFlight(m) \/ msg[m].at = "dropped"
                                           /\ msg[m].depth >= k}
  BY DEF Inside, Open, InFlight
<1>3. InstanceTypeOK
  BY DEF InstanceInv, InstanceTypeOK, CallsOK, StatsOK, TasksOK, TaskPhases
<1>4. AccountsBalance
  BY <1>1, <1>2 DEF InstanceInv, AccountsBalance, StatsOK, MetricsOK, TasksOK, RunningTasks, EndedTasks, UncutMetrics
<1>. QED BY <1>3, <1>4 DEF InstanceSound, InstanceInv, InvokedOK

\* One message moves: the counts of open messages move with it.
LEMMA CallMoves ==
  ASSUME InstanceInv, NEW m \in Messages, NEW r, CallOK(m, r, stack), msg' = [msg EXCEPT ![m] = r], stack' = stack
  PROVE  /\ CallsOK'
         /\ Cardinality(OpenCalls) \in Nat /\ Cardinality(OpenCalls') \in Nat
         /\ Cardinality(OpenCalls') + (IF Open(msg[m]) THEN 1 ELSE 0)
            = Cardinality(OpenCalls) + (IF Open(r) THEN 1 ELSE 0)
         /\ \A k : /\ Cardinality(Inside(k)) \in Nat /\ Cardinality(Inside(k)') \in Nat
                   /\ Cardinality(Inside(k)') + Within(msg[m], k)
                      = Cardinality(Inside(k)) + Within(r, k)
<1>1. msg \in [Messages -> Call] /\ r \in Call
  BY DEF InstanceInv, CallsOK, CallOK
<1>2. msg' \in [Messages -> Call] /\ msg'[m] = r /\ \A x \in Messages \ {m} : msg'[x] = msg[x]
  BY <1>1
<1>3. CallsOK'
  BY <1>2 DEF InstanceInv, CallsOK
<1>4. OpenCalls' = {x \in Messages : Open(msg'[x])}
        /\ \A k : Inside(k)' = {x \in Messages : Open(msg'[x]) /\ msg'[x].depth >= k}
  BY DEF OpenCalls, Inside, Open
<1>5. IsFiniteSet(Messages)
  BY SdkAssumption
<1>6. /\ Cardinality(OpenCalls) \in Nat /\ Cardinality(OpenCalls') \in Nat
      /\ Cardinality(OpenCalls') + (IF Open(msg[m]) THEN 1 ELSE 0)
         = Cardinality(OpenCalls) + (IF Open(r) THEN 1 ELSE 0)
  <2>1. OpenCalls \in SUBSET Messages /\ OpenCalls' \in SUBSET Messages
    BY <1>4 DEF OpenCalls
  <2>2. OpenCalls \ {m} = OpenCalls' \ {m} /\ (m \in OpenCalls <=> Open(msg[m])) /\ (m \in OpenCalls' <=> Open(r))
    BY <1>2, <1>4 DEF OpenCalls
  <2>3. /\ Cardinality(OpenCalls) \in Nat /\ Cardinality(OpenCalls') \in Nat
        /\ Cardinality(OpenCalls') + (IF m \in OpenCalls THEN 1 ELSE 0)
           = Cardinality(OpenCalls) + (IF m \in OpenCalls' THEN 1 ELSE 0)
    BY <1>5, <2>1, <2>2, CountChanges
  <2>. QED BY <2>2, <2>3
<1>7. ASSUME NEW k
      PROVE  /\ Cardinality(Inside(k)) \in Nat /\ Cardinality(Inside(k)') \in Nat
             /\ Cardinality(Inside(k)') + Within(msg[m], k)
                = Cardinality(Inside(k)) + Within(r, k)
  <2>. DEFINE A == Inside(k)
              B == {x \in Messages : Open(msg'[x]) /\ msg'[x].depth >= k}
  <2>0. Inside(k)' = B
    BY <1>4
  <2>1. A \in SUBSET Messages /\ B \in SUBSET Messages
    BY DEF Inside
  <2>2. /\ A \ {m} = B \ {m} /\ (m \in A <=> Open(msg[m]) /\ msg[m].depth >= k)
        /\ (m \in B <=> Open(r) /\ r.depth >= k)
    BY <1>2 DEF Inside
  <2>. HIDE DEF A, B
  <2>3. /\ Cardinality(A) \in Nat /\ Cardinality(B) \in Nat
        /\ Cardinality(B) + (IF m \in A THEN 1 ELSE 0) = Cardinality(A) + (IF m \in B THEN 1 ELSE 0)
    BY <1>5, <2>1, <2>2, CountChanges
  <2>. QED BY <2>0, <2>2, <2>3 DEF A, Within
<1>. QED BY <1>3, <1>6, <1>7

\* The entries of a balance move with what it counts: a before, b after.
MetricsMove(old, new, a, b) ==
  new.total + old.successful + old.failed + a = old.total + new.successful + new.failed + b

StatsMove(old, new, a, b) ==
  new.received + old.processed + old.failed + a = old.received + new.processed + new.failed + b

LEMMA StatsBalance ==
  ASSUME NEW old \in RuntimeStats, NEW new \in RuntimeStats, NEW x \in Nat, NEW y \in Nat, NEW a \in Nat, NEW b \in Nat,
         StatsMove(old, new, a, b), old.received = old.processed + old.failed + x, y + a = x + b
  PROVE  new.received = new.processed + new.failed + y
  BY DEF StatsMove, RuntimeStats

LEMMA InsideBalance ==
  ASSUME InstanceInv, NEW m \in Messages, NEW r, CallOK(m, r, stack), msg' = [msg EXCEPT ![m] = r], stack' = stack,
         metrics' \in MetricsType, NEW k \in DOMAIN stack, UncutMetrics(k, stack),
         MetricsMove(metrics, metrics', Within(msg[m], k), Within(r, k))
  PROVE  metrics'.total = metrics'.successful + metrics'.failed + Cardinality(Inside(k)')
<1>. DEFINE c == Within(msg[m], k)
            d == Within(r, k)
<1>1. /\ Cardinality(Inside(k)) \in Nat /\ Cardinality(Inside(k)') \in Nat
      /\ Cardinality(Inside(k)') + c = Cardinality(Inside(k)) + d
  BY CallMoves
<1>2. c \in Nat /\ d \in Nat
  BY DEF Within
<1>3. MetricsMove(metrics, metrics', c, d)
  OBVIOUS
<1>4. metrics.total = metrics.successful + metrics.failed + Cardinality(Inside(k)) /\ metrics \in MetricsType
  BY DEF InstanceInv, MetricsOK
<1>. HIDE DEF c, d
<1>5. PICK x \in Nat : x = Cardinality(Inside(k))
  BY <1>1
<1>6. PICK y \in Nat : y = Cardinality(Inside(k)')
  BY <1>1
<1>7. metrics.total = metrics.successful + metrics.failed + x /\ y + c = x + d /\ metrics \in MetricsType
  BY <1>1, <1>4, <1>5, <1>6
<1>8. metrics'.total = metrics'.successful + metrics'.failed + y
  <2>1. PICK t \in Nat, s \in Nat, f \in Nat : t = metrics.total /\ s = metrics.successful /\ f = metrics.failed
    BY <1>7 DEF MetricsType
  <2>2. PICK t2 \in Nat, s2 \in Nat, f2 \in Nat :
          t2 = metrics'.total /\ s2 = metrics'.successful /\ f2 = metrics'.failed
    BY DEF MetricsType
  <2>3. PICK c1 \in Nat, d1 \in Nat : c1 = c /\ d1 = d
    BY <1>2
  <2>4. t = s + f + x /\ y + c1 = x + d1 /\ t2 + s + f + c1 = t + s2 + f2 + d1
    BY <1>3, <1>7, <2>1, <2>2, <2>3 DEF MetricsMove
  <2>5. t2 = s2 + f2 + y
    BY <2>4
  <2>. QED BY <2>2, <2>5
<1>. QED BY <1>6, <1>8

\* A step of one message keeps the invariant when the counters move with it.
LEMMA MessageKept ==
  ASSUME InstanceInv, NEW m \in Messages, NEW r, CallOK(m, r, stack), msg' = [msg EXCEPT ![m] = r],
         UNCHANGED <<instance, stack, tasks, slots>>, InvokedOK',
         stats' \in RuntimeStats, stats'.tasksCompleted = stats.tasksCompleted, stats'.tasksFailed = stats.tasksFailed,
         StatsMove(stats, stats', IF Open(msg[m]) THEN 1 ELSE 0, IF Open(r) THEN 1 ELSE 0),
         metrics' \in MetricsType,
         \A k \in DOMAIN stack : UncutMetrics(k, stack) =>
           MetricsMove(metrics, metrics', Within(msg[m], k), Within(r, k))
  PROVE  InstanceInv'
<1>. DEFINE a == IF Open(msg[m]) THEN 1 ELSE 0
            b == IF Open(r) THEN 1 ELSE 0
<1>1. CallsOK'
  BY CallMoves
<1>2. /\ Cardinality(OpenCalls) \in Nat /\ Cardinality(OpenCalls') \in Nat
      /\ Cardinality(OpenCalls') + a = Cardinality(OpenCalls) + b
  BY CallMoves
<1>3. a \in Nat /\ b \in Nat
  OBVIOUS
<1>4. stats \in RuntimeStats
  BY DEF InstanceInv, StatsOK
<1>5. stats.received = stats.processed + stats.failed + Cardinality(OpenCalls)
  BY DEF InstanceInv, StatsOK
<1>6. StatsMove(stats, stats', a, b)
  OBVIOUS
<1>. HIDE DEF a, b
<1>7. stats'.received = stats'.processed + stats'.failed + Cardinality(OpenCalls')
  BY <1>2, <1>3, <1>4, <1>5, <1>6, StatsBalance
<1>8. StatsOK'
  BY <1>7 DEF StatsOK
<1>9. ASSUME NEW k \in DOMAIN stack, UncutMetrics(k, stack)
      PROVE  metrics'.total = metrics'.successful + metrics'.failed + Cardinality(Inside(k)')
  <2>1. MetricsMove(metrics, metrics', Within(msg[m], k), Within(r, k))
    BY <1>9
  <2>. QED BY <1>9, <2>1, InsideBalance
<1>10. MetricsOK'
  BY <1>9 DEF MetricsOK
<1>11. TasksOK'
  BY DEF InstanceInv, TasksOK, RunningTasks, EndedTasks
<1>. QED BY <1>1, <1>8, <1>10, <1>11 DEF InstanceInv

LEMMA CallFacts ==
  ASSUME InstanceInv, NEW m \in Messages
  PROVE  /\ CallOK(m, msg[m], stack) /\ msg[m] \in Call /\ msg[m].depth \in Nat /\ msg[m].tries \in Seq(Nat)
         /\ DOMAIN msg[m].tries = 1 .. Len(stack) /\ DOMAIN stack = 1 .. Len(stack) /\ Len(stack) \in Nat
         /\ msg \in [Messages -> Call] /\ stats \in RuntimeStats /\ metrics \in MetricsType
         /\ \A d, e \in DOMAIN stack : stack[d] = "metrics" /\ stack[e] = "metrics" => d = e
<1>1. stack \in Seq(Layers)
  BY SdkAssumption DEF InstanceInv, CallsOK
<1>2. \A d, e \in DOMAIN stack : stack[d] = "metrics" /\ stack[e] = "metrics" => d = e
  BY SdkAssumption DEF InstanceInv, CallsOK
<1>3. CallOK(m, msg[m], stack) /\ msg \in [Messages -> Call] /\ stats \in RuntimeStats /\ metrics \in MetricsType
  BY DEF InstanceInv, CallsOK, StatsOK, MetricsOK
<1>4. msg[m] \in Call /\ msg[m].depth \in Nat /\ msg[m].tries \in Seq(Nat)
  BY <1>3 DEF Call
<1>5. DOMAIN stack = 1 .. Len(stack) /\ Len(stack) \in Nat
  BY <1>1
<1>6. DOMAIN msg[m].tries = 1 .. Len(stack)
  BY <1>3, <1>5 DEF CallOK
<1>. QED BY <1>2, <1>3, <1>4, <1>5, <1>6

LEMMA ProcessKept ==
  ASSUME InstanceInv, NEW m \in Messages, ProcessMessage(m)
  PROVE  InstanceInv'
<1>. DEFINE r == msg'[m]
<1>1. PICK place \in {"refused", "in", "done"} : msg' = [msg EXCEPT ![m].at = place]
      /\ (place = "refused" => stats' = stats)
      /\ (place = "in" => stats' = [stats EXCEPT !.received = @ + 1])
      /\ (place = "done" => stats' = [stats EXCEPT !.received = @ + 1, !.processed = @ + 1])
  BY DEF ProcessMessage
<1>2. msg[m].at = "new" /\ UNCHANGED <<instance, ctl, stack, invoked, tasks, slots, metrics>>
  BY DEF ProcessMessage
<1>3. /\ r \in Call /\ r.at = place /\ r.depth = msg[m].depth /\ r.tries = msg[m].tries
      /\ msg' = [msg EXCEPT ![m] = r]
  BY <1>1, CallFacts DEF Call
<1>4. CallOK(m, r, stack) /\ r.depth = 0 /\ msg[m].depth = 0
  BY <1>2, <1>3, CallFacts DEF CallOK, Open
<1>. HIDE DEF r
<1>5. stats' \in RuntimeStats /\ stats'.tasksCompleted = stats.tasksCompleted /\ stats'.tasksFailed = stats.tasksFailed
      /\ stats'.received = stats.received + (IF place = "refused" THEN 0 ELSE 1)
      /\ stats'.processed = stats.processed + (IF place = "done" THEN 1 ELSE 0) /\ stats'.failed = stats.failed
  <2>1. stats \in RuntimeStats
    BY CallFacts
  <2>2. CASE place = "refused"
    BY <1>1, <2>1, <2>2 DEF RuntimeStats
  <2>3. CASE place = "in"
    <3>1. stats' = [stats EXCEPT !.received = stats.received + 1]
      BY <1>1, <2>3
    <3>. QED BY <2>1, <2>3, <3>1 DEF RuntimeStats
  <2>4. CASE place = "done"
    <3>1. stats' = [stats EXCEPT !.received = stats.received + 1, !.processed = stats.processed + 1]
      BY <1>1, <2>4
    <3>2. stats.received + 1 \in Nat /\ stats.processed + 1 \in Nat
      BY <2>1 DEF RuntimeStats
    <3>3. stats' \in RuntimeStats
      BY <2>1, <3>1, <3>2 DEF RuntimeStats
    <3>4. /\ stats'.received = stats.received + 1 /\ stats'.processed = stats.processed + 1
          /\ stats'.failed = stats.failed
          /\ stats'.tasksCompleted = stats.tasksCompleted /\ stats'.tasksFailed = stats.tasksFailed
      BY <2>1, <3>1 DEF RuntimeStats
    <3>. QED BY <2>4, <3>3, <3>4
  <2>. QED BY <2>2, <2>3, <2>4
<1>6. ~Open(msg[m]) /\ (Open(r) <=> place = "in")
  BY <1>2, <1>3 DEF Open
<1>7. StatsMove(stats, stats', IF Open(msg[m]) THEN 1 ELSE 0, IF Open(r) THEN 1 ELSE 0)
  <2>1. stats.received \in Nat /\ stats.processed \in Nat /\ stats.failed \in Nat
    BY CallFacts DEF RuntimeStats
  <2>. QED BY <1>5, <1>6, <2>1 DEF StatsMove
<1>8. \A k \in DOMAIN stack : ~(r.depth >= k) /\ ~(msg[m].depth >= k)
  BY <1>4, CallFacts
<1>9. InvokedOK'
  BY <1>2 DEF InstanceInv, InvokedOK, DeniedNeverHandled
<1>10. metrics' \in MetricsType /\ metrics' = metrics
  BY <1>2, CallFacts
<1>11. \A k \in DOMAIN stack : UncutMetrics(k, stack) =>
        MetricsMove(metrics, metrics', Within(msg[m], k), Within(r, k))
  BY <1>8, <1>10 DEF MetricsMove, Within
<1>. QED BY <1>2, <1>3, <1>4, <1>5, <1>7, <1>9, <1>10, <1>11, MessageKept

\* The counters stay, the message stays open, and its depth as a metrics
\* layer without a timeout around it sees it.
LEMMA QuietStep ==
  ASSUME InstanceInv, NEW m \in Messages, NEW r, CallOK(m, r, stack), msg' = [msg EXCEPT ![m] = r],
         UNCHANGED <<instance, stack, tasks, slots, stats, metrics>>, InvokedOK', Open(msg[m]), Open(r),
         \A k \in DOMAIN stack : UncutMetrics(k, stack) => (msg[m].depth >= k <=> r.depth >= k)
  PROVE  InstanceInv'
<1>1. stats' = stats /\ metrics' = metrics /\ stats \in RuntimeStats /\ metrics \in MetricsType
  BY CallFacts
<1>2. StatsMove(stats, stats', IF Open(msg[m]) THEN 1 ELSE 0, IF Open(r) THEN 1 ELSE 0)
  BY <1>1 DEF StatsMove
<1>3. \A k \in DOMAIN stack : UncutMetrics(k, stack) =>
        MetricsMove(metrics, metrics', Within(msg[m], k), Within(r, k))
  BY <1>1 DEF MetricsMove, Within
<1>. QED BY <1>1, <1>2, <1>3, MessageKept

\* The counters of the metrics layer move when a message passes that layer.
LEMMA LayerStep ==
  ASSUME InstanceInv, NEW m \in Messages, NEW r, CallOK(m, r, stack), msg' = [msg EXCEPT ![m] = r],
         UNCHANGED <<instance, stack, tasks, slots, stats>>, InvokedOK', Open(msg[m]), Open(r), metrics' \in MetricsType,
         \A k \in DOMAIN stack : UncutMetrics(k, stack) =>
           MetricsMove(metrics, metrics', Within(msg[m], k), Within(r, k))
  PROVE  InstanceInv'
<1>1. stats' = stats /\ stats \in RuntimeStats
  BY CallFacts
<1>2. StatsMove(stats, stats', IF Open(msg[m]) THEN 1 ELSE 0, IF Open(r) THEN 1 ELSE 0)
  BY <1>1 DEF StatsMove
<1>. QED BY <1>1, <1>2, MessageKept

LEMMA EnterKept ==
  ASSUME InstanceInv, NEW m \in Messages, Enter(m)
  PROVE  InstanceInv'
<1>. DEFINE d == msg[m].depth + 1
            r == msg'[m]
<1>1. /\ msg[m].at = "in" /\ d <= Len(stack) /\ d \in DOMAIN stack /\ d \in 1 .. Len(stack)
      /\ UNCHANGED <<instance, stack, invoked, tasks, slots, stats>>
  BY CallFacts DEF Enter
<1>2. metrics' = IF stack[d] = "metrics" THEN [metrics EXCEPT !.total = metrics.total + 1] ELSE metrics
  BY DEF Enter
<1>3. /\ metrics' \in MetricsType /\ metrics'.successful = metrics.successful /\ metrics'.failed = metrics.failed
      /\ metrics'.total = metrics.total + (IF stack[d] = "metrics" THEN 1 ELSE 0) /\ metrics.total \in Nat
      /\ metrics.successful \in Nat /\ metrics.failed \in Nat
  BY <1>2, CallFacts DEF MetricsType
<1>4. InvokedOK'
  BY <1>1 DEF InstanceInv, InvokedOK, DeniedNeverHandled
<1>. HIDE DEF d
<1>5. CASE AuthDenies(m, stack[d])
  <2>1. msg' = [msg EXCEPT ![m].at = "out", ![m].result = "fatal"]
    BY <1>5 DEF Enter, d
  <2>2. /\ r \in Call /\ r.at = "out" /\ r.depth = msg[m].depth /\ r.tries = msg[m].tries
        /\ msg' = [msg EXCEPT ![m] = r]
    BY <2>1, CallFacts DEF Call, MessageResults
  <2>3. CallOK(m, r, stack) /\ Open(r) /\ Open(msg[m])
    BY <1>1, <2>2, CallFacts DEF CallOK, Open
  <2>. HIDE DEF r
  <2>4. stack[d] # "metrics"
    BY <1>5 DEF AuthDenies
  <2>5. UNCHANGED metrics
    BY <1>2, <2>4
  <2>6. \A k \in DOMAIN stack : UncutMetrics(k, stack) => (msg[m].depth >= k <=> r.depth >= k)
    BY <2>2
  <2>. QED BY <1>1, <1>4, <2>2, <2>3, <2>5, <2>6, QuietStep
<1>6. CASE ~AuthDenies(m, stack[d])
  <2>1. msg' = [msg EXCEPT ![m].depth = d, ![m].tries[d] = 0]
    BY <1>6 DEF Enter, d
  <2>2. msg'[m] = [msg[m] EXCEPT !.depth = d, !.tries = [msg[m].tries EXCEPT ![d] = 0]]
    BY <2>1, CallFacts DEF Call
  <2>3. [msg[m].tries EXCEPT ![d] = 0] \in Seq(Nat) /\ DOMAIN [msg[m].tries EXCEPT ![d] = 0] = 1 .. Len(stack)
    BY <1>1, CallFacts, ExceptSeq
  <2>4. /\ r \in Call /\ r.at = "in" /\ r.depth = d /\ r.tries = [msg[m].tries EXCEPT ![d] = 0]
        /\ msg' = [msg EXCEPT ![m] = r]
    <3>. DEFINE q == [msg[m].tries EXCEPT ![d] = 0]
    <3>1. msg[m] \in Call /\ d \in Nat /\ q \in Seq(Nat)
      BY <1>1, <2>3, CallFacts DEF d
    <3>. HIDE DEF q
    <3>2. r = [msg[m] EXCEPT !.depth = d, !.tries = q]
      BY <2>2 DEF q
    <3>3. r \in Call /\ r.at = msg[m].at /\ r.depth = d /\ r.tries = q
      BY <3>1, <3>2 DEF Call
    <3>4. msg' = [msg EXCEPT ![m] = r]
      BY <2>1, CallFacts
    <3>. QED BY <1>1, <3>3, <3>4 DEF q
  <2>5. CallOK(m, r, stack) /\ Open(r) /\ Open(msg[m])
    <3>1. \A e \in 1 .. d : e = d \/ e \in 1 .. msg[m].depth
      BY CallFacts DEF d
    <3>2. \A e \in 1 .. d : stack[e] = "auth" => m \in Authorized
      BY <1>6, <3>1, CallFacts DEF CallOK, AuthDenies
    <3>. QED BY <1>1, <2>3, <2>4, <3>2, CallFacts DEF CallOK, Open
  <2>. HIDE DEF r
  <2>6. ASSUME NEW k \in DOMAIN stack, UncutMetrics(k, stack)
        PROVE  MetricsMove(metrics, metrics', Within(msg[m], k), Within(r, k))
    <3>1. stack[d] = "metrics" <=> d = k
      BY <1>1, <2>6, CallFacts DEF UncutMetrics
    <3>2. k \in Nat /\ msg[m].depth \in Nat /\ r.depth = msg[m].depth + 1 /\ (d = k <=> k = msg[m].depth + 1)
      BY <2>4, CallFacts DEF d
    <3>3. Within(msg[m], k) = IF msg[m].depth >= k THEN 1 ELSE 0
      BY <2>5 DEF Within
    <3>4. Within(r, k) = IF r.depth >= k THEN 1 ELSE 0
      BY <2>5 DEF Within
    <3>5. Within(r, k) = Within(msg[m], k) + (IF d = k THEN 1 ELSE 0) /\ Within(msg[m], k) \in Nat
      BY <3>2, <3>3, <3>4
    <3>6. metrics'.total = metrics.total + (IF d = k THEN 1 ELSE 0)
      BY <1>3, <3>1
    <3>. QED BY <1>3, <3>5, <3>6 DEF MetricsMove
  <2>. QED BY <1>1, <1>3, <1>4, <2>4, <2>5, <2>6, LayerStep
<1>. QED BY <1>5, <1>6

LEMMA HandleKept ==
  ASSUME InstanceInv, NEW m \in Messages, HandleMessage(m)
  PROVE  InstanceInv'
<1>. DEFINE r == msg'[m]
<1>1. /\ msg[m].at = "in" /\ msg[m].depth = Len(stack) /\ UNCHANGED <<instance, stack, tasks, slots, stats, metrics>>
      /\ msg' = [msg EXCEPT ![m].at = "handler"] /\ invoked' = [invoked EXCEPT ![m] = @ + 1]
  BY DEF HandleMessage
<1>2. /\ r \in Call /\ r.at = "handler" /\ r.depth = msg[m].depth /\ r.tries = msg[m].tries
      /\ msg' = [msg EXCEPT ![m] = r]
  BY <1>1, CallFacts DEF Call
<1>3. CallOK(m, r, stack) /\ Open(r) /\ Open(msg[m])
  BY <1>1, <1>2, CallFacts DEF CallOK, Open
<1>. HIDE DEF r
<1>4. (\E d \in DOMAIN stack : stack[d] = "auth") => m \in Authorized
  BY <1>1, CallFacts DEF CallOK
<1>5. InvokedOK'
  BY <1>1, <1>4 DEF InstanceInv, InvokedOK, DeniedNeverHandled
<1>6. \A k \in DOMAIN stack : UncutMetrics(k, stack) => (msg[m].depth >= k <=> r.depth >= k)
  BY <1>2
<1>. QED BY <1>1, <1>2, <1>3, <1>5, <1>6, QuietStep

\* The handler returns, the caller goes away, or a timeout drops what is inside it.
LEMMA CutKept ==
  ASSUME InstanceInv, NEW m \in Messages,
         (\E res \in MessageResults : HandlerReturns(m, res)) \/ MessageDropped(m)
           \/ \E e \in DOMAIN stack : MessageTimeout(m, e)
  PROVE  InstanceInv'
<1>. DEFINE r == msg'[m]
<1>1. Open(msg[m]) /\ UNCHANGED <<instance, stack, invoked, tasks, slots, stats, metrics>>
  BY DEF HandlerReturns, MessageDropped, MessageTimeout, Open
<1>2. InvokedOK'
  BY <1>1 DEF InstanceInv, InvokedOK, DeniedNeverHandled
<1>3. CASE (\E res \in MessageResults : HandlerReturns(m, res)) \/ MessageDropped(m)
  <2>1. /\ r \in Call /\ r.at \in {"out", "dropped"} /\ r.depth = msg[m].depth /\ r.tries = msg[m].tries
        /\ msg' = [msg EXCEPT ![m] = r]
    <3>1. CASE \E res \in MessageResults : HandlerReturns(m, res)
      <4>1. PICK res \in MessageResults : msg' = [msg EXCEPT ![m].at = "out", ![m].result = res]
        BY <3>1 DEF HandlerReturns
      <4>. QED BY <4>1, CallFacts DEF Call
    <3>2. CASE MessageDropped(m)
      <4>1. msg' = [msg EXCEPT ![m].at = "dropped"]
        BY <3>2 DEF MessageDropped
      <4>. QED BY <4>1, CallFacts DEF Call
    <3>. QED BY <1>3, <3>1, <3>2
  <2>2. CallOK(m, r, stack) /\ Open(r)
    BY <2>1, CallFacts DEF CallOK, Open
  <2>. HIDE DEF r
  <2>3. \A k \in DOMAIN stack : UncutMetrics(k, stack) => (msg[m].depth >= k <=> r.depth >= k)
    BY <2>1
  <2>. QED BY <1>1, <1>2, <2>1, <2>2, <2>3, QuietStep
<1>4. ASSUME NEW e \in DOMAIN stack, MessageTimeout(m, e) PROVE InstanceInv'
  <2>0. e \in Nat /\ e <= msg[m].depth /\ stack[e] = "timeout"
        /\ msg' = [msg EXCEPT ![m].at = "out", ![m].depth = e, ![m].result = "retryable"]
    <3>1. e \in Nat
      BY CallFacts
    <3>. QED BY <1>4, <3>1 DEF MessageTimeout
  <2>1. /\ r \in Call /\ r.at = "out" /\ r.depth = e /\ r.tries = msg[m].tries
        /\ msg' = [msg EXCEPT ![m] = r]
    BY <2>0, CallFacts DEF Call, MessageResults
  <2>2. CallOK(m, r, stack) /\ Open(r)
    <3>1. \A x \in 1 .. e : x \in 1 .. msg[m].depth
      BY <2>0, CallFacts
    <3>. QED BY <2>0, <2>1, <3>1, CallFacts DEF CallOK, Open
  <2>. HIDE DEF r
  <2>3. ASSUME NEW k \in DOMAIN stack, UncutMetrics(k, stack)
        PROVE  msg[m].depth >= k <=> r.depth >= k
    <3>1. ~(e <= k)
      BY <2>0, <2>3, CallFacts DEF UncutMetrics
    <3>. QED BY <2>0, <2>1, <3>1, CallFacts
  <2>. QED BY <1>1, <1>2, <2>1, <2>2, <2>3, QuietStep
<1>. QED BY <1>3, <1>4

LEMMA LeaveKept ==
  ASSUME InstanceInv, NEW m \in Messages, Leave(m)
  PROVE  InstanceInv'
<1>. DEFINE d == msg[m].depth
            r == msg'[m]
<1>1. /\ msg[m].at = "out" /\ d > 0 /\ d \in Nat /\ d <= Len(stack) /\ d \in DOMAIN stack
      /\ UNCHANGED <<instance, stack, invoked, tasks, slots, stats>>
  <2>1. d \in Nat /\ d <= Len(stack) /\ DOMAIN stack = 1 .. Len(stack) /\ Len(stack) \in Nat
    BY CallFacts DEF CallOK
  <2>2. msg[m].at = "out" /\ d > 0 /\ UNCHANGED <<instance, stack, invoked, tasks, slots, stats>>
    BY DEF Leave
  <2>. QED BY <2>1, <2>2
<1>2. /\ metrics' \in MetricsType /\ metrics'.total = metrics.total
      /\ metrics'.successful + metrics'.failed
         = metrics.successful + metrics.failed + (IF stack[d] = "metrics" THEN 1 ELSE 0)
      /\ metrics.total \in Nat /\ metrics.successful \in Nat /\ metrics.failed \in Nat
      /\ metrics'.successful \in Nat /\ metrics'.failed \in Nat
  <2>0. metrics \in MetricsType
    BY CallFacts
  <2>1. CASE stack[d] # "metrics"
    <3>1. metrics' = metrics
      BY <2>1 DEF Leave
    <3>. QED BY <2>0, <2>1, <3>1 DEF MetricsType
  <2>2. CASE stack[d] = "metrics" /\ msg[m].result = "ok"
    <3>1. metrics' = [metrics EXCEPT !.successful = metrics.successful + 1]
      BY <2>2 DEF Leave
    <3>. QED BY <2>0, <2>2, <3>1 DEF MetricsType
  <2>3. CASE stack[d] = "metrics" /\ msg[m].result # "ok"
    <3>1. metrics' = [metrics EXCEPT !.failed = metrics.failed + 1]
      BY <2>3 DEF Leave
    <3>. QED BY <2>0, <2>3, <3>1 DEF MetricsType
  <2>. QED BY <2>1, <2>2, <2>3
<1>3. InvokedOK'
  BY <1>1 DEF InstanceInv, InvokedOK, DeniedNeverHandled
<1>4. Open(msg[m])
  BY <1>1 DEF Open
<1>5. CASE stack[d] = "retry" /\ RetryAgain(m)
  <2>1. msg' = [msg EXCEPT ![m].at = "in", ![m].tries[d] = @ + 1]
    BY <1>5 DEF Leave
  <2>. DEFINE q == [msg[m].tries EXCEPT ![d] = msg[m].tries[d] + 1]
  <2>2. q \in Seq(Nat) /\ DOMAIN q = 1 .. Len(stack)
    <3>1. msg[m].tries \in Seq(Nat) /\ d \in 1 .. Len(msg[m].tries) /\ DOMAIN msg[m].tries = 1 .. Len(stack)
      BY <1>1, CallFacts
    <3>2. msg[m].tries[d] + 1 \in Nat
      BY <3>1
    <3>. QED BY <3>1, <3>2, ExceptSeq
  <2>3. r = [msg[m] EXCEPT !.at = "in", !.tries = q]
    BY <2>1, CallFacts
  <2>4. msg' = [msg EXCEPT ![m] = r]
    BY <2>1, CallFacts
  <2>. HIDE DEF q
  <2>5. r \in Call /\ r.at = "in" /\ r.depth = msg[m].depth /\ r.tries = q
    BY <2>2, <2>3, CallFacts DEF Call
  <2>6. CallOK(m, r, stack) /\ Open(r)
    BY <2>2, <2>5, CallFacts DEF CallOK, Open
  <2>. HIDE DEF r
  <2>7. \A k \in DOMAIN stack : UncutMetrics(k, stack) => (msg[m].depth >= k <=> r.depth >= k)
    BY <2>5
  <2>8. UNCHANGED metrics
    BY <1>5 DEF Leave
  <2>. QED BY <1>1, <1>3, <1>4, <2>4, <2>6, <2>7, <2>8, QuietStep
<1>6. CASE ~(stack[d] = "retry" /\ RetryAgain(m))
  <2>1. msg' = [msg EXCEPT ![m].depth = d - 1]
    BY <1>6 DEF Leave
  <2>2. d - 1 \in Nat
    BY <1>1
  <2>3. r = [msg[m] EXCEPT !.depth = d - 1] /\ msg' = [msg EXCEPT ![m] = r]
    BY <2>1, CallFacts
  <2>4. r \in Call /\ r.at = "out" /\ r.depth = d - 1 /\ r.tries = msg[m].tries
    BY <1>1, <2>2, <2>3, CallFacts DEF Call
  <2>5. CallOK(m, r, stack) /\ Open(r)
    <3>1. \A x \in 1 .. (d - 1) : x \in 1 .. d
      BY <1>1
    <3>. QED BY <1>1, <2>4, <3>1, CallFacts DEF CallOK, Open
  <2>. HIDE DEF r
  <2>6. ASSUME NEW k \in DOMAIN stack, UncutMetrics(k, stack)
        PROVE  MetricsMove(metrics, metrics', Within(msg[m], k), Within(r, k))
    <3>1. stack[d] = "metrics" <=> d = k
      BY <1>1, <2>6, CallFacts DEF UncutMetrics
    <3>2. k \in Nat
      BY CallFacts
    <3>3. Within(msg[m], k) = IF d >= k THEN 1 ELSE 0
      BY <1>4 DEF Within
    <3>4. Within(r, k) = IF d - 1 >= k THEN 1 ELSE 0
      BY <2>4, <2>5 DEF Within
    <3>5. Within(msg[m], k) = Within(r, k) + (IF d = k THEN 1 ELSE 0) /\ Within(r, k) \in Nat
      BY <1>1, <3>2, <3>3, <3>4
    <3>6. metrics'.successful + metrics'.failed = metrics.successful + metrics.failed + (IF d = k THEN 1 ELSE 0)
      BY <1>2, <3>1
    <3>. QED BY <1>2, <3>5, <3>6 DEF MetricsMove
  <2>. QED BY <1>1, <1>2, <1>3, <1>4, <2>3, <2>5, <2>6, LayerStep
<1>. QED BY <1>5, <1>6

LEMMA ReplyKept ==
  ASSUME InstanceInv, NEW m \in Messages, Reply(m)
  PROVE  InstanceInv'
<1>. DEFINE r == msg'[m]
<1>1. /\ msg[m].at = "out" /\ msg[m].depth = 0 /\ msg' = [msg EXCEPT ![m].at = "done"]
      /\ UNCHANGED <<instance, stack, invoked, tasks, slots, metrics>>
  BY DEF Reply
<1>2. /\ r \in Call /\ r.at = "done" /\ r.depth = 0 /\ r.tries = msg[m].tries /\ msg' = [msg EXCEPT ![m] = r]
  BY <1>1, CallFacts DEF Call
<1>3. CallOK(m, r, stack) /\ ~Open(r) /\ Open(msg[m])
  BY <1>1, <1>2, CallFacts DEF CallOK, Open
<1>. HIDE DEF r
<1>4. InvokedOK'
  BY <1>1 DEF InstanceInv, InvokedOK, DeniedNeverHandled
<1>5. stats' \in RuntimeStats /\ stats'.tasksCompleted = stats.tasksCompleted /\ stats'.tasksFailed = stats.tasksFailed
      /\ stats'.received = stats.received /\ stats'.processed + stats'.failed = stats.processed + stats.failed + 1
      /\ stats.received \in Nat /\ stats.processed \in Nat /\ stats.failed \in Nat
      /\ stats'.processed \in Nat /\ stats'.failed \in Nat
  <2>0. stats \in RuntimeStats
    BY CallFacts
  <2>1. CASE msg[m].result = "ok"
    <3>1. stats' = [stats EXCEPT !.processed = stats.processed + 1]
      BY <2>1 DEF Reply
    <3>. QED BY <2>0, <3>1 DEF RuntimeStats
  <2>2. CASE msg[m].result # "ok"
    <3>1. stats' = [stats EXCEPT !.failed = stats.failed + 1]
      BY <2>2 DEF Reply
    <3>. QED BY <2>0, <3>1 DEF RuntimeStats
  <2>. QED BY <2>1, <2>2
<1>6. StatsMove(stats, stats', IF Open(msg[m]) THEN 1 ELSE 0, IF Open(r) THEN 1 ELSE 0)
  BY <1>3, <1>5 DEF StatsMove
<1>7. metrics' = metrics /\ metrics \in MetricsType
  BY <1>1, CallFacts
<1>8. \A k \in DOMAIN stack : Within(msg[m], k) = 0 /\ Within(r, k) = 0
  BY <1>1, <1>2, CallFacts DEF Within
<1>9. \A k \in DOMAIN stack : UncutMetrics(k, stack) => MetricsMove(metrics, metrics', Within(msg[m], k), Within(r, k))
  BY <1>7, <1>8 DEF MetricsMove
<1>. QED BY <1>1, <1>2, <1>3, <1>4, <1>5, <1>6, <1>7, <1>9, MessageKept

Runs(p) == IF p = "running" THEN 1 ELSE 0
Ends(p) == IF p \in {"completed", "failed"} THEN 1 ELSE 0

\* One task moves: the counts of running and ended tasks move with it.
LEMMA TaskMoves ==
  ASSUME InstanceInv, NEW t \in SdkTasks, NEW p \in TaskPhases, tasks' = [tasks EXCEPT ![t] = p]
  PROVE  /\ tasks' \in [SdkTasks -> TaskPhases]
         /\ Cardinality(RunningTasks) \in Nat /\ Cardinality(RunningTasks') \in Nat
         /\ Cardinality(RunningTasks') + Runs(tasks[t]) = Cardinality(RunningTasks) + Runs(p)
         /\ Cardinality(EndedTasks) \in Nat /\ Cardinality(EndedTasks') \in Nat
         /\ Cardinality(EndedTasks') + Ends(tasks[t]) = Cardinality(EndedTasks) + Ends(p)
<1>1. tasks \in [SdkTasks -> TaskPhases] /\ IsFiniteSet(SdkTasks)
  BY SdkAssumption DEF InstanceInv, TasksOK
<1>2. tasks' \in [SdkTasks -> TaskPhases] /\ tasks'[t] = p /\ \A x \in SdkTasks \ {t} : tasks'[x] = tasks[x]
  BY <1>1
<1>3. /\ RunningTasks \in SUBSET SdkTasks /\ RunningTasks' \in SUBSET SdkTasks
      /\ EndedTasks \in SUBSET SdkTasks /\ EndedTasks' \in SUBSET SdkTasks
  BY DEF RunningTasks, EndedTasks
<1>4. /\ RunningTasks \ {t} = RunningTasks' \ {t}
      /\ (t \in RunningTasks <=> tasks[t] = "running") /\ (t \in RunningTasks' <=> p = "running")
  BY <1>2 DEF RunningTasks
<1>5. /\ EndedTasks \ {t} = EndedTasks' \ {t}
      /\ (t \in EndedTasks <=> tasks[t] \in {"completed", "failed"})
          /\ (t \in EndedTasks' <=> p \in {"completed", "failed"})
  BY <1>2 DEF EndedTasks
<1>6. /\ Cardinality(RunningTasks) \in Nat /\ Cardinality(RunningTasks') \in Nat
      /\ Cardinality(RunningTasks') + (IF t \in RunningTasks THEN 1 ELSE 0)
         = Cardinality(RunningTasks) + (IF t \in RunningTasks' THEN 1 ELSE 0)
  BY <1>1, <1>3, <1>4, CountChanges
<1>7. /\ Cardinality(EndedTasks) \in Nat /\ Cardinality(EndedTasks') \in Nat
      /\ Cardinality(EndedTasks') + (IF t \in EndedTasks THEN 1 ELSE 0)
         = Cardinality(EndedTasks) + (IF t \in EndedTasks' THEN 1 ELSE 0)
  BY <1>1, <1>3, <1>5, CountChanges
<1>. QED BY <1>2, <1>4, <1>5, <1>6, <1>7 DEF Runs, Ends

\* A step of the tasks keeps the invariant when slots and counters move with it.
LEMMA TaskKept ==
  ASSUME InstanceInv, TasksOK', UNCHANGED <<instance, stack, msg, invoked, metrics>>, stats' \in RuntimeStats,
         stats'.received = stats.received, stats'.processed = stats.processed, stats'.failed = stats.failed
  PROVE  InstanceInv'
<1>1. CallsOK' /\ InvokedOK' /\ MetricsOK'
  BY DEF InstanceInv, CallsOK, InvokedOK, DeniedNeverHandled, MetricsOK, Inside
<1>2. OpenCalls' = OpenCalls
  BY DEF OpenCalls
<1>3. StatsOK'
  BY <1>2 DEF InstanceInv, StatsOK
<1>. QED BY <1>1, <1>3 DEF InstanceInv

LEMMA TaskStepKept ==
  ASSUME InstanceInv, NEW t \in SdkTasks,
         ProcessTask(t) \/ TaskDropped(t) \/ \E success \in BOOLEAN : TaskReturns(t, success)
  PROVE  InstanceInv'
<1>0. /\ tasks \in [SdkTasks -> TaskPhases] /\ slots \in 0 .. TaskSlots /\ TaskSlots \in Nat
      /\ slots + Cardinality(RunningTasks) = TaskSlots
      /\ stats.tasksCompleted + stats.tasksFailed = Cardinality(EndedTasks)
      /\ stats \in RuntimeStats /\ stats.tasksCompleted \in Nat /\ stats.tasksFailed \in Nat
  BY SdkAssumption DEF InstanceInv, TasksOK, StatsOK, RuntimeStats
<1>00. UNCHANGED <<instance, stack, msg, invoked, metrics>>
  BY DEF ProcessTask, TaskDropped, TaskReturns
<1>000. /\ Runs("new") = 0 /\ Runs("refused") = 0 /\ Runs("running") = 1 /\ Runs("failed") = 0 /\ Runs("dropped") = 0
        /\ Ends("new") = 0 /\ Ends("refused") = 0 /\ Ends("running") = 0 /\ Ends("failed") = 1 /\ Ends("dropped") = 0
        /\ Runs("completed") = 0 /\ Ends("completed") = 1
  BY DEF Runs, Ends
<1>1. CASE tasks[t] = "new" /\ tasks' = [tasks EXCEPT ![t] = "refused"] /\ UNCHANGED <<slots, stats>>
  <2>0. "refused" \in TaskPhases
    BY DEF TaskPhases
  <2>1. /\ tasks' \in [SdkTasks -> TaskPhases] /\ Cardinality(RunningTasks') = Cardinality(RunningTasks)
        /\ Cardinality(EndedTasks') = Cardinality(EndedTasks)
    <3>1. /\ tasks' \in [SdkTasks -> TaskPhases]
          /\ Cardinality(RunningTasks) \in Nat /\ Cardinality(RunningTasks') \in Nat
          /\ Cardinality(RunningTasks') + Runs(tasks[t]) = Cardinality(RunningTasks) + Runs("refused")
          /\ Cardinality(EndedTasks) \in Nat /\ Cardinality(EndedTasks') \in Nat
          /\ Cardinality(EndedTasks') + Ends(tasks[t]) = Cardinality(EndedTasks) + Ends("refused")
      BY <1>1, <2>0, TaskMoves
    <3>. QED BY <1>000, <1>1, <2>0, <3>1
  <2>2. TasksOK'
    BY <1>0, <1>1, <2>1 DEF TasksOK
  <2>. QED BY <1>0, <1>00, <1>1, <2>2, TaskKept
<1>2. CASE tasks[t] = "new" /\ slots # 0 /\ tasks' = [tasks EXCEPT ![t] = "running"] /\ slots' = slots - 1
             /\ UNCHANGED stats
  <2>0. "running" \in TaskPhases
    BY DEF TaskPhases
  <2>1. /\ tasks' \in [SdkTasks -> TaskPhases] /\ Cardinality(RunningTasks') = Cardinality(RunningTasks) + 1
        /\ Cardinality(EndedTasks') = Cardinality(EndedTasks) /\ Cardinality(RunningTasks) \in Nat
    <3>1. /\ tasks' \in [SdkTasks -> TaskPhases]
          /\ Cardinality(RunningTasks) \in Nat /\ Cardinality(RunningTasks') \in Nat
          /\ Cardinality(RunningTasks') + Runs(tasks[t]) = Cardinality(RunningTasks) + Runs("running")
          /\ Cardinality(EndedTasks) \in Nat /\ Cardinality(EndedTasks') \in Nat
          /\ Cardinality(EndedTasks') + Ends(tasks[t]) = Cardinality(EndedTasks) + Ends("running")
      BY <1>2, <2>0, TaskMoves
    <3>. QED BY <1>000, <1>2, <2>0, <3>1
  <2>2. slots' \in 0 .. TaskSlots /\ slots' + Cardinality(RunningTasks') = TaskSlots
    BY <1>0, <1>2, <2>1
  <2>3. TasksOK'
    BY <1>0, <1>2, <2>1, <2>2 DEF TasksOK
  <2>. QED BY <1>0, <1>00, <1>2, <2>3, TaskKept
<1>3. CASE tasks[t] = "new" /\ tasks' = [tasks EXCEPT ![t] = "failed"] /\ slots' = slots
           /\ stats' = [stats EXCEPT !.tasksFailed = @ + 1]
  <2>0. "failed" \in TaskPhases
    BY DEF TaskPhases
  <2>1. /\ tasks' \in [SdkTasks -> TaskPhases] /\ Cardinality(RunningTasks') = Cardinality(RunningTasks)
        /\ Cardinality(EndedTasks') = Cardinality(EndedTasks) + 1 /\ Cardinality(EndedTasks) \in Nat
    <3>1. /\ tasks' \in [SdkTasks -> TaskPhases]
          /\ Cardinality(RunningTasks) \in Nat /\ Cardinality(RunningTasks') \in Nat
          /\ Cardinality(RunningTasks') + Runs(tasks[t]) = Cardinality(RunningTasks) + Runs("failed")
          /\ Cardinality(EndedTasks) \in Nat /\ Cardinality(EndedTasks') \in Nat
          /\ Cardinality(EndedTasks') + Ends(tasks[t]) = Cardinality(EndedTasks) + Ends("failed")
      BY <1>3, <2>0, TaskMoves
    <3>. QED BY <1>000, <1>3, <2>0, <3>1
  <2>2. /\ stats' \in RuntimeStats /\ stats'.tasksFailed = stats.tasksFailed + 1
        /\ stats'.tasksCompleted = stats.tasksCompleted
        /\ stats'.received = stats.received /\ stats'.processed = stats.processed /\ stats'.failed = stats.failed
    BY <1>0, <1>3 DEF RuntimeStats
  <2>3. TasksOK'
    BY <1>0, <1>3, <2>1, <2>2 DEF TasksOK
  <2>. QED BY <1>00, <2>2, <2>3, TaskKept
<1>4. CASE TaskDropped(t)
  <2>0. "dropped" \in TaskPhases /\ tasks[t] = "running" /\ tasks' = [tasks EXCEPT ![t] = "dropped"]
        /\ slots' = slots + 1 /\ stats' = stats
    BY <1>4 DEF TaskPhases, TaskDropped
  <2>1. /\ tasks' \in [SdkTasks -> TaskPhases] /\ Cardinality(RunningTasks') + 1 = Cardinality(RunningTasks)
        /\ Cardinality(EndedTasks') = Cardinality(EndedTasks) /\ Cardinality(RunningTasks') \in Nat
    <3>1. /\ tasks' \in [SdkTasks -> TaskPhases]
          /\ Cardinality(RunningTasks) \in Nat /\ Cardinality(RunningTasks') \in Nat
          /\ Cardinality(RunningTasks') + Runs(tasks[t]) = Cardinality(RunningTasks) + Runs("dropped")
          /\ Cardinality(EndedTasks) \in Nat /\ Cardinality(EndedTasks') \in Nat
          /\ Cardinality(EndedTasks') + Ends(tasks[t]) = Cardinality(EndedTasks) + Ends("dropped")
      BY <2>0, TaskMoves
    <3>. QED BY <1>000, <2>0, <3>1
  <2>2. slots' \in 0 .. TaskSlots /\ slots' + Cardinality(RunningTasks') = TaskSlots
    BY <1>0, <2>0, <2>1
  <2>3. TasksOK'
    BY <1>0, <2>0, <2>1, <2>2 DEF TasksOK
  <2>. QED BY <1>0, <1>00, <2>0, <2>3, TaskKept
<1>5. ASSUME NEW success \in BOOLEAN, TaskReturns(t, success) PROVE InstanceInv'
  <2>. DEFINE p == IF success THEN "completed" ELSE "failed"
  <2>0. /\ p \in TaskPhases /\ Runs(p) = 0 /\ Ends(p) = 1 /\ tasks[t] = "running"
        /\ tasks' = [tasks EXCEPT ![t] = p] /\ slots' = slots + 1
    BY <1>000, <1>5 DEF TaskPhases, TaskReturns
  <2>. HIDE DEF p
  <2>1. /\ tasks' \in [SdkTasks -> TaskPhases] /\ Cardinality(RunningTasks') + 1 = Cardinality(RunningTasks)
        /\ Cardinality(EndedTasks') = Cardinality(EndedTasks) + 1
        /\ Cardinality(RunningTasks') \in Nat /\ Cardinality(EndedTasks) \in Nat
    <3>1. /\ tasks' \in [SdkTasks -> TaskPhases]
          /\ Cardinality(RunningTasks) \in Nat /\ Cardinality(RunningTasks') \in Nat
          /\ Cardinality(RunningTasks') + Runs(tasks[t]) = Cardinality(RunningTasks) + Runs(p)
          /\ Cardinality(EndedTasks) \in Nat /\ Cardinality(EndedTasks') \in Nat
          /\ Cardinality(EndedTasks') + Ends(tasks[t]) = Cardinality(EndedTasks) + Ends(p)
      BY <2>0, TaskMoves
    <3>. QED BY <1>000, <2>0, <3>1
  <2>2. slots' \in 0 .. TaskSlots /\ slots' + Cardinality(RunningTasks') = TaskSlots
    BY <1>0, <2>0, <2>1
  <2>3. /\ stats' \in RuntimeStats
        /\ stats'.tasksCompleted + stats'.tasksFailed = stats.tasksCompleted + stats.tasksFailed + 1
        /\ stats'.received = stats.received /\ stats'.processed = stats.processed /\ stats'.failed = stats.failed
    <3>1. CASE success
      <4>1. stats' = [stats EXCEPT !.tasksCompleted = stats.tasksCompleted + 1]
        BY <1>5, <3>1 DEF TaskReturns
      <4>. QED BY <1>0, <4>1 DEF RuntimeStats
    <3>2. CASE ~success
      <4>1. stats' = [stats EXCEPT !.tasksFailed = stats.tasksFailed + 1]
        BY <1>5, <3>2 DEF TaskReturns
      <4>. QED BY <1>0, <4>1 DEF RuntimeStats
    <3>. QED BY <3>1, <3>2
  <2>4. TasksOK'
    BY <1>0, <2>1, <2>2, <2>3 DEF TasksOK
  <2>. QED BY <1>00, <2>3, <2>4, TaskKept
<1>6. CASE ProcessTask(t)
  BY <1>1, <1>2, <1>3, <1>6 DEF ProcessTask
<1>. QED BY <1>4, <1>5, <1>6

LEMMA ControlKept ==
  ASSUME InstanceInv, ControlNext
  PROVE  InstanceInv'
<1>1. UNCHANGED <<stack, msg, invoked, tasks, slots, metrics>>
  BY DEF ControlNext, StartAgent, StopAgent, RestartAgent, Pause, Resume, Control, SetState, RestartGoesOn
<1>2. instance' \in InstanceState
  BY DEF ControlNext, StartAgent, StopAgent, RestartAgent, Pause, Resume, Control, SetState, RestartGoesOn, InstanceInv
<1>3. /\ stats' \in RuntimeStats
      /\ stats'.received = stats.received /\ stats'.processed = stats.processed /\ stats'.failed = stats.failed
      /\ stats'.tasksCompleted = stats.tasksCompleted /\ stats'.tasksFailed = stats.tasksFailed
  <2>0. stats \in RuntimeStats
    BY DEF InstanceInv, StatsOK
  <2>1. stats' = stats \/ stats' = [stats EXCEPT !.restarts = @ + 1]
    BY DEF ControlNext, StartAgent, StopAgent, RestartAgent, Pause, Resume, Control, SetState, RestartGoesOn
  <2>2. CASE stats' = stats
    BY <2>0, <2>2
  <2>3. CASE stats' = [stats EXCEPT !.restarts = @ + 1]
    BY <2>0, <2>3 DEF RuntimeStats
  <2>. QED BY <2>1, <2>2, <2>3
<1>4. CallsOK' /\ InvokedOK' /\ MetricsOK'
  BY <1>1 DEF InstanceInv, CallsOK, InvokedOK, DeniedNeverHandled, MetricsOK, Inside
<1>5. OpenCalls' = OpenCalls
  BY <1>1 DEF OpenCalls
<1>6. StatsOK' /\ TasksOK'
  BY <1>1, <1>3, <1>5 DEF InstanceInv, StatsOK, TasksOK, RunningTasks, EndedTasks
<1>. QED BY <1>2, <1>4, <1>6 DEF InstanceInv

LEMMA InstanceInitial == InstanceInit => InstanceInv
<1>. SUFFICES ASSUME InstanceInit PROVE InstanceInv
  OBVIOUS
<1>1. stack \in Stacks /\ stack \in Seq(Layers) /\ DOMAIN stack = 1 .. Len(stack) /\ Len(stack) \in Nat
  BY SdkAssumption DEF InstanceInit
<1>. DEFINE z == [l \in DOMAIN stack |-> 0]
            new == [at |-> "new", depth |-> 0, tries |-> z, result |-> "ok"]
<1>2. z \in Seq(Nat) /\ DOMAIN z = DOMAIN stack
  BY <1>1, SeqDef
<1>. HIDE DEF z
<1>3. new \in Call /\ new.depth = 0 /\ new.at = "new" /\ new.tries = z
  BY <1>2 DEF Call, MessageResults
<1>. HIDE DEF new
<1>4. msg = [m \in Messages |-> new]
  BY DEF InstanceInit, new, z
<1>5. CallsOK
  BY <1>1, <1>2, <1>3, <1>4 DEF CallsOK, CallOK, Open
<1>6. InvokedOK
  BY DEF InstanceInit, InvokedOK, DeniedNeverHandled
<1>7. OpenCalls = {} /\ \A k : Inside(k) = {}
  BY <1>3, <1>4 DEF OpenCalls, Inside, Open
<1>8. Cardinality({}) = 0
  BY FS_EmptySet
<1>9. StatsOK
  BY <1>7, <1>8 DEF InstanceInit, StatsOK, RuntimeStats
<1>10. MetricsOK
  <2>1. metrics \in MetricsType /\ metrics.total = 0 /\ metrics.successful = 0 /\ metrics.failed = 0
    BY DEF InstanceInit, MetricsType
  <2>2. \A k : Cardinality(Inside(k)) = 0
    BY <1>7, <1>8
  <2>. QED BY <2>1, <2>2 DEF MetricsOK
<1>11. RunningTasks = {} /\ EndedTasks = {}
  BY DEF InstanceInit, RunningTasks, EndedTasks
<1>12. TasksOK
  BY <1>8, <1>11, SdkAssumption DEF InstanceInit, TasksOK, TaskPhases
<1>. QED BY <1>5, <1>6, <1>9, <1>10, <1>12 DEF InstanceInit, InstanceInv, InstanceState

(***************************************************************************)
(* For every stack of middleware, any number of messages, tasks, slots and *)
(* retries, and however calls are retried, timed out, refused or dropped   *)
(* while others start and stop the agent: no slot leaks, the counters of   *)
(* the runtime and of an uncut metrics layer balance, and a message the    *)
(* auth layer denies reaches no handler.                                   *)
(***************************************************************************)
THEOREM InstancesStaySound == InstanceSpec => []InstanceSound
<1>1. InstanceInv /\ [InstanceNext]_instanceVars => InstanceInv'
  <2>. SUFFICES ASSUME InstanceInv, [InstanceNext]_instanceVars PROVE InstanceInv'
    OBVIOUS
  <2>1. CASE ControlNext
    BY <2>1, ControlKept
  <2>2. CASE MessageNext
    BY <2>2, ProcessKept, EnterKept, HandleKept, CutKept, LeaveKept, ReplyKept DEF MessageNext
  <2>3. CASE TaskNext
    BY <2>3, TaskStepKept DEF TaskNext
  <2>4. CASE UNCHANGED instanceVars
    BY <2>4 DEF instanceVars, InstanceInv, CallsOK, InvokedOK, DeniedNeverHandled, StatsOK, MetricsOK, TasksOK,
       OpenCalls, Inside, RunningTasks, EndedTasks
  <2>. QED BY <2>1, <2>2, <2>3, <2>4 DEF InstanceNext
<1>. QED BY <1>1, InstanceInitial, InvGivesSound, PTL DEF InstanceSpec

-----------------------------------------------------------------------------
(***************************************************************************)
(* Sprints. The phases whose waves are laid out depend on such phases      *)
(* only; those of the level under way depend on phases before it.          *)
(***************************************************************************)
SprintWave == [phase : PlanPhases, tasks : SUBSET Nat]

Laid == placed \ level

DepsInv ==
  /\ planStage \in {"layout", "planned"} =>
       \A p \in PlanPhases : p \notin phaseDeps[p] /\ phaseDeps[p] \subseteq PlanPhases
  /\ \A p \in placed : phaseDeps[p] \subseteq Laid
  /\ planStage = "admit" => placed = {}
  /\ planStage = "planned" => placed = PlanPhases /\ level = {}

\* A rank of the phases placed so far.
RanksOf(ps) ==
  {rank \in [ps -> 1..Cardinality(ps)] :
     \A p \in ps : \A d \in phaseDeps[p] : d \in ps /\ rank[d] < rank[p]}

RankInv == RanksOf(placed) # {} /\ (planStage = "refused" => ~Orderable)

TaskOnce(ws, p, t) ==
  \E i \in DOMAIN ws :
    /\ ws[i].phase = p /\ t \in ws[i].tasks
    /\ \A j \in DOMAIN ws : ws[j].phase = p /\ t \in ws[j].tasks => j = i

WaveSized(w) == IsFiniteSet(w.tasks) /\ Cardinality(w.tasks) \in 1..MaxTasksPerWave

WavesInv ==
  /\ sprintWaves \in Seq(SprintWave)
  /\ \A i \in DOMAIN sprintWaves : sprintWaves[i].phase \in Laid /\ WaveSized(sprintWaves[i])
  /\ \A p \in Laid : \A t \in 1..PhaseTasks[p] : TaskOnce(sprintWaves, p, t)
  /\ \A i, j \in DOMAIN sprintWaves : sprintWaves[j].phase \in phaseDeps[sprintWaves[i].phase] => j < i

\* Every chunk is a wave of its own that fits, and each task is in one.
LEMMA ChunksCover ==
  ASSUME NEW p \in PlanPhases
  PROVE  /\ Chunks(p) \in Seq(SprintWave)
         /\ \A i \in DOMAIN Chunks(p) : Chunks(p)[i].phase = p /\ WaveSized(Chunks(p)[i])
         /\ \A t \in 1..PhaseTasks[p] : TaskOnce(Chunks(p), p, t)
<1>. DEFINE n == PhaseTasks[p]
            m == MaxTasksPerWave
            N == (n + m - 1) \div m
            chunk(i) == {t \in 1..n : (t - 1) \div m = i - 1}
<1>1. n \in Nat /\ m \in Nat \ {0} /\ n + m - 1 \in Nat
  BY SprintAssumption
<1>2. \A a \in Nat : (a \div m) \in Nat /\ (a \div m) * m <= a /\ a < (a \div m) * m + m
  BY <1>1
<1>3. N \in Nat /\ N * m <= n + m - 1 /\ n + m - 1 < N * m + m
  BY <1>1, <1>2
<1>4. Chunks(p) = [i \in 1..N |-> [phase |-> p, tasks |-> chunk(i)]]
  BY DEF Chunks
<1>. HIDE DEF n, m, N
<1>5. /\ DOMAIN Chunks(p) = 1..N
      /\ \A i \in 1..N : Chunks(p)[i] \in SprintWave /\ Chunks(p)[i].phase = p /\ Chunks(p)[i].tasks = chunk(i)
  <2>1. \A i \in 1..N : chunk(i) \subseteq Nat
    BY <1>1
  <2>. HIDE DEF chunk
  <2>. QED BY <1>4, <2>1 DEF SprintWave
<1>6. Chunks(p) \in Seq(SprintWave)
  <2>. DEFINE c == Chunks(p)
  <2>1. c \in [1..N -> SprintWave]
    <3>. HIDE DEF chunk
    <3>. QED BY <1>4, <1>5
  <2>. HIDE DEF c
  <2>2. c \in Seq(SprintWave)
    BY <1>3, <2>1
  <2>. QED BY <2>2 DEF c
<1>7. ASSUME NEW i \in 1..N
      PROVE  IsFiniteSet(chunk(i)) /\ Cardinality(chunk(i)) \in 1..m
  <2>. DEFINE k == (i - 1) * m
  <2>1. i \in Nat /\ i - 1 \in Nat /\ k \in Nat
    BY <1>1, <1>3
  <2>2. k + m <= N * m
    <3>1. N = (i - 1) + 1 + (N - i) /\ N - i \in Nat
      BY <1>3, <2>1
    <3>2. N * m = k + m + (N - i) * m /\ (N - i) * m \in Nat
      BY <1>1, <2>1, <3>1
    <3>. QED BY <1>1, <2>1, <3>2
  <2>3. k + 1 \in 1..n
    BY <1>1, <1>3, <2>1, <2>2
  <2>4. \A t \in 1..n : (t - 1) \div m = i - 1 <=> k <= t - 1 /\ t - 1 < k + m
    <3>1. ASSUME NEW t \in 1..n PROVE (t - 1) \div m = i - 1 <=> k <= t - 1 /\ t - 1 < k + m
      <4>1. t - 1 \in Nat
        BY <1>1
      <4>2. (t - 1) \div m = i - 1 => k <= t - 1 /\ t - 1 < k + m
        BY <1>2, <4>1
      <4>3. k <= t - 1 /\ t - 1 < k + m => (t - 1) \div m = i - 1
        BY <1>1, <2>1, <4>1
      <4>. QED BY <4>2, <4>3
    <3>. QED BY <3>1
  <2>. HIDE DEF k
  <2>5. k + 1 \in chunk(i)
    BY <1>1, <2>1, <2>3, <2>4
  <2>6. chunk(i) \subseteq (k + 1)..(k + m)
    BY <1>1, <2>1, <2>4
  <2>. HIDE DEF chunk
  <2>7. IsFiniteSet((k + 1)..(k + m)) /\ Cardinality((k + 1)..(k + m)) = m
    BY <1>1, <2>1, FS_Interval
  <2>8. IsFiniteSet(chunk(i)) /\ Cardinality(chunk(i)) <= m /\ Cardinality(chunk(i)) \in Nat
    BY <2>6, <2>7, FS_Subset, FS_CardinalityType
  <2>9. Cardinality(chunk(i)) # 0
    BY <2>5, <2>8, FS_EmptySet
  <2>. QED BY <1>1, <2>8, <2>9
<1>8. ASSUME NEW t \in 1..n PROVE TaskOnce(Chunks(p), p, t)
  <2>. DEFINE q == (t - 1) \div m
  <2>1. t - 1 \in Nat /\ q \in Nat /\ q * m <= t - 1
    BY <1>1, <1>2
  <2>2. q + 1 \in 1..N
    <3>1. q * m + m <= n + m - 1
      BY <1>1, <2>1
    <3>2. q < N
      <4>1. SUFFICES ASSUME q >= N PROVE FALSE
        BY <1>3, <2>1
      <4>2. q * m >= N * m
        <5>1. q = N + (q - N) /\ q - N \in Nat
          BY <1>3, <2>1, <4>1
        <5>2. q * m = N * m + (q - N) * m /\ (q - N) * m \in Nat
          BY <1>1, <1>3, <5>1
        <5>. QED BY <1>1, <1>3, <5>2
      <4>. QED BY <1>1, <1>3, <2>1, <3>1, <4>2
    <3>. QED BY <1>3, <2>1, <3>2
  <2>3. t \in chunk(q + 1) /\ \A j \in 1..N : t \in chunk(j) => j = q + 1
    BY <1>3, <2>1
  <2>. HIDE DEF chunk, q
  <2>. QED BY <1>5, <2>2, <2>3 DEF TaskOnce
<1>. QED BY <1>5, <1>6, <1>7, <1>8 DEF WaveSized, n, m

LEMMA SprintInvInit == SprintInit => DepsInv /\ RankInv /\ WavesInv
<1>1. SUFFICES ASSUME SprintInit PROVE DepsInv /\ RankInv /\ WavesInv
  OBVIOUS
<1>2. DepsInv
  BY <1>1 DEF SprintInit, DepsInv
<1>3. RankInv
  <2>. DEFINE r == [p \in {} |-> p]
  <2>1. r \in [{} -> 1..Cardinality({})]
    OBVIOUS
  <2>. HIDE DEF r
  <2>2. r \in RanksOf({})
    BY <2>1, Zenon DEF RanksOf
  <2>. QED BY <1>1, <2>2 DEF SprintInit, RankInv
<1>4. WavesInv
  BY <1>1 DEF SprintInit, WavesInv, Laid
<1>. QED BY <1>2, <1>3, <1>4

\* Phases after those ranked so far, and depending on them only, rank next.
LEMMA RankExtends ==
  ASSUME NEW ps \in SUBSET PlanPhases, NEW more \in SUBSET PlanPhases, ps \cap more = {}, more # {},
         \A p \in more : phaseDeps[p] \subseteq ps, RanksOf(ps) # {}
  PROVE  RanksOf(ps \cup more) # {}
<1>. DEFINE all == ps \cup more
            c == Cardinality(ps)
<1>1. PICK rank \in RanksOf(ps) : TRUE
  OBVIOUS
<1>2. IsFiniteSet(ps) /\ IsFiniteSet(all) /\ c \in Nat /\ Cardinality(all) \in Nat
  BY SprintAssumption, FS_Subset, FS_CardinalityType
<1>3. c + 1 <= Cardinality(all)
  <2>1. c <= Cardinality(all) /\ (c = Cardinality(all) => ps = all)
    BY <1>2, FS_Subset
  <2>2. ps # all
    OBVIOUS
  <2>. QED BY <1>2, <2>1, <2>2
<1>4. /\ rank \in [ps -> 1..c]
      /\ \A p \in ps : \A d \in phaseDeps[p] : d \in ps /\ rank[d] < rank[p]
  BY <1>1 DEF RanksOf
<1>. HIDE DEF c
<1>. DEFINE r == [p \in all |-> IF p \in ps THEN rank[p] ELSE c + 1]
<1>5. \A p \in ps : rank[p] \in Nat /\ rank[p] <= c /\ rank[p] >= 1 /\ r[p] = rank[p]
  BY <1>2, <1>4
<1>6. \A p \in more : r[p] = c + 1
  OBVIOUS
<1>7. r \in [all -> 1..Cardinality(all)]
  <2>1. \A p \in all : r[p] \in 1..Cardinality(all)
    BY <1>2, <1>3, <1>5, <1>6
  <2>. QED BY <2>1
<1>. HIDE DEF r
<1>8. ASSUME NEW p \in all, NEW d \in phaseDeps[p] PROVE d \in all /\ r[d] < r[p]
  <2>1. CASE p \in ps
    BY <1>4, <1>5, <2>1
  <2>2. CASE p \in more
    <3>1. d \in ps
      BY <2>2
    <3>. QED BY <1>2, <1>5, <1>6, <2>2, <3>1
  <2>. QED BY <2>1, <2>2
<1>9. r \in RanksOf(all)
  BY <1>7, <1>8, Zenon DEF RanksOf
<1>. QED BY <1>9

LEMMA AdmitKeeps == DepsInv /\ RankInv /\ WavesInv /\ SprintTypeOK /\ Admit => DepsInv' /\ RankInv' /\ WavesInv'
<1>1. SUFFICES ASSUME DepsInv, RankInv, WavesInv, SprintTypeOK, Admit PROVE DepsInv' /\ RankInv' /\ WavesInv'
  OBVIOUS
<1>2. /\ planStage = "admit" /\ placed = {} /\ level = {} /\ phaseDeps' = phaseDeps /\ sprintWaves' = sprintWaves
      /\ Laid = {} /\ phaseDeps \in [PlanPhases -> SUBSET (PlanPhases \cup {Unknown})]
  BY <1>1 DEF Admit, DepsInv, SprintTypeOK, Laid
<1>3. sprintWaves = <<>>
  <2>1. DOMAIN sprintWaves = {} /\ sprintWaves \in Seq(SprintWave)
    BY <1>1, <1>2 DEF WavesInv
  <2>. QED BY <2>1
<1>4. CASE \E p \in PlanPhases : p \in phaseDeps[p] \/ Unknown \in phaseDeps[p]
  <2>1. planStage' = "refused" /\ level' = level /\ placed' = placed
    BY <1>1, <1>4 DEF Admit
  <2>2. ~Orderable
    <3>1. SUFFICES ASSUME NEW rank \in [PlanPhases -> 1..Cardinality(PlanPhases)],
                          \A p \in PlanPhases : \A d \in phaseDeps[p] : d \in PlanPhases /\ rank[d] < rank[p]
                   PROVE  FALSE
      BY DEF Orderable
    <3>2. PICK p \in PlanPhases : p \in phaseDeps[p] \/ Unknown \in phaseDeps[p]
      BY <1>4
    <3>3. Unknown \notin phaseDeps[p]
      BY <3>1, SprintAssumption
    <3>4. rank[p] < rank[p] /\ rank[p] \in Int
      BY <3>1, <3>2, <3>3
    <3>. QED BY <3>4
  <2>3. DepsInv'
    BY <1>2, <2>1 DEF DepsInv, Laid
  <2>4. WavesInv'
    BY <1>2, <1>3, <2>1 DEF WavesInv, Laid
  <2>5. RankInv'
    BY <1>1, <1>2, <2>1, <2>2 DEF RankInv, RanksOf, Orderable
  <2>. QED BY <2>3, <2>4, <2>5
<1>5. CASE ~(\E p \in PlanPhases : p \in phaseDeps[p] \/ Unknown \in phaseDeps[p])
  <2>1. planStage' = "layout" /\ level' = {p \in PlanPhases : phaseDeps[p] = {}} /\ placed' = level'
    BY <1>1, <1>5 DEF Admit
  <2>2. DepsInv'
    BY <1>2, <1>5, <2>1 DEF DepsInv, Laid
  <2>3. WavesInv'
    BY <1>2, <1>3, <2>1 DEF WavesInv, Laid
  <2>4. RanksOf({}) # {}
    BY <1>1, <1>2 DEF RankInv
  <2>5. RanksOf(level') # {}
    <3>1. CASE level' = {}
      BY <2>4, <3>1
    <3>2. CASE level' # {}
      <4>1. {} \cup level' = level' /\ level' \subseteq PlanPhases /\ {} \cap level' = {}
            /\ \A p \in level' : phaseDeps[p] \subseteq {}
        BY <2>1
      <4>2. RanksOf({} \cup level') # {}
        BY <2>4, <3>2, <4>1, RankExtends
      <4>. QED BY <4>1, <4>2
    <3>. QED BY <3>1, <3>2
  <2>6. RankInv'
    BY <1>2, <2>1, <2>5 DEF RankInv, RanksOf
  <2>. QED BY <2>2, <2>3, <2>6
<1>. QED BY <1>4, <1>5

\* Nothing can be placed and not everything is: no order exists.
LEMMA NoOrder ==
  ASSUME NEW ps \in SUBSET PlanPhases, ps # PlanPhases,
         {p \in PlanPhases \ ps : phaseDeps[p] \subseteq ps} = {}
  PROVE  ~Orderable
<1>1. SUFFICES ASSUME NEW rank \in [PlanPhases -> 1..Cardinality(PlanPhases)],
                      \A p \in PlanPhases : \A d \in phaseDeps[p] : d \in PlanPhases /\ rank[d] < rank[p]
               PROVE  FALSE
  BY DEF Orderable
<1>. DEFINE T == {rank[p] : p \in PlanPhases \ ps}
<1>2. \A p \in PlanPhases : rank[p] \in Nat
  <2>1. Cardinality(PlanPhases) \in Nat
    BY SprintAssumption, FS_CardinalityType
  <2>. QED BY <2>1
<1>3. T \subseteq Nat /\ T # {}
  BY <1>2
<1>4. PICK x \in T : \A y \in T : x <= y
  BY <1>3, LeastNatural
<1>5. PICK p \in PlanPhases \ ps : rank[p] = x
  BY <1>4
<1>6. ASSUME NEW d \in phaseDeps[p] PROVE d \in ps
  <2>1. d \in PlanPhases /\ rank[d] < rank[p]
    BY <1>1, <1>6
  <2>2. rank[d] \notin T
    BY <1>2, <1>4, <1>5, <2>1
  <2>. QED BY <2>1, <2>2
<1>. QED BY <1>5, <1>6

LEMMA NextLevelKeeps ==
  DepsInv /\ RankInv /\ WavesInv /\ SprintTypeOK /\ NextLevel => DepsInv' /\ RankInv' /\ WavesInv'
<1>1. SUFFICES ASSUME DepsInv, RankInv, WavesInv, SprintTypeOK, NextLevel PROVE DepsInv' /\ RankInv' /\ WavesInv'
  OBVIOUS
<1>. DEFINE next == {p \in PlanPhases \ placed : phaseDeps[p] \subseteq placed}
<1>2. /\ planStage = "layout" /\ level = {} /\ Laid = placed /\ placed \subseteq PlanPhases
      /\ level' = next /\ placed' = placed \cup next
      /\ planStage' = IF next # {} THEN "layout" ELSE IF placed = PlanPhases THEN "planned" ELSE "refused"
      /\ phaseDeps' = phaseDeps /\ sprintWaves' = sprintWaves
  BY <1>1 DEF NextLevel, Laid, SprintTypeOK
<1>3. next \subseteq PlanPhases /\ placed \cap next = {} /\ \A p \in next : phaseDeps[p] \subseteq placed
  OBVIOUS
<1>4. next = {} /\ placed # PlanPhases => ~Orderable
  BY <1>2, NoOrder
<1>. HIDE DEF next
<1>5. Laid' = placed
  BY <1>2, <1>3 DEF Laid
<1>6. DepsInv'
  BY <1>1, <1>2, <1>3, <1>5 DEF DepsInv
<1>7. WavesInv'
  BY <1>1, <1>2, <1>5 DEF WavesInv
<1>8. RanksOf(placed \cup next) # {}
  <2>1. CASE next = {}
    <3>1. placed \cup next = placed
      BY <2>1
    <3>. QED BY <1>1, <3>1 DEF RankInv
  <2>2. CASE next # {}
    BY <1>1, <1>2, <1>3, <2>2, RankExtends DEF RankInv
  <2>. QED BY <2>1, <2>2
<1>9. RankInv'
  BY <1>2, <1>4, <1>8 DEF RankInv, RanksOf, Orderable
<1>. QED BY <1>6, <1>7, <1>9

LEMMA LayOutKeeps ==
  ASSUME DepsInv, RankInv, WavesInv, SprintTypeOK, NEW p \in PlanPhases, LayOut(p)
  PROVE  DepsInv' /\ RankInv' /\ WavesInv'
<1>. DEFINE old == sprintWaves
            new == Chunks(p)
            all == old \o new
<1>1. /\ planStage = "layout" /\ p \in level /\ sprintWaves' = all /\ level' = level \ {p}
      /\ placed' = placed /\ phaseDeps' = phaseDeps /\ planStage' = planStage
      /\ level \subseteq placed /\ placed \subseteq PlanPhases
  BY DEF LayOut, SprintTypeOK
<1>2. Laid' = Laid \cup {p} /\ p \notin Laid /\ phaseDeps[p] \subseteq Laid /\ p \notin phaseDeps[p]
        /\ Laid \subseteq placed
  BY <1>1 DEF Laid, DepsInv
<1>3. DepsInv'
  BY <1>1, <1>2 DEF DepsInv
<1>4. RankInv'
  BY <1>1 DEF RankInv, RanksOf, Orderable
<1>5. /\ old \in Seq(SprintWave) /\ new \in Seq(SprintWave)
      /\ \A i \in DOMAIN old : old[i].phase \in Laid /\ WaveSized(old[i])
      /\ \A i \in DOMAIN new : new[i].phase = p /\ WaveSized(new[i])
  BY ChunksCover DEF WavesInv
<1>. HIDE DEF old, new
<1>6. /\ all \in Seq(SprintWave) /\ DOMAIN all = 1..Len(old) + Len(new) /\ Len(old) \in Nat /\ Len(new) \in Nat
      /\ DOMAIN old = 1..Len(old) /\ DOMAIN new = 1..Len(new)
      /\ \A i \in 1..Len(old) : all[i] = old[i]
      /\ \A i \in 1..Len(new) : all[Len(old) + i] = new[i]
  BY <1>5
<1>. HIDE DEF all
<1>7. \A i \in DOMAIN all : \/ i \in DOMAIN old /\ all[i] = old[i]
                            \/ i - Len(old) \in DOMAIN new /\ all[i] = new[i - Len(old)] /\ i > Len(old)
  BY <1>6
<1>8. \A i \in DOMAIN all : all[i].phase \in Laid' /\ WaveSized(all[i])
  BY <1>2, <1>5, <1>7
<1>9. ASSUME NEW q \in Laid', NEW t \in 1..PhaseTasks[q] PROVE TaskOnce(all, q, t)
  <2>1. CASE q = p
    <3>1. PICK i \in DOMAIN new :
            /\ new[i].phase = p /\ t \in new[i].tasks
            /\ \A j \in DOMAIN new : new[j].phase = p /\ t \in new[j].tasks => j = i
      BY <2>1, ChunksCover DEF TaskOnce, new
    <3>2. Len(old) + i \in DOMAIN all /\ all[Len(old) + i] = new[i]
      BY <1>6
    <3>3. ASSUME NEW j \in DOMAIN all, all[j].phase = p, t \in all[j].tasks PROVE j = Len(old) + i
      <4>1. j \notin DOMAIN old \/ all[j] # old[j]
        BY <1>2, <1>5, <3>3
      <4>2. j - Len(old) \in DOMAIN new /\ all[j] = new[j - Len(old)]
        BY <1>7, <4>1
      <4>3. j - Len(old) = i
        BY <3>1, <3>3, <4>2
      <4>. QED BY <1>6, <4>3
    <3>. QED BY <2>1, <3>1, <3>2, <3>3 DEF TaskOnce
  <2>2. CASE q # p
    <3>1. q \in Laid /\ q # p
      BY <1>2, <2>2
    <3>2. PICK i \in DOMAIN old :
            /\ old[i].phase = q /\ t \in old[i].tasks
            /\ \A j \in DOMAIN old : old[j].phase = q /\ t \in old[j].tasks => j = i
      BY <3>1 DEF WavesInv, TaskOnce, old
    <3>3. i \in DOMAIN all /\ all[i] = old[i]
      BY <1>6
    <3>4. \A j \in DOMAIN all : all[j].phase = q => j \in DOMAIN old /\ all[j] = old[j]
      BY <1>5, <1>7, <3>1
    <3>. QED BY <3>2, <3>3, <3>4 DEF TaskOnce
  <2>. QED BY <2>1, <2>2
<1>10. ASSUME NEW i \in DOMAIN all, NEW j \in DOMAIN all, all[j].phase \in phaseDeps[all[i].phase]
       PROVE  j < i
  <2>1. CASE i \in DOMAIN old /\ all[i] = old[i]
    <3>1. phaseDeps[old[i].phase] \subseteq Laid
      BY <1>2, <1>5, <2>1 DEF DepsInv
    <3>2. j \in DOMAIN old /\ all[j] = old[j]
      BY <1>2, <1>5, <1>7, <1>10, <2>1, <3>1
    <3>. QED BY <1>10, <2>1, <3>2 DEF WavesInv, old
  <2>2. CASE i - Len(old) \in DOMAIN new /\ all[i] = new[i - Len(old)] /\ i > Len(old)
    <3>1. all[i].phase = p
      BY <1>5, <2>2
    <3>2. j \in DOMAIN old
      BY <1>2, <1>5, <1>7, <1>10, <3>1
    <3>. QED BY <1>6, <2>2, <3>2
  <2>. QED BY <1>7, <2>1, <2>2
<1>11. WavesInv'
  BY <1>1, <1>6, <1>8, <1>9, <1>10 DEF WavesInv
<1>. QED BY <1>3, <1>4, <1>11
(***************************************************************************)
(* The execution of a sprint: what is counted are the tasks of the waves   *)
(* recorded, and those of the wave under way that have come so far.        *)
(***************************************************************************)
TaskStages == {"running", "succeeding", "failing", "succeeded", "failed"}

Told == {t \in DOMAIN tasksAt : tasksAt[t] \in {"succeeded", "failed"}}
Past == {t \in DOMAIN tasksAt : tasksAt[t] # "running"}
RecordedTasks == TasksOf(1..Len(waveResults))

CountInv ==
  /\ planStage # "planned" =>
       waveResults = <<>> /\ tasksAt = <<>> /\ progress.done = 0 /\ progress.succeeded = 0 /\ progress.failed = 0
  /\ planStage = "planned" => progress.total = Cardinality(TasksOf(DOMAIN sprintWaves))
  /\ Len(waveResults) <= Len(sprintWaves)
  /\ \/ tasksAt = <<>>
     \/ Executing /\ tasksAt \in [sprintWaves[Len(waveResults) + 1].tasks -> TaskStages]
  /\ progress.done = Cardinality(RecordedTasks) + Cardinality(Past)
  /\ progress.succeeded + progress.failed = Cardinality(RecordedTasks) + Cardinality(Told)

SprintInv == SprintTypeOK /\ DepsInv /\ RankInv /\ WavesInv /\ CountInv

LEMMA TasksFinite ==
  ASSUME WavesInv, NEW ps \in SUBSET DOMAIN sprintWaves
  PROVE  IsFiniteSet(TasksOf(ps)) /\ Cardinality(TasksOf(ps)) \in Nat
<1>. DEFINE f == [i \in ps |-> {i} \X sprintWaves[i].tasks]
            T == {{i} \X sprintWaves[i].tasks : i \in ps}
<1>1. IsFiniteSet(ps)
  <2>1. DOMAIN sprintWaves = 1..Len(sprintWaves) /\ Len(sprintWaves) \in Nat
    BY DEF WavesInv
  <2>2. IsFiniteSet(1..Len(sprintWaves))
    BY <2>1, FS_Interval
  <2>. QED BY <2>1, <2>2, FS_Subset
<1>2. f \in Surjection(ps, T)
  BY DEF Surjection
<1>3. IsFiniteSet(T)
  BY <1>1, <1>2, FS_Surjection
<1>4. ASSUME NEW i \in ps PROVE IsFiniteSet({i} \X sprintWaves[i].tasks)
  <2>1. IsFiniteSet({i}) /\ IsFiniteSet(sprintWaves[i].tasks)
    BY FS_Singleton DEF WavesInv, WaveSized
  <2>. QED BY <2>1, FS_Product
<1>5. IsFiniteSet(UNION T)
  BY <1>3, <1>4, FS_UNION
<1>6. IsFiniteSet(TasksOf(ps))
  BY <1>5 DEF TasksOf
<1>. QED BY <1>6, FS_CardinalityType

\* One more wave has its tasks more.
LEMMA TasksGrow ==
  ASSUME WavesInv, NEW n \in Nat, n + 1 \in DOMAIN sprintWaves
  PROVE  Cardinality(TasksOf(1..n + 1)) = Cardinality(TasksOf(1..n)) + Cardinality(sprintWaves[n + 1].tasks)
<1>. DEFINE w == {n + 1} \X sprintWaves[n + 1].tasks
<1>1. DOMAIN sprintWaves = 1..Len(sprintWaves) /\ Len(sprintWaves) \in Nat
  BY DEF WavesInv
<1>2. 1..n \subseteq DOMAIN sprintWaves /\ 1..n + 1 = (1..n) \cup {n + 1} /\ n + 1 \notin 1..n
  BY <1>1
<1>3. TasksOf(1..n + 1) = TasksOf(1..n) \cup w
  BY <1>2 DEF TasksOf
<1>4. TasksOf(1..n) \cap w = {}
  BY <1>2 DEF TasksOf
<1>5. IsFiniteSet(TasksOf(1..n)) /\ Cardinality(TasksOf(1..n)) \in Nat
  BY <1>2, TasksFinite
<1>6. IsFiniteSet(w) /\ Cardinality(w) = Cardinality(sprintWaves[n + 1].tasks)
  <2>1. IsFiniteSet(sprintWaves[n + 1].tasks) /\ IsFiniteSet({n + 1}) /\ Cardinality({n + 1}) = 1
    BY FS_Singleton DEF WavesInv, WaveSized
  <2>2. IsFiniteSet(w) /\ Cardinality(w) = Cardinality({n + 1}) * Cardinality(sprintWaves[n + 1].tasks)
    BY <2>1, FS_Product
  <2>3. Cardinality(sprintWaves[n + 1].tasks) \in Nat
    BY <2>1, FS_CardinalityType
  <2>. QED BY <2>1, <2>2, <2>3
<1>. HIDE DEF w
<1>7. Cardinality(TasksOf(1..n) \cup w) =
        Cardinality(TasksOf(1..n)) + Cardinality(w) - Cardinality(TasksOf(1..n) \cap w)
  BY <1>5, <1>6, FS_Union
<1>8. Cardinality(TasksOf(1..n) \cap w) = 0 /\ Cardinality(w) \in Nat
  BY <1>4, <1>6, FS_EmptySet, FS_CardinalityType
<1>9. Cardinality(TasksOf(1..n) \cup w) = Cardinality(TasksOf(1..n)) + Cardinality(w)
  BY <1>5, <1>7, <1>8
<1>. QED BY <1>3, <1>6, <1>9

LEMMA TasksBelow ==
  ASSUME WavesInv, NEW n \in Nat, n <= Len(sprintWaves)
  PROVE  Cardinality(TasksOf(1..n)) <= Cardinality(TasksOf(DOMAIN sprintWaves))
<1>1. 1..n \subseteq DOMAIN sprintWaves
  BY DEF WavesInv
<1>2. TasksOf(1..n) \subseteq TasksOf(DOMAIN sprintWaves)
  BY <1>1 DEF TasksOf
<1>3. IsFiniteSet(TasksOf(DOMAIN sprintWaves))
  BY TasksFinite
<1>. QED BY <1>2, <1>3, FS_Subset

\* The tasks under way are those of one wave.
LEMMA UnderWay ==
  ASSUME SprintInv
  PROVE  /\ IsFiniteSet(DOMAIN tasksAt) /\ IsFiniteSet(Past) /\ IsFiniteSet(Told)
         /\ Cardinality(Told) \in Nat /\ Cardinality(Past) \in Nat /\ Cardinality(DOMAIN tasksAt) \in Nat
         /\ Cardinality(Told) <= Cardinality(Past) /\ Cardinality(Past) <= Cardinality(DOMAIN tasksAt)
         /\ Cardinality(RecordedTasks) \in Nat /\ Len(waveResults) \in Nat
<1>1. waveResults \in Seq(BOOLEAN) /\ Len(waveResults) \in Nat /\ Len(waveResults) <= Len(sprintWaves)
      /\ DOMAIN sprintWaves = 1..Len(sprintWaves) /\ Len(sprintWaves) \in Nat
  BY DEF SprintInv, SprintTypeOK, CountInv, WavesInv
<1>2. IsFiniteSet(DOMAIN tasksAt)
  <2>1. CASE tasksAt = <<>>
    BY <2>1, FS_EmptySet
  <2>2. CASE Executing /\ tasksAt \in [sprintWaves[Len(waveResults) + 1].tasks -> TaskStages]
    <3>1. Len(waveResults) + 1 \in DOMAIN sprintWaves
      BY <1>1, <2>2 DEF Executing
    <3>. QED BY <2>2, <3>1 DEF SprintInv, WavesInv, WaveSized
  <2>. QED BY <2>1, <2>2 DEF SprintInv, CountInv
<1>3. Told \subseteq Past /\ Past \subseteq DOMAIN tasksAt
  BY DEF Told, Past
<1>4. IsFiniteSet(Past) /\ Cardinality(Past) <= Cardinality(DOMAIN tasksAt)
  BY <1>2, <1>3, FS_Subset
<1>5. IsFiniteSet(Told) /\ Cardinality(Told) <= Cardinality(Past)
  BY <1>3, <1>4, FS_Subset
<1>6. 1..Len(waveResults) \subseteq DOMAIN sprintWaves
  BY <1>1
<1>. QED BY <1>1, <1>2, <1>4, <1>5, <1>6, TasksFinite, FS_CardinalityType DEF SprintInv, RecordedTasks

LEMMA SprintIsSound == SprintInv => SprintSound
<1>1. SUFFICES ASSUME SprintInv PROVE SprintSound
  OBVIOUS
<1>2. PlanSound
  <2>1. planStage = "planned" => Orderable
    BY <1>1, Zenon DEF SprintInv, DepsInv, RankInv, RanksOf, Orderable
  <2>2. ASSUME planStage = "planned", NEW p \in PlanPhases, NEW t \in 1..PhaseTasks[p]
        PROVE  Cardinality({i \in DOMAIN sprintWaves : sprintWaves[i].phase = p /\ t \in sprintWaves[i].tasks}) = 1
    <3>1. p \in Laid
      BY <1>1, <2>2 DEF SprintInv, DepsInv, Laid
    <3>2. TaskOnce(sprintWaves, p, t)
      BY <1>1, <3>1 DEF SprintInv, WavesInv
    <3>3. PICK i \in DOMAIN sprintWaves :
            {j \in DOMAIN sprintWaves : sprintWaves[j].phase = p /\ t \in sprintWaves[j].tasks} = {i}
      BY <3>2 DEF TaskOnce
    <3>. QED BY <3>3, FS_Singleton
  <2>. QED BY <1>1, <2>1, <2>2 DEF SprintInv, RankInv, WavesInv, WaveSized, PlanSound
<1>3. ProgressConsistent
  <2>. DEFINE k == Len(waveResults)
              c == Cardinality(RecordedTasks)
  <2>1. /\ k \in Nat /\ c \in Nat /\ Cardinality(Past) \in Nat /\ Cardinality(Told) \in Nat
        /\ Cardinality(Told) <= Cardinality(Past) /\ Cardinality(Past) <= Cardinality(DOMAIN tasksAt)
        /\ Cardinality(DOMAIN tasksAt) \in Nat
    BY <1>1, UnderWay
  <2>2. /\ progress.done = c + Cardinality(Past) /\ progress.succeeded + progress.failed = c + Cardinality(Told)
        /\ k <= Len(sprintWaves) /\ Len(sprintWaves) \in Nat /\ DOMAIN sprintWaves = 1..Len(sprintWaves)
    BY <1>1 DEF SprintInv, CountInv, WavesInv
  <2>3. c = Cardinality(TasksOf(1..k))
    BY DEF RecordedTasks
  <2>. HIDE DEF k, c
  <2>4. ASSUME planStage = "planned"
        PROVE  progress.done <= progress.total
    <3>. DEFINE all == Cardinality(TasksOf(DOMAIN sprintWaves))
    <3>1. progress.total = all /\ all \in Nat
      BY <1>1, <2>4, TasksFinite DEF SprintInv, CountInv
    <3>. HIDE DEF all
    <3>2. CASE tasksAt = <<>>
      <4>1. Cardinality(DOMAIN tasksAt) = 0
        BY <3>2, FS_EmptySet
      <4>2. c <= all
        BY <1>1, <2>1, <2>2, <2>3, TasksBelow DEF SprintInv, all
      <4>. QED BY <2>1, <2>2, <3>1, <4>1, <4>2
    <3>3. CASE Executing /\ tasksAt \in [sprintWaves[k + 1].tasks -> TaskStages]
      <4>1. k + 1 \in DOMAIN sprintWaves /\ k + 1 <= Len(sprintWaves) /\ k + 1 \in Nat
        BY <2>1, <2>2, <3>3 DEF Executing, k
      <4>2. Cardinality(TasksOf(1..k + 1)) = c + Cardinality(sprintWaves[k + 1].tasks)
        BY <1>1, <2>1, <2>3, <4>1, TasksGrow DEF SprintInv
      <4>3. DOMAIN tasksAt = sprintWaves[k + 1].tasks
        BY <3>3
      <4>4. Cardinality(TasksOf(1..k + 1)) <= all
        BY <1>1, <4>1, TasksBelow DEF SprintInv, all
      <4>. QED BY <2>1, <2>2, <3>1, <4>2, <4>3, <4>4
    <3>. QED BY <1>1, <3>2, <3>3 DEF SprintInv, CountInv, k
  <2>5. ASSUME planStage = "planned", k = Len(sprintWaves)
        PROVE  progress.done = progress.total /\ progress.succeeded + progress.failed = progress.total
    <3>1. tasksAt = <<>>
      BY <1>1, <2>2, <2>5 DEF SprintInv, CountInv, Executing, k
    <3>2. Cardinality(DOMAIN tasksAt) = 0
      BY <3>1, FS_EmptySet
    <3>3. c = progress.total
      BY <1>1, <2>2, <2>3, <2>5 DEF SprintInv, CountInv
    <3>. QED BY <2>1, <2>2, <3>2, <3>3
  <2>. QED BY <2>1, <2>2, <2>4, <2>5 DEF ProgressConsistent, k
<1>. QED BY <1>1, <1>2, <1>3 DEF SprintInv, SprintSound
LEMMA SprintTypes ==
  ASSUME SprintTypeOK, [SprintNext]_sprintVars, WavesInv
  PROVE  SprintTypeOK'
<1>. DEFINE counters == [total : Nat, done : Nat, succeeded : Nat, failed : Nat]
<1>0. progress \in counters /\ waveResults \in Seq(BOOLEAN) /\ sprint \in SprintState
  BY DEF SprintTypeOK
<1>1. CASE UNCHANGED sprintVars
  BY <1>1 DEF sprintVars, SprintTypeOK
<1>2. CASE Admit
  BY <1>2 DEF Admit, SprintTypeOK
<1>3. CASE NextLevel
  <2>1. Cardinality(TasksOf(DOMAIN sprintWaves)) \in Nat
    BY TasksFinite
  <2>2. progress' \in counters
    BY <1>0, <1>3, <2>1 DEF NextLevel
  <2>3. level' \subseteq placed' /\ placed' \subseteq PlanPhases
    BY <1>3 DEF NextLevel, SprintTypeOK
  <2>. QED BY <1>3, <2>2, <2>3 DEF NextLevel, SprintTypeOK
<1>4. ASSUME NEW p \in PlanPhases, LayOut(p) PROVE SprintTypeOK'
  BY <1>4 DEF LayOut, SprintTypeOK
<1>5. CASE StartWave
  BY <1>5 DEF StartWave, SprintTypeOK
<1>6. CASE RecordWaveResult
  <2>1. WaveSucceeded \in BOOLEAN
    BY DEF WaveSucceeded
  <2>2. waveResults' \in Seq(BOOLEAN)
    BY <1>0, <1>6, <2>1 DEF RecordWaveResult
  <2>3. sprint' \in SprintState
    BY <1>0, <1>6 DEF RecordWaveResult, SprintState
  <2>. QED BY <1>6, <2>2, <2>3 DEF RecordWaveResult, SprintTypeOK
<1>7. ASSUME NEW t \in DOMAIN tasksAt, CountOutcome(t) \/ \E o \in {"succeeding", "failing"} : CountDone(t, o)
      PROVE  SprintTypeOK'
  <2>1. progress' \in counters
    BY <1>0, <1>7 DEF CountOutcome, CountDone
  <2>. QED BY <1>7, <2>1 DEF CountOutcome, CountDone, SprintTypeOK
<1>. QED BY <1>1, <1>2, <1>3, <1>4, <1>5, <1>6, <1>7 DEF SprintNext, PlanningNext, ExecutionNext

\* Planning counts nothing yet.
LEMMA PlanningCounts ==
  ASSUME SprintInv, PlanningNext
  PROVE  CountInv'
<1>1. planStage # "planned" /\ UNCHANGED <<waveResults, tasksAt>>
      /\ progress'.done = progress.done /\ progress'.succeeded = progress.succeeded
      /\ progress'.failed = progress.failed
  BY DEF PlanningNext, Admit, NextLevel, LayOut, SprintInv, SprintTypeOK
<1>2. waveResults = <<>> /\ tasksAt = <<>> /\ progress.done = 0 /\ progress.succeeded = 0 /\ progress.failed = 0
  BY <1>1 DEF SprintInv, CountInv
<1>3. planStage' = "planned" => progress'.total = Cardinality(TasksOf(DOMAIN sprintWaves)) /\ sprintWaves' = sprintWaves
  BY <1>1 DEF PlanningNext, Admit, NextLevel, LayOut, SprintInv, SprintTypeOK
<1>4. Len(waveResults') <= Len(sprintWaves')
  <2>1. Len(sprintWaves') \in Nat
    <3>1. sprintWaves \in Seq(SprintWave)
      BY DEF SprintInv, WavesInv
    <3>2. \A p \in PlanPhases : sprintWaves \o Chunks(p) \in Seq(SprintWave)
      BY <3>1, ChunksCover
    <3>. QED BY <3>1, <3>2 DEF PlanningNext, Admit, NextLevel, LayOut
  <2>. QED BY <1>1, <1>2, <2>1
<1>5. RecordedTasks' = {} /\ Past' = {} /\ Told' = {}
  BY <1>1, <1>2 DEF RecordedTasks, TasksOf, Past, Told
<1>6. Cardinality({}) = 0
  BY FS_EmptySet
<1>7. planStage' = "planned" => progress'.total = Cardinality(TasksOf(DOMAIN sprintWaves))'
  BY <1>3 DEF TasksOf
<1>8. progress'.done = Cardinality(RecordedTasks') + Cardinality(Past')
      /\ progress'.succeeded + progress'.failed = Cardinality(RecordedTasks') + Cardinality(Told')
  BY <1>1, <1>2, <1>5, <1>6
<1>. QED BY <1>1, <1>2, <1>4, <1>7, <1>8 DEF CountInv

LEMMA StartCounts ==
  ASSUME SprintInv, StartWave
  PROVE  CountInv'
<1>1. /\ Executing /\ tasksAt = <<>> /\ UNCHANGED <<planStage, sprintWaves, waveResults, progress>>
      /\ tasksAt' = [t \in sprintWaves[Len(waveResults) + 1].tasks |-> "running"]
  BY DEF StartWave
<1>2. Past = {} /\ Told = {} /\ Past' = {} /\ Told' = {} /\ RecordedTasks' = RecordedTasks
  BY <1>1 DEF Past, Told, RecordedTasks, TasksOf
<1>3. Executing' /\ tasksAt' \in [sprintWaves[Len(waveResults) + 1].tasks -> TaskStages] /\ planStage = "planned"
  BY <1>1 DEF Executing, TaskStages
<1>. QED BY <1>1, <1>2, <1>3 DEF SprintInv, CountInv, TasksOf

LEMMA RecordCounts ==
  ASSUME SprintInv, RecordWaveResult
  PROVE  CountInv'
<1>. DEFINE k == Len(waveResults)
<1>1. /\ Executing /\ WaveEnded /\ UNCHANGED <<planStage, sprintWaves, progress>> /\ tasksAt' = <<>>
      /\ waveResults' = Append(waveResults, WaveSucceeded)
  BY DEF RecordWaveResult
<1>2. /\ Executing /\ tasksAt \in [sprintWaves[k + 1].tasks -> TaskStages]
      /\ waveResults \in Seq(BOOLEAN) /\ k \in Nat /\ Len(sprintWaves) \in Nat /\ k < Len(sprintWaves)
      /\ k + 1 \in DOMAIN sprintWaves
  BY <1>1 DEF SprintInv, CountInv, WaveEnded, SprintTypeOK, WavesInv, Executing
<1>3. Len(waveResults') = k + 1
  BY <1>1, <1>2 DEF WaveSucceeded
<1>. HIDE DEF k
<1>4. Past = DOMAIN tasksAt /\ Told = DOMAIN tasksAt /\ DOMAIN tasksAt = sprintWaves[k + 1].tasks
  BY <1>1, <1>2 DEF Past, Told, WaveEnded
<1>5. Past' = {} /\ Told' = {} /\ Cardinality({}) = 0
  BY <1>1, FS_EmptySet DEF Past, Told
<1>6. Cardinality(RecordedTasks') = Cardinality(RecordedTasks) + Cardinality(DOMAIN tasksAt)
  <2>1. RecordedTasks = TasksOf(1..k) /\ RecordedTasks' = TasksOf(1..k + 1)
    BY <1>1, <1>3 DEF RecordedTasks, TasksOf, k
  <2>. QED BY <1>2, <1>4, <2>1, TasksGrow DEF SprintInv
<1>7. Cardinality(RecordedTasks) \in Nat /\ Cardinality(DOMAIN tasksAt) \in Nat
  BY UnderWay
<1>8. /\ progress'.done = Cardinality(RecordedTasks') + Cardinality(Past')
      /\ progress'.succeeded + progress'.failed = Cardinality(RecordedTasks') + Cardinality(Told')
  <2>1. /\ progress.done = Cardinality(RecordedTasks) + Cardinality(DOMAIN tasksAt)
        /\ progress.succeeded + progress.failed = Cardinality(RecordedTasks) + Cardinality(DOMAIN tasksAt)
    BY <1>4 DEF SprintInv, CountInv
  <2>. QED BY <1>1, <1>5, <1>6, <1>7, <2>1
<1>9. Len(waveResults') <= Len(sprintWaves') /\ planStage' = "planned"
      /\ progress'.total = Cardinality(TasksOf(DOMAIN sprintWaves))'
  BY <1>1, <1>2, <1>3 DEF SprintInv, CountInv, Executing, TasksOf
<1>. QED BY <1>1, <1>8, <1>9 DEF CountInv

\* A task counts itself: one more is past running, or is told apart.
LEMMA TaskCounts ==
  ASSUME SprintInv, NEW t \in DOMAIN tasksAt,
         CountOutcome(t) \/ \E o \in {"succeeding", "failing"} : CountDone(t, o)
  PROVE  CountInv'
<1>. DEFINE k == Len(waveResults)
<1>1. UNCHANGED <<planStage, sprintWaves, waveResults>>
  BY DEF CountOutcome, CountDone
<1>2. Executing /\ tasksAt \in [sprintWaves[k + 1].tasks -> TaskStages] /\ planStage = "planned"
  BY DEF SprintInv, CountInv, Executing
<1>3. /\ progress.done \in Nat /\ progress.succeeded \in Nat /\ progress.failed \in Nat
      /\ progress.done = Cardinality(RecordedTasks) + Cardinality(Past)
      /\ progress.succeeded + progress.failed = Cardinality(RecordedTasks) + Cardinality(Told)
      /\ IsFiniteSet(Past) /\ IsFiniteSet(Told)
      /\ Cardinality(RecordedTasks) \in Nat /\ Cardinality(Past) \in Nat /\ Cardinality(Told) \in Nat
  BY UnderWay DEF SprintInv, SprintTypeOK, CountInv
<1>4. RecordedTasks' = RecordedTasks
  BY <1>1 DEF RecordedTasks, TasksOf
<1>5. tasksAt' \in [sprintWaves[k + 1].tasks -> TaskStages] /\ DOMAIN tasksAt' = DOMAIN tasksAt /\ Executing'
  BY <1>1, <1>2 DEF CountOutcome, CountDone, TaskStages, Executing
<1>6. progress'.total = progress.total
  BY DEF CountOutcome, CountDone, SprintInv, SprintTypeOK
<1>7. /\ progress'.done = Cardinality(RecordedTasks) + Cardinality(Past')
      /\ progress'.succeeded + progress'.failed = Cardinality(RecordedTasks) + Cardinality(Told')
  <2>1. CASE \E o \in {"succeeding", "failing"} : CountDone(t, o)
    <3>1. PICK o \in {"succeeding", "failing"} : CountDone(t, o)
      BY <2>1
    <3>2. /\ tasksAt[t] = "running" /\ tasksAt' = [tasksAt EXCEPT ![t] = o]
          /\ progress'.done = progress.done + 1 /\ progress'.succeeded = progress.succeeded
          /\ progress'.failed = progress.failed
      BY <3>1 DEF CountDone, SprintInv, SprintTypeOK
    <3>3. Past' = Past \cup {t} /\ t \notin Past /\ Told' = Told
      BY <3>2 DEF Past, Told
    <3>4. Cardinality(Past') = Cardinality(Past) + 1
      BY <1>3, <3>3, FS_AddElement
    <3>. QED BY <1>3, <3>2, <3>3, <3>4
  <2>2. CASE CountOutcome(t)
    <3>1. PICK o \in {"succeeded", "failed"} : tasksAt' = [tasksAt EXCEPT ![t] = o]
      BY <2>2 DEF CountOutcome
    <3>2. /\ tasksAt[t] \in {"succeeding", "failing"} /\ progress'.done = progress.done
          /\ progress'.succeeded + progress'.failed = progress.succeeded + progress.failed + 1
      BY <1>3, <2>2 DEF CountOutcome, SprintInv, SprintTypeOK
    <3>3. Told' = Told \cup {t} /\ t \notin Told /\ Past' = Past
      BY <3>1, <3>2 DEF Past, Told
    <3>4. Cardinality(Told') = Cardinality(Told) + 1
      BY <1>3, <3>3, FS_AddElement
    <3>. QED BY <1>3, <3>2, <3>3, <3>4
  <2>. QED BY <2>1, <2>2
<1>8. progress'.total = Cardinality(TasksOf(DOMAIN sprintWaves))' /\ planStage' = "planned"
      /\ Len(waveResults') <= Len(sprintWaves')
  BY <1>1, <1>2, <1>6 DEF SprintInv, CountInv, TasksOf
<1>. QED BY <1>1, <1>4, <1>5, <1>7, <1>8 DEF CountInv

LEMMA SprintInvStep == SprintInv /\ [SprintNext]_sprintVars => SprintInv'
<1>1. SUFFICES ASSUME SprintInv, [SprintNext]_sprintVars PROVE SprintInv'
  OBVIOUS
<1>2. SprintTypeOK'
  BY <1>1, SprintTypes DEF SprintInv
<1>3. CASE PlanningNext
  <2>1. DepsInv' /\ RankInv' /\ WavesInv'
    BY <1>1, <1>3, AdmitKeeps, NextLevelKeeps, LayOutKeeps DEF SprintInv, PlanningNext
  <2>. QED BY <1>1, <1>2, <1>3, <2>1, PlanningCounts DEF SprintInv
<1>4. CASE ExecutionNext \/ UNCHANGED sprintVars
  <2>1. UNCHANGED <<phaseDeps, planStage, level, placed, sprintWaves>>
    BY <1>4 DEF ExecutionNext, StartWave, RecordWaveResult, CountOutcome, CountDone, sprintVars
  <2>2. DepsInv' /\ RankInv' /\ WavesInv'
    <3>1. DepsInv'
      BY <1>1, <2>1 DEF SprintInv, DepsInv, Laid
    <3>2. RankInv'
      BY <1>1, <2>1, Zenon DEF SprintInv, RankInv, RanksOf, Orderable
    <3>3. WavesInv'
      BY <1>1, <2>1 DEF SprintInv, WavesInv, Laid
    <3>. QED BY <3>1, <3>2, <3>3
  <2>3. CountInv'
    <3>1. CASE ExecutionNext
      BY <1>1, <3>1, StartCounts, RecordCounts, TaskCounts DEF ExecutionNext
    <3>2. CASE UNCHANGED sprintVars
      BY <1>1, <3>2 DEF sprintVars, SprintInv, CountInv, RecordedTasks, TasksOf, Past, Told, Executing
    <3>. QED BY <1>4, <3>1, <3>2
  <2>. QED BY <1>2, <2>2, <2>3 DEF SprintInv
<1>. QED BY <1>1, <1>3, <1>4 DEF SprintNext

LEMMA SprintInvFirst == SprintInit => SprintInv
<1>1. SUFFICES ASSUME SprintInit PROVE SprintInv
  OBVIOUS
<1>2. SprintTypeOK
  BY <1>1 DEF SprintInit, SprintTypeOK, SprintState
<1>3. RecordedTasks = {} /\ Past = {} /\ Told = {} /\ Cardinality({}) = 0
  BY <1>1, FS_EmptySet DEF SprintInit, RecordedTasks, TasksOf, Past, Told
<1>4. CountInv
  BY <1>1, <1>3 DEF SprintInit, CountInv
<1>. QED BY <1>1, <1>2, <1>4, SprintInvInit DEF SprintInv
-----------------------------------------------------------------------------
(***************************************************************************)
(* Handoffs. An id is in an index once from the step that writes it, and   *)
(* its record comes after both.                                            *)
(***************************************************************************)
Recordings ==
  [step : {"new"}]
  \cup [step : {"inbound", "store", "recorded"}, from : HandoffAgents, to : HandoffAgents]

Handoffs == [from : HandoffAgents, to : HandoffAgents, state : HandoffState, ended : BOOLEAN, error : BOOLEAN]

IndexedOnce(table, a, h) ==
  \E i \in DOMAIN table[a] : table[a][i] = h /\ \A j \in DOMAIN table[a] : table[a][j] = h => j = i
IndexedNowhere(table, a, h) == \A i \in DOMAIN table[a] : table[a][i] # h

HandoffInv ==
  /\ recording \in [HandoffIds -> Recordings]
  /\ outbound \in [HandoffAgents -> Seq(HandoffIds)] /\ inbound \in [HandoffAgents -> Seq(HandoffIds)]
  /\ DOMAIN records = {h \in HandoffIds : recording[h].step = "recorded"}
  /\ \A h \in DOMAIN records : records[h] \in Handoffs
  /\ \A h \in DOMAIN records : records[h].from = recording[h].from /\ records[h].to = recording[h].to
  /\ \A h \in HandoffIds, a \in HandoffAgents :
       /\ IF recording[h].step # "new" /\ recording[h].from = a
          THEN IndexedOnce(outbound, a, h) ELSE IndexedNowhere(outbound, a, h)
       /\ IF recording[h].step \in {"store", "recorded"} /\ recording[h].to = a
          THEN IndexedOnce(inbound, a, h) ELSE IndexedNowhere(inbound, a, h)

\* Appending an id to one agent's list.
LEMMA IndexGrows ==
  ASSUME NEW table \in [HandoffAgents -> Seq(HandoffIds)], NEW a \in HandoffAgents, NEW h \in HandoffIds,
         IndexedNowhere(table, a, h)
  PROVE  LET new == [table EXCEPT ![a] = Append(@, h)] IN
         /\ new \in [HandoffAgents -> Seq(HandoffIds)]
         /\ IndexedOnce(new, a, h)
         /\ \A b \in HandoffAgents \ {a}, g \in HandoffIds :
              /\ IndexedOnce(table, b, g) => IndexedOnce(new, b, g)
              /\ IndexedNowhere(table, b, g) => IndexedNowhere(new, b, g)
         /\ \A g \in HandoffIds \ {h} :
              /\ IndexedOnce(table, a, g) => IndexedOnce(new, a, g)
              /\ IndexedNowhere(table, a, g) => IndexedNowhere(new, a, g)
<1>. DEFINE new == [table EXCEPT ![a] = Append(@, h)]
            q == table[a]
<1>1. q \in Seq(HandoffIds) /\ new[a] = Append(q, h) /\ \A b \in HandoffAgents \ {a} : new[b] = table[b]
  OBVIOUS
<1>2. new \in [HandoffAgents -> Seq(HandoffIds)]
  <2>1. Append(q, h) \in Seq(HandoffIds)
    BY <1>1
  <2>. QED BY <2>1
<1>. HIDE DEF new, q
<1>3. /\ DOMAIN Append(q, h) = DOMAIN q \cup {Len(q) + 1} /\ Len(q) + 1 \notin DOMAIN q
      /\ Append(q, h)[Len(q) + 1] = h /\ \A i \in DOMAIN q : Append(q, h)[i] = q[i]
  BY <1>1
<1>. DEFINE r == Append(q, h)
            n == Len(q) + 1
<1>4. /\ new[a] = r /\ DOMAIN r = DOMAIN q \cup {n} /\ n \notin DOMAIN q /\ r[n] = h
      /\ \A i \in DOMAIN q : r[i] = q[i]
  BY <1>1, <1>3
<1>. HIDE DEF r, n
<1>5. IndexedOnce(new, a, h)
  BY <1>4 DEF IndexedOnce, IndexedNowhere, q
<1>6. ASSUME NEW g \in HandoffIds \ {h}
      PROVE  /\ IndexedOnce(table, a, g) => IndexedOnce(new, a, g)
             /\ IndexedNowhere(table, a, g) => IndexedNowhere(new, a, g)
  <2>1. g # h
    OBVIOUS
  <2>. QED BY <1>4, <2>1 DEF IndexedOnce, IndexedNowhere, q
<1>7. ASSUME NEW b \in HandoffAgents \ {a}, NEW g \in HandoffIds
      PROVE  /\ IndexedOnce(table, b, g) => IndexedOnce(new, b, g)
             /\ IndexedNowhere(table, b, g) => IndexedNowhere(new, b, g)
  BY <1>1 DEF IndexedOnce, IndexedNowhere
<1>8. /\ new \in [HandoffAgents -> Seq(HandoffIds)]
      /\ IndexedOnce(new, a, h)
      /\ \A b \in HandoffAgents \ {a}, g \in HandoffIds :
           /\ IndexedOnce(table, b, g) => IndexedOnce(new, b, g)
           /\ IndexedNowhere(table, b, g) => IndexedNowhere(new, b, g)
      /\ \A g \in HandoffIds \ {h} :
           /\ IndexedOnce(table, a, g) => IndexedOnce(new, a, g)
           /\ IndexedNowhere(table, a, g) => IndexedNowhere(new, a, g)
  BY <1>2, <1>5, <1>6, <1>7
<1>. QED BY <1>8 DEF new

LEMMA HandoffInvInit == HandoffInit => HandoffInv
BY DEF HandoffInit, HandoffInv, EmptyMap, Recordings, IndexedNowhere

LEMMA RecordKeepsIndex ==
  ASSUME HandoffInv, NEW h \in HandoffIds, NEW from \in HandoffAgents, NEW to \in HandoffAgents, Record(h, from, to)
  PROVE  HandoffInv'
<1>1. /\ recording[h].step = "new" /\ outbound' = [outbound EXCEPT ![from] = Append(@, h)]
      /\ recording' = [recording EXCEPT ![h] = [step |-> "inbound", from |-> from, to |-> to]]
      /\ records' = records /\ inbound' = inbound
  BY DEF Record
<1>2. /\ recording'[h].step = "inbound" /\ recording'[h].from = from /\ recording' \in [HandoffIds -> Recordings]
      /\ \A g \in HandoffIds \ {h} : recording'[g] = recording[g]
  BY <1>1 DEF HandoffInv, Recordings
<1>3. IndexedNowhere(outbound, from, h)
  BY <1>1 DEF HandoffInv
<1>4. /\ outbound' \in [HandoffAgents -> Seq(HandoffIds)]
      /\ IndexedOnce(outbound', from, h)
      /\ \A b \in HandoffAgents \ {from}, g \in HandoffIds :
           /\ IndexedOnce(outbound, b, g) => IndexedOnce(outbound', b, g)
           /\ IndexedNowhere(outbound, b, g) => IndexedNowhere(outbound', b, g)
      /\ \A g \in HandoffIds \ {h} :
           /\ IndexedOnce(outbound, from, g) => IndexedOnce(outbound', from, g)
           /\ IndexedNowhere(outbound, from, g) => IndexedNowhere(outbound', from, g)
  BY <1>1, <1>3, IndexGrows DEF HandoffInv
<1>5. ASSUME NEW g \in HandoffIds, NEW a \in HandoffAgents
      PROVE  /\ IF recording'[g].step # "new" /\ recording'[g].from = a
                THEN IndexedOnce(outbound', a, g) ELSE IndexedNowhere(outbound', a, g)
             /\ IF recording'[g].step \in {"store", "recorded"} /\ recording'[g].to = a
                THEN IndexedOnce(inbound', a, g) ELSE IndexedNowhere(inbound', a, g)
  <2>0. /\ IF recording[g].step # "new" /\ recording[g].from = a
           THEN IndexedOnce(outbound, a, g) ELSE IndexedNowhere(outbound, a, g)
        /\ IF recording[g].step \in {"store", "recorded"} /\ recording[g].to = a
           THEN IndexedOnce(inbound, a, g) ELSE IndexedNowhere(inbound, a, g)
    BY DEF HandoffInv
  <2>1. CASE g = h
    BY <1>1, <1>2, <1>4, <2>0, <2>1
  <2>2. CASE g # h
    <3>1. recording'[g] = recording[g] /\ g \in HandoffIds \ {h}
      BY <1>2, <2>2
    <3>2. /\ IndexedOnce(outbound, a, g) => IndexedOnce(outbound', a, g)
          /\ IndexedNowhere(outbound, a, g) => IndexedNowhere(outbound', a, g)
      <4>1. CASE a = from
        BY <1>4, <3>1, <4>1, Zenon
      <4>2. CASE a # from
        BY <1>4, <4>2, Zenon
      <4>. QED BY <4>1, <4>2
    <3>. QED BY <1>1, <2>0, <3>1, <3>2
  <2>. QED BY <2>1, <2>2
<1>6. DOMAIN records' = {g \in HandoffIds : recording'[g].step = "recorded"}
  BY <1>1, <1>2 DEF HandoffInv
<1>7. \A g \in DOMAIN records' : records'[g].from = recording'[g].from /\ records'[g].to = recording'[g].to
  BY <1>1, <1>2 DEF HandoffInv
<1>. QED BY <1>1, <1>2, <1>4, <1>5, <1>6, <1>7 DEF HandoffInv, IndexedOnce, IndexedNowhere

LEMMA InboundKeepsIndex ==
  ASSUME HandoffInv, NEW h \in HandoffIds, RecordInbound(h)
  PROVE  HandoffInv'
<1>. DEFINE to == recording[h].to
<1>1. /\ recording[h].step = "inbound" /\ inbound' = [inbound EXCEPT ![to] = Append(@, h)]
      /\ recording' = [recording EXCEPT ![h].step = "store"] /\ records' = records /\ outbound' = outbound
  BY DEF RecordInbound
<1>2. to \in HandoffAgents /\ recording[h] \in Recordings
  BY <1>1 DEF HandoffInv, Recordings
<1>3. /\ recording'[h].step = "store" /\ recording'[h].from = recording[h].from /\ recording'[h].to = to
      /\ recording' \in [HandoffIds -> Recordings]
      /\ \A g \in HandoffIds \ {h} : recording'[g] = recording[g]
  BY <1>1, <1>2 DEF HandoffInv, Recordings
<1>. HIDE DEF to
<1>4. IndexedNowhere(inbound, to, h)
  BY <1>1, <1>2 DEF HandoffInv
<1>5. /\ inbound' \in [HandoffAgents -> Seq(HandoffIds)]
      /\ IndexedOnce(inbound', to, h)
      /\ \A b \in HandoffAgents \ {to}, g \in HandoffIds :
           /\ IndexedOnce(inbound, b, g) => IndexedOnce(inbound', b, g)
           /\ IndexedNowhere(inbound, b, g) => IndexedNowhere(inbound', b, g)
      /\ \A g \in HandoffIds \ {h} :
           /\ IndexedOnce(inbound, to, g) => IndexedOnce(inbound', to, g)
           /\ IndexedNowhere(inbound, to, g) => IndexedNowhere(inbound', to, g)
  BY <1>1, <1>2, <1>4, IndexGrows DEF HandoffInv
<1>6. ASSUME NEW g \in HandoffIds, NEW a \in HandoffAgents
      PROVE  /\ IF recording'[g].step # "new" /\ recording'[g].from = a
                THEN IndexedOnce(outbound', a, g) ELSE IndexedNowhere(outbound', a, g)
             /\ IF recording'[g].step \in {"store", "recorded"} /\ recording'[g].to = a
                THEN IndexedOnce(inbound', a, g) ELSE IndexedNowhere(inbound', a, g)
  <2>0. /\ IF recording[g].step # "new" /\ recording[g].from = a
           THEN IndexedOnce(outbound, a, g) ELSE IndexedNowhere(outbound, a, g)
        /\ IF recording[g].step \in {"store", "recorded"} /\ recording[g].to = a
           THEN IndexedOnce(inbound, a, g) ELSE IndexedNowhere(inbound, a, g)
    BY DEF HandoffInv
  <2>1. CASE g = h
    <3>1. recording'[g].step = "store" /\ recording'[g].from = recording[g].from /\ recording'[g].to = to
          /\ recording[g].step = "inbound"
      BY <1>1, <1>3, <2>1
    <3>2. IF to = a THEN IndexedOnce(inbound', a, g) ELSE IndexedNowhere(inbound', a, g)
      <4>1. CASE a = to
        BY <1>5, <2>1, <4>1, Zenon
      <4>2. CASE a # to
        <5>1. IndexedNowhere(inbound, a, g)
          BY <2>0, <3>1
        <5>2. IndexedNowhere(inbound', a, g)
          BY <1>5, <4>2, <5>1, Zenon
        <5>. QED BY <4>2, <5>2
      <4>. QED BY <4>1, <4>2
    <3>. QED BY <1>1, <2>0, <3>1, <3>2
  <2>2. CASE g # h
    <3>1. recording'[g] = recording[g] /\ g \in HandoffIds \ {h}
      BY <1>3, <2>2
    <3>2. /\ IndexedOnce(inbound, a, g) => IndexedOnce(inbound', a, g)
          /\ IndexedNowhere(inbound, a, g) => IndexedNowhere(inbound', a, g)
      <4>1. CASE a = to
        BY <1>5, <3>1, <4>1, Zenon
      <4>2. CASE a # to
        BY <1>5, <4>2, Zenon
      <4>. QED BY <4>1, <4>2
    <3>. QED BY <1>1, <2>0, <3>1, <3>2
  <2>. QED BY <2>1, <2>2
<1>7. DOMAIN records' = {g \in HandoffIds : recording'[g].step = "recorded"}
  BY <1>1, <1>3 DEF HandoffInv
<1>8. \A g \in DOMAIN records' : records'[g].from = recording'[g].from /\ records'[g].to = recording'[g].to
  BY <1>1, <1>3 DEF HandoffInv
<1>. QED BY <1>1, <1>3, <1>5, <1>6, <1>7, <1>8 DEF HandoffInv, IndexedOnce, IndexedNowhere

LEMMA StoredKeepsIndex ==
  ASSUME HandoffInv, NEW h \in HandoffIds, RecordStored(h)
  PROVE  HandoffInv'
<1>1. /\ recording[h].step = "store" /\ recording' = [recording EXCEPT ![h].step = "recorded"]
      /\ DOMAIN records' = DOMAIN records \cup {h} /\ outbound' = outbound /\ inbound' = inbound
      /\ \A g \in DOMAIN records \ {h} : records'[g] = records[g]
      /\ records'[h] = NewHandoff(recording[h].from, recording[h].to)
  BY DEF RecordStored, Put
<1>0. /\ records'[h].from = recording[h].from /\ records'[h].to = recording[h].to /\ records'[h] \in Handoffs
  <2>1. recording[h].from \in HandoffAgents /\ recording[h].to \in HandoffAgents
    BY <1>1 DEF HandoffInv, Recordings
  <2>. QED BY <1>1, <2>1 DEF NewHandoff, Handoffs, HandoffState
<1>2. /\ recording'[h].step = "recorded" /\ recording'[h].from = recording[h].from
      /\ recording'[h].to = recording[h].to /\ recording' \in [HandoffIds -> Recordings]
      /\ \A g \in HandoffIds \ {h} : recording'[g] = recording[g]
  BY <1>1 DEF HandoffInv, Recordings
<1>3. DOMAIN records' = {g \in HandoffIds : recording'[g].step = "recorded"}
  BY <1>1, <1>2 DEF HandoffInv
<1>4. \A g \in DOMAIN records' : /\ records'[g].from = recording'[g].from /\ records'[g].to = recording'[g].to
                                 /\ records'[g] \in Handoffs
  BY <1>0, <1>1, <1>2 DEF HandoffInv
<1>5. ASSUME NEW g \in HandoffIds, NEW a \in HandoffAgents
      PROVE  /\ IF recording'[g].step # "new" /\ recording'[g].from = a
                THEN IndexedOnce(outbound, a, g) ELSE IndexedNowhere(outbound, a, g)
             /\ IF recording'[g].step \in {"store", "recorded"} /\ recording'[g].to = a
                THEN IndexedOnce(inbound, a, g) ELSE IndexedNowhere(inbound, a, g)
  <2>1. CASE g = h
    BY <1>1, <1>2, <2>1 DEF HandoffInv
  <2>2. CASE g # h
    BY <1>1, <1>2, <2>2 DEF HandoffInv
  <2>. QED BY <2>1, <2>2
<1>. QED BY <1>1, <1>2, <1>3, <1>4, <1>5 DEF HandoffInv, IndexedOnce, IndexedNowhere

LEMMA UpdateKeepsIndex ==
  ASSUME HandoffInv, NEW h \in HandoffIds, NEW s \in HandoffState, UpdateHandoff(h, s)
  PROVE  HandoffInv'
<1>1. /\ h \in DOMAIN records /\ records' = [records EXCEPT ![h] = Moved(records[h], s)]
      /\ UNCHANGED <<outbound, inbound, recording>>
  BY DEF UpdateHandoff
<1>2. DOMAIN records' = DOMAIN records /\ \A g \in DOMAIN records \ {h} : records'[g] = records[g]
  BY <1>1
<1>3. Moved(records[h], s).from = records[h].from /\ Moved(records[h], s).to = records[h].to
      /\ Moved(records[h], s) \in Handoffs
  <2>1. records[h] \in Handoffs
    BY <1>1 DEF HandoffInv
  <2>. QED BY <2>1 DEF Moved, Handoffs
<1>4. \A g \in DOMAIN records : /\ records'[g].from = records[g].from /\ records'[g].to = records[g].to
                                /\ (records[g] \in Handoffs => records'[g] \in Handoffs)
  BY <1>1, <1>2, <1>3
<1>. QED BY <1>1, <1>2, <1>4 DEF HandoffInv, IndexedOnce, IndexedNowhere
LEMMA HandoffInvStep == HandoffInv /\ [HandoffNext]_handoffVars => HandoffInv'
<1>1. CASE HandoffNext
  BY <1>1, RecordKeepsIndex, InboundKeepsIndex, StoredKeepsIndex, UpdateKeepsIndex DEF HandoffNext
<1>2. CASE UNCHANGED handoffVars
  BY <1>2 DEF handoffVars, HandoffInv, IndexedOnce, IndexedNowhere
<1>. QED BY <1>1, <1>2

LEMMA HandoffsAreAudited == HandoffInv => AuditTrailComplete
<1>1. SUFFICES ASSUME HandoffInv PROVE AuditTrailComplete
  OBVIOUS
<1>2. \A h \in DOMAIN records : h \in HandoffIds /\ recording[h].step = "recorded"
  BY <1>1 DEF HandoffInv
<1>3. ASSUME NEW h \in DOMAIN records
      PROVE  /\ Cardinality({i \in Listed(outbound, records[h].from) : outbound[records[h].from][i] = h}) = 1
             /\ Cardinality({i \in Listed(inbound, records[h].to) : inbound[records[h].to][i] = h}) = 1
  <2>. DEFINE from == records[h].from
              to == records[h].to
  <2>1. from \in HandoffAgents /\ to \in HandoffAgents /\ from = recording[h].from /\ to = recording[h].to
    BY <1>1 DEF HandoffInv, Handoffs
  <2>2. IndexedOnce(outbound, from, h) /\ IndexedOnce(inbound, to, h)
    BY <1>1, <1>2, <2>1 DEF HandoffInv
  <2>. HIDE DEF from, to
  <2>3. PICK i \in DOMAIN outbound[from] : {j \in Listed(outbound, from) : outbound[from][j] = h} = {i}
    BY <2>2 DEF IndexedOnce, Listed
  <2>4. PICK k \in DOMAIN inbound[to] : {j \in Listed(inbound, to) : inbound[to][j] = h} = {k}
    BY <2>2 DEF IndexedOnce, Listed
  <2>. QED BY <2>3, <2>4, FS_Singleton DEF from, to
<1>4. ASSUME NEW a \in HandoffAgents
      PROVE  /\ \A i \in Listed(outbound, a) : records[outbound[a][i]].from = a
             /\ \A i \in Listed(inbound, a) : records[inbound[a][i]].to = a
  <2>1. ASSUME NEW i \in Listed(outbound, a) PROVE records[outbound[a][i]].from = a
    <3>1. outbound[a][i] \in DOMAIN records /\ i \in DOMAIN outbound[a]
      BY DEF Listed
    <3>2. ~IndexedNowhere(outbound, a, outbound[a][i])
      BY <3>1 DEF IndexedNowhere
    <3>. QED BY <1>1, <1>2, <3>1, <3>2 DEF HandoffInv
  <2>2. ASSUME NEW i \in Listed(inbound, a) PROVE records[inbound[a][i]].to = a
    <3>1. inbound[a][i] \in DOMAIN records /\ i \in DOMAIN inbound[a]
      BY DEF Listed
    <3>2. ~IndexedNowhere(inbound, a, inbound[a][i])
      BY <3>1 DEF IndexedNowhere
    <3>. QED BY <1>1, <1>2, <3>1, <3>2 DEF HandoffInv
  <2>. QED BY <2>1, <2>2
<1>. QED BY <1>3, <1>4 DEF AuditTrailComplete

(***************************************************************************)
(* For any phases, dependencies, task counts, wave sizes, agents and       *)
(* handoffs: SprintPlanner::plan succeeds for exactly the missions that    *)
(* can be ordered and puts every task in one wave, after what it depends   *)
(* on; the counters of a sprint never run ahead and end at its tasks; and  *)
(* a stored handoff is in both indices of HandoffManager, once.            *)
(***************************************************************************)
THEOREM WorkStaysAccounted == SprintSpec /\ HandoffSpec => []WorkAccounted
<1>1. SprintInv /\ HandoffInv => WorkAccounted
  BY SprintIsSound, HandoffsAreAudited DEF WorkAccounted
<1>2. SprintSpec => []SprintInv
  BY SprintInvFirst, SprintInvStep, PTL DEF SprintSpec
<1>3. HandoffSpec => []HandoffInv
  BY HandoffInvInit, HandoffInvStep, PTL DEF HandoffSpec
<1>. QED BY <1>1, <1>2, <1>3, PTL

-----------------------------------------------------------------------------
(***************************************************************************)
(* The supervisor. restart_history is the end of the list of all restarts: *)
(* what was pruned from it had left the window.                            *)
(***************************************************************************)
InOrder(s) == \A i, j \in DOMAIN s : i <= j => s[i] <= s[j]

IsEndOf(h, s, w) ==
  \E k \in 0..Len(s) : /\ h = SubSeq(s, k + 1, Len(s))
                       /\ \A i \in 1..k : s[i] < now - w

HistoryInv ==
  /\ InOrder(restarted)
  /\ \A i \in DOMAIN restarted : restarted[i] <= now
  /\ IsEndOf(history, restarted, TimeWindow)

\* A dead agent is not under supervision.
DeadInv == \A i \in DOMAIN agents : agents[i] \notin dead

SupervisorInv == TypeOK /\ HistoryInv /\ DeadInv /\ OvershootBounded /\ DeadStaysDown

\* The rest of a sequence after its first k elements.
LEMMA RestOfSeq ==
  ASSUME NEW T, NEW s \in Seq(T), NEW k \in 0..Len(s)
  PROVE  /\ SubSeq(s, k + 1, Len(s)) \in Seq(T) /\ Len(SubSeq(s, k + 1, Len(s))) = Len(s) - k
         /\ \A i \in 1..(Len(s) - k) : SubSeq(s, k + 1, Len(s))[i] = s[k + i]
<1>1. PICK x \in Int, y \in Int : x = k + 1 /\ y = Len(s)
  OBVIOUS
<1>2. \A i \in x..y : s[i] \in T
  BY <1>1
<1>. DEFINE e == SubSeq(s, x, y)
<1>3. /\ e \in Seq(T) /\ Len(e) = IF x <= y THEN y - x + 1 ELSE 0
      /\ \A i \in 1..(y - x + 1) : e[i] = s[x + i - 1]
  BY <1>2, SubSeqProperties
<1>4. SubSeq(s, k + 1, Len(s)) = e
  BY <1>1
<1>. HIDE DEF e
<1>5. k \in Nat /\ Len(s) \in Nat /\ k <= Len(s)
  OBVIOUS
<1>6. /\ Len(e) = Len(s) - k
      /\ \A i \in 1..(Len(s) - k) : e[i] = s[k + i]
  <2>1. Len(e) = Len(s) - k
    BY <1>1, <1>3, <1>5
  <2>2. ASSUME NEW i \in 1..(Len(s) - k) PROVE e[i] = s[k + i]
    <3>1. i \in 1..(y - x + 1) /\ x + i - 1 = k + i
      BY <1>1, <1>5
    <3>. QED BY <1>3, <3>1
  <2>. QED BY <2>1, <2>2
<1>. QED BY <1>3, <1>4, <1>6

\* Pruning leaves the restarts of the window, which are the last ones.
LEMMA PrunedIsWindow ==
  ASSUME NEW s \in Seq(Times), NEW h, InOrder(s), now \in Times, IsEndOf(h, s, TimeWindow)
  PROVE  /\ IsEndOf(Prune(h), s, TimeWindow)
         /\ Prune(h) \in Seq(Times)
         /\ Cardinality({i \in DOMAIN s : s[i] >= now - TimeWindow}) = Len(Prune(h))
<1>. DEFINE n == Len(s)
            cut == now - TimeWindow
            fresh == {i \in 1..Len(h) : h[i] >= cut}
<1>0. n \in Nat /\ cut \in Int /\ DOMAIN s = 1..n /\ \A i \in 1..n : s[i] \in Nat
  BY PolicyAssumption DEF Times
<1>1. PICK k \in 0..n : h = SubSeq(s, k + 1, n) /\ \A i \in 1..k : s[i] < cut
  BY DEF IsEndOf
<1>2. /\ h \in Seq(Times) /\ Len(h) = n - k
      /\ \A i \in 1..(n - k) : h[i] = s[k + i]
  BY <1>1, RestOfSeq
<1>. HIDE DEF n, cut
<1>3. \E m \in 0..n : /\ Prune(h) = SubSeq(s, m + 1, n)
                      /\ Prune(h) \in Seq(Times) /\ Len(Prune(h)) = n - m
                      /\ \A i \in 1..m : s[i] < cut
                      /\ \A i \in (m + 1)..n : s[i] >= cut
  <2>1. CASE fresh = {}
    <3>1. Prune(h) = <<>>
      BY <2>1 DEF Prune, cut
    <3>2. \A i \in 1..n : s[i] < cut
      <4>. SUFFICES ASSUME NEW i \in 1..n, i > k PROVE s[i] < cut
        BY <1>0, <1>1
      <4>1. i - k \in 1..(n - k) /\ k + (i - k) = i
        BY <1>0
      <4>2. h[i - k] = s[i] /\ i - k \in 1..Len(h)
        BY <4>1, <1>2
      <4>. QED BY <2>1, <4>2, <1>0
    <3>3. SubSeq(s, n + 1, n) = <<>>
      BY <1>0, SubSeqEmpty
    <3>4. n \in 0..n /\ Len(<<>>) = n - n /\ <<>> \in Seq(Times) /\ (n + 1)..n = {}
      BY <1>0
    <3>. QED BY <3>1, <3>2, <3>3, <3>4
  <2>2. CASE fresh # {}
    <3>1. fresh \subseteq Nat /\ fresh \subseteq 1..(n - k)
      BY <1>0, <1>2
    <3>2. PICK x \in fresh : \A y \in fresh : x <= y
      BY <2>2, <3>1, LeastNatural
    <3>3. Min(fresh) = x
      BY <3>1, <3>2 DEF Min
    <3>4. Prune(h) = SubSeq(h, x, Len(h))
      BY <2>2, <3>3 DEF Prune, cut
    <3>5. x \in 1..(n - k) /\ h[x] >= cut /\ \A i \in 1..(x - 1) : i \notin fresh
      BY <3>1, <3>2
    <3>. DEFINE m == k + x - 1
    <3>6. m \in 0..n /\ m + 1 \in 1..n /\ m + 1 = k + x
      BY <1>0, <3>5
    <3>7. SubSeq(h, x, Len(h)) = SubSeq(s, m + 1, n)
      <4>1. /\ k + 1 \in 1..n /\ n \in 1..n /\ x \in 1..(n - (k + 1) + 1)
            /\ n - k \in 1..(n - (k + 1) + 1) /\ Len(h) = n - k
            /\ (k + 1) + x - 1 = m + 1 /\ (k + 1) + (n - k) - 1 = n
        BY <1>0, <1>2, <3>5
      <4>. QED BY <1>0, <1>1, <4>1, SubSeqOfSubSeq DEF n
    <3>8. Prune(h) \in Seq(Times) /\ Len(Prune(h)) = n - m
      <4>1. m + 1 \in Int /\ n \in Int /\ \A i \in (m + 1)..n : s[i] \in Times
        BY <1>0, <3>6
      <4>2. SubSeq(s, m + 1, n) \in Seq(Times) /\ Len(SubSeq(s, m + 1, n)) = IF m + 1 <= n THEN n - (m + 1) + 1 ELSE 0
        BY <4>1, SubSeqProperties
      <4>. QED BY <1>0, <3>4, <3>6, <3>7, <4>2
    <3>9. \A i \in 1..m : s[i] < cut
      <4>. SUFFICES ASSUME NEW i \in 1..m, i > k PROVE s[i] < cut
        BY <1>0, <1>1, <3>6
      <4>1. i - k \in 1..(x - 1) /\ k + (i - k) = i /\ i - k \in 1..(n - k)
        BY <1>0, <3>5
      <4>2. h[i - k] = s[i] /\ i - k \in 1..Len(h) /\ i - k \notin fresh /\ s[i] \in Nat
        BY <4>1, <1>0, <1>2, <3>5, <3>6
      <4>. QED BY <4>2, <1>0
    <3>10. \A i \in (m + 1)..n : s[i] >= cut
      <4>1. s[m + 1] >= cut
        BY <1>2, <3>5, <3>6
      <4>2. TAKE i \in (m + 1)..n
      <4>3. m + 1 \in DOMAIN s /\ i \in DOMAIN s /\ m + 1 <= i
        BY <1>0, <3>6
      <4>4. s[m + 1] <= s[i]
        BY <4>3 DEF InOrder
      <4>5. s[m + 1] \in Nat /\ s[i] \in Nat
        BY <4>3, <1>0
      <4>. QED BY <4>1, <4>4, <4>5, <1>0
    <3>. QED BY <3>4, <3>6, <3>7, <3>8, <3>9, <3>10
  <2>. QED BY <2>1, <2>2
<1>4. PICK m \in 0..n : /\ Prune(h) = SubSeq(s, m + 1, n)
                        /\ Prune(h) \in Seq(Times) /\ Len(Prune(h)) = n - m
                        /\ \A i \in 1..m : s[i] < cut
                        /\ \A i \in (m + 1)..n : s[i] >= cut
  BY <1>3
<1>5. IsEndOf(Prune(h), s, TimeWindow)
  BY <1>4 DEF IsEndOf, n, cut
<1>6. {i \in DOMAIN s : s[i] >= cut} = (m + 1)..n
  <2>1. ASSUME NEW i \in 1..n PROVE s[i] >= cut <=> i \in (m + 1)..n
    <3>1. (i \in 1..m /\ i \notin (m + 1)..n) \/ i \in (m + 1)..n
      BY <1>0
    <3>2. s[i] \in Nat /\ cut \in Int
      BY <1>0
    <3>3. i \in 1..m => s[i] < cut
      BY <1>4
    <3>4. i \in (m + 1)..n => s[i] >= cut
      BY <1>4
    <3>. QED BY <3>1, <3>2, <3>3, <3>4
  <2>2. (m + 1)..n \subseteq 1..n
    BY <1>0
  <2>. QED BY <1>0, <2>1, <2>2
<1>7. Cardinality((m + 1)..n) = n - m
  <2>1. Cardinality((m + 1)..n) = IF m + 1 > n THEN 0 ELSE n - (m + 1) + 1
    <3>1. m + 1 \in Int /\ n \in Int
      BY <1>0
    <3>. QED BY <3>1, FS_Interval
  <2>. QED BY <1>0, <2>1
<1>. QED BY <1>4, <1>5, <1>6, <1>7 DEF cut

\* No agent is supervised twice, so there are no more places than agents.
LEMMA SupervisedFew ==
  ASSUME NEW s \in Seq(AgentIds), IsInjective(s)
  PROVE  Len(s) <= Cardinality(AgentIds)
<1>1. Len(s) \in Nat /\ DOMAIN s = 1..Len(s)
  OBVIOUS
<1>2. s \in Injection(1..Len(s), AgentIds)
  BY <1>1 DEF Injection, IsInjective
<1>3. IsFiniteSet(1..Len(s)) /\ Cardinality(1..Len(s)) = Len(s)
  BY <1>1, FS_Interval
<1>. QED
  BY <1>2, <1>3, AgentsAssumption, FS_Injection

\* What leaves supervision is gone from it, and the others keep their order.
LEMMA RemovedIsGone ==
  ASSUME agents \in Seq(AgentIds), IsInjective(agents), NEW a, RemoveAgent(a)
  PROVE  /\ agents' \in Seq(AgentIds) /\ IsInjective(agents')
         /\ \A i \in DOMAIN agents' : agents'[i] # a /\ \E j \in DOMAIN agents : agents'[i] = agents[j]
<1>. DEFINE n == Len(agents)
            at == {i \in 1..n : agents[i] = a}
<1>1. n \in Nat /\ DOMAIN agents = 1..n
  OBVIOUS
<1>2. CASE at = {}
  <2>1. agents' = agents
    BY <1>2 DEF RemoveAgent
  <2>. QED BY <1>1, <1>2, <2>1
<1>3. CASE at # {}
  <2>. DEFINE p == CHOOSE i \in at : TRUE
  <2>1. p \in 1..n /\ agents[p] = a
    BY <1>3
  <2>2. agents' = SubSeq(agents, 1, p - 1) \o SubSeq(agents, p + 1, n)
    BY <1>3 DEF RemoveAgent, RemoveAt
  <2>. HIDE DEF p, n
  <2>3. /\ SubSeq(agents, 1, p - 1) \in Seq(AgentIds) /\ Len(SubSeq(agents, 1, p - 1)) = p - 1
        /\ \A i \in 1..(p - 1) : SubSeq(agents, 1, p - 1)[i] = agents[i]
    <3>1. 1 \in Int /\ p - 1 \in Int /\ \A i \in 1..(p - 1) : agents[i] \in AgentIds
      BY <1>1, <2>1
    <3>2. /\ SubSeq(agents, 1, p - 1) \in Seq(AgentIds)
          /\ Len(SubSeq(agents, 1, p - 1)) = IF 1 <= p - 1 THEN p - 1 - 1 + 1 ELSE 0
          /\ \A i \in 1..(p - 1 - 1 + 1) : SubSeq(agents, 1, p - 1)[i] = agents[1 + i - 1]
      BY <3>1, SubSeqProperties
    <3>. QED BY <1>1, <2>1, <3>2
  <2>4. /\ SubSeq(agents, p + 1, n) \in Seq(AgentIds) /\ Len(SubSeq(agents, p + 1, n)) = n - p
        /\ \A i \in 1..(n - p) : SubSeq(agents, p + 1, n)[i] = agents[p + i]
    <3>1. p + 1 \in Int /\ n \in Int /\ \A i \in (p + 1)..n : agents[i] \in AgentIds
      BY <1>1, <2>1
    <3>2. /\ SubSeq(agents, p + 1, n) \in Seq(AgentIds)
          /\ Len(SubSeq(agents, p + 1, n)) = IF p + 1 <= n THEN n - (p + 1) + 1 ELSE 0
          /\ \A i \in 1..(n - (p + 1) + 1) : SubSeq(agents, p + 1, n)[i] = agents[p + 1 + i - 1]
      BY <3>1, SubSeqProperties
    <3>. QED BY <1>1, <2>1, <3>2
  <2>5. agents' \in Seq(AgentIds) /\ DOMAIN agents' = 1..(n - 1)
    BY <1>1, <2>1, <2>2, <2>3, <2>4
  <2>6. \A i \in 1..(n - 1) : agents'[i] = IF i < p THEN agents[i] ELSE agents[i + 1]
    <3>1. TAKE i \in 1..(n - 1)
    <3>2. CASE i < p
      BY <1>1, <2>1, <2>2, <2>3, <2>4, <3>2
    <3>3. CASE ~(i < p)
      <4>1. i - (p - 1) \in 1..(n - p) /\ p + (i - (p - 1)) = i + 1
        BY <1>1, <2>1, <3>3
      <4>2. agents'[i] = SubSeq(agents, p + 1, n)[i - (p - 1)]
        <5>1. \A s, u \in Seq(AgentIds) : \A j \in (Len(s) + 1)..(Len(s) + Len(u)) : (s \o u)[j] = u[j - Len(s)]
          OBVIOUS
        <5>2. i \in (p - 1 + 1)..(p - 1 + (n - p))
          BY <1>1, <2>1, <3>3
        <5>3. PICK s \in Seq(AgentIds), u \in Seq(AgentIds) :
                s = SubSeq(agents, 1, p - 1) /\ u = SubSeq(agents, p + 1, n)
          BY <2>3, <2>4
        <5>4. Len(s) = p - 1 /\ Len(u) = n - p /\ agents' = s \o u
          BY <2>2, <2>3, <2>4, <5>3
        <5>5. i \in (Len(s) + 1)..(Len(s) + Len(u))
          BY <5>2, <5>4
        <5>6. (s \o u)[i] = u[i - Len(s)]
          BY <5>1, <5>5, Zenon
        <5>. QED BY <5>3, <5>4, <5>6, Zenon
      <4>. QED BY <2>4, <3>3, <4>1, <4>2
    <3>. QED BY <3>2, <3>3
  <2>7. IsInjective(agents')
    <3>. SUFFICES ASSUME NEW i \in 1..(n - 1), NEW j \in 1..(n - 1), agents'[i] = agents'[j] PROVE i = j
      BY <2>5 DEF IsInjective
    <3>1. \A x, y \in 1..n : agents[x] = agents[y] => x = y
      BY <1>1 DEF IsInjective
    <3>2. i \in 1..n /\ i + 1 \in 1..n /\ j \in 1..n /\ j + 1 \in 1..n
      BY <1>1
    <3>. QED BY <1>1, <2>1, <2>6, <3>1, <3>2
  <2>8. \A i \in 1..(n - 1) : agents'[i] # a /\ \E j \in 1..n : agents'[i] = agents[j]
    <3>1. TAKE i \in 1..(n - 1)
    <3>2. \A x \in 1..n : agents[x] = a => x = p
      BY <1>1, <2>1 DEF IsInjective
    <3>3. i \in 1..n /\ i + 1 \in 1..n
      BY <1>1
    <3>4. CASE i < p
      BY <1>1, <2>1, <2>6, <3>2, <3>3, <3>4
    <3>5. CASE ~(i < p)
      <4>1. i + 1 # p
        BY <1>1, <2>1, <3>5
      <4>. QED BY <2>6, <3>2, <3>3, <3>5, <4>1
    <3>. QED BY <3>4, <3>5
  <2>. QED BY <1>1, <2>5, <2>7, <2>8
<1>. QED BY <1>2, <1>3

\* add_agent leaves an agent where it is, or puts it at the end.
LEMMA AddedOnce ==
  ASSUME agents \in Seq(AgentIds), IsInjective(agents), NEW a \in AgentIds, AddAgent(a)
  PROVE  /\ agents' \in Seq(AgentIds) /\ IsInjective(agents')
         /\ \A i \in DOMAIN agents' : agents'[i] = a \/ \E j \in DOMAIN agents : agents'[i] = agents[j]
<1>. DEFINE n == Len(agents)
<1>1. n \in Nat /\ DOMAIN agents = 1..n
  OBVIOUS
<1>2. CASE agents' = agents
  BY <1>2
<1>3. CASE agents' = Append(agents, a) /\ ~Contains(agents, a)
  <2>1. /\ agents' \in Seq(AgentIds) /\ DOMAIN agents' = 1..(n + 1)
        /\ agents'[n + 1] = a /\ \A i \in 1..n : agents'[i] = agents[i]
    BY <1>3
  <2>2. \A i \in 1..n : agents[i] # a
    BY <1>3 DEF Contains
  <2>. HIDE DEF n
  <2>3. IsInjective(agents')
    <3>. SUFFICES ASSUME NEW i \in 1..(n + 1), NEW j \in 1..(n + 1), agents'[i] = agents'[j] PROVE i = j
      BY <2>1 DEF IsInjective
    <3>1. \A x, y \in 1..n : agents[x] = agents[y] => x = y
      BY <1>1 DEF IsInjective
    <3>2. (i \in 1..n \/ i = n + 1) /\ (j \in 1..n \/ j = n + 1)
      BY <1>1
    <3>. QED BY <2>1, <2>2, <3>1, <3>2
  <2>4. \A i \in 1..(n + 1) : i \in 1..n \/ i = n + 1
    BY <1>1
  <2>. QED BY <1>1, <2>1, <2>3, <2>4
<1>. QED BY <1>2, <1>3 DEF AddAgent

\* How many agents one failure restarts; only all_for_one restarts any for
\* an agent it does not supervise.
LEMMA RestartsFew ==
  ASSUME TypeOK, NEW failed
  PROVE  LET n == Len(AgentsToRestart(failed)) IN
         /\ n \in Nat /\ DOMAIN AgentsToRestart(failed) = 1..n
         /\ n <= IF strategy = "one_for_one" THEN 1 ELSE Cardinality(AgentIds)
         /\ n > 0 /\ strategy # "all_for_one" => \E i \in DOMAIN agents : agents[i] = failed
<1>. DEFINE from == {i \in 1..Len(agents) : agents[i] = failed}
            list == AgentsToRestart(failed)
<1>1. Len(agents) \in Nat /\ DOMAIN agents = 1..Len(agents) /\ agents \in Seq(AgentIds)
  BY DEF TypeOK
<1>2. Len(agents) <= Cardinality(AgentIds) /\ Cardinality(AgentIds) \in Nat
  BY SupervisedFew, AgentsAssumption, FS_CardinalityType DEF TypeOK
<1>3. CASE strategy = "all_for_one"
  <2>1. list = agents
    BY <1>3 DEF AgentsToRestart
  <2>. QED BY <1>1, <1>2, <1>3, <2>1
<1>4. CASE strategy = "one_for_one"
  <2>1. list = IF from = {} THEN <<>> ELSE <<failed>>
    BY <1>4 DEF AgentsToRestart
  <2>2. CASE from = {}
    <3>1. list = <<>>
      BY <2>1, <2>2
    <3>. QED BY <1>1, <1>2, <1>4, <3>1
  <2>3. CASE from # {}
    <3>1. list = <<failed>> /\ Len(<<failed>>) = 1 /\ DOMAIN <<failed>> = 1..1
      BY <2>1, <2>3
    <3>2. \E i \in 1..Len(agents) : agents[i] = failed
      BY <2>3
    <3>. HIDE DEF list
    <3>. QED BY <1>1, <1>4, <3>1, <3>2 DEF list
  <2>. QED BY <2>2, <2>3
<1>5. CASE strategy = "rest_for_one"
  <2>1. CASE from = {}
    <3>1. list = <<>>
      BY <1>5, <2>1 DEF AgentsToRestart
    <3>. QED BY <1>1, <1>2, <1>5, <3>1
  <2>2. CASE from # {}
    <3>1. PICK p \in from : list = SubSeq(agents, p, Len(agents))
      BY <1>5, <2>2 DEF AgentsToRestart
    <3>2. p \in Int /\ Len(agents) \in Int /\ \A i \in p..Len(agents) : agents[i] \in AgentIds
      BY <1>1
    <3>3. list \in Seq(AgentIds) /\ Len(list) = IF p <= Len(agents) THEN Len(agents) - p + 1 ELSE 0
      BY <3>1, <3>2, SubSeqProperties
    <3>4. Len(list) \in Nat /\ DOMAIN list = 1..Len(list)
      BY <3>3
    <3>5. Len(list) <= Len(agents) /\ p \in 1..Len(agents) /\ agents[p] = failed
      BY <1>1, <3>3
    <3>6. Len(list) <= Cardinality(AgentIds)
      BY <1>1, <1>2, <3>4, <3>5
    <3>. HIDE DEF list
    <3>. QED BY <1>1, <1>5, <3>4, <3>5, <3>6 DEF list
  <2>. QED BY <2>1, <2>2
<1>. QED BY <1>3, <1>4, <1>5, StrategiesAssumption DEF TypeOK

\* An escalation prunes, and takes the agent from supervision.
LEMMA EscalateKeeps ==
  ASSUME SupervisorInv, NEW a \in AgentIds, Escalate(a), UNCHANGED <<strategy, now, registered, beat>>,
         approved' = "none"
  PROVE  SupervisorInv'
<1>. USE DEF SupervisorInv
<1>1. /\ IsEndOf(Prune(history), restarted, TimeWindow) /\ Prune(history) \in Seq(Times)
  BY PrunedIsWindow DEF TypeOK, HistoryInv
<1>2. /\ agents' \in Seq(AgentIds) /\ IsInjective(agents')
      /\ \A i \in DOMAIN agents' : agents'[i] # a /\ \E j \in DOMAIN agents : agents'[i] = agents[j]
  BY RemovedIsGone DEF TypeOK, Escalate
<1>3. history' = Prune(history) /\ dead' = dead \cup {a} /\ restarted' = restarted
  BY DEF Escalate
<1>4. TypeOK'
  BY <1>1, <1>2, <1>3 DEF TypeOK
<1>5. HistoryInv'
  BY <1>1, <1>3 DEF HistoryInv, InOrder, IsEndOf
<1>6. DeadInv'
  BY <1>2, <1>3 DEF DeadInv
<1>7. OvershootBounded'
  BY <1>3 DEF OvershootBounded, InWindow
<1>8. DeadStaysDown'
  BY <1>4, AgentsAssumption DEF TypeOK, DeadStaysDown
<1>. QED BY <1>4, <1>5, <1>6, <1>7, <1>8

\* A round of restarts is recorded at the end of both lists.
LEMMA RestartKeeps ==
  ASSUME SupervisorInv, NEW a \in AgentIds, RestartAgents(a), UNCHANGED <<strategy, now, registered, beat>>,
         approved' = "none" \/ (approved' = a /\ restarted' # restarted)
  PROVE  SupervisorInv'
<1>. USE DEF SupervisorInv
<1>. DEFINE r == Len(AgentsToRestart(a))
            new == [i \in 1..r |-> now]
            old == Prune(history)
            n == Len(restarted)
<1>1. /\ IsEndOf(old, restarted, TimeWindow) /\ old \in Seq(Times)
      /\ InWindow = Len(old)
  BY PrunedIsWindow DEF TypeOK, HistoryInv, InWindow
<1>2. /\ r \in Nat /\ DOMAIN AgentsToRestart(a) = 1..r
      /\ r <= IF strategy = "one_for_one" THEN 1 ELSE Cardinality(AgentIds)
      /\ r > 0 /\ strategy # "all_for_one" => \E i \in DOMAIN agents : agents[i] = a
  BY RestartsFew
<1>3. /\ Len(old) < MaxRestarts /\ history' = old \o new /\ restarted' = restarted \o new
      /\ UNCHANGED <<agents, dead>>
  BY <1>2 DEF RestartAgents
<1>. HIDE DEF r
<1>4. new \in Seq(Times) /\ Len(new) = r /\ \A i \in 1..r : new[i] = now
  BY <1>2 DEF TypeOK
<1>5. restarted \in Seq(Times) /\ n \in Nat /\ DOMAIN restarted = 1..n /\ now \in Nat /\ TimeWindow \in Nat
  BY PolicyAssumption DEF TypeOK, Times
<1>. HIDE DEF new, old
<1>6. /\ restarted' \in Seq(Times) /\ Len(restarted') = n + r /\ DOMAIN restarted' = 1..(n + r)
      /\ \A i \in 1..n : restarted'[i] = restarted[i]
      /\ \A i \in (n + 1)..(n + r) : restarted'[i] = now
  <2>1. /\ restarted \o new \in Seq(Times) /\ Len(restarted \o new) = n + r
        /\ \A i \in 1..n : (restarted \o new)[i] = restarted[i]
        /\ \A i \in (n + 1)..(n + r) : (restarted \o new)[i] = new[i - n] /\ i - n \in 1..r
    BY <1>2, <1>4, <1>5
  <2>. QED BY <1>3, <1>4, <2>1
<1>. HIDE DEF n
<1>7. TypeOK'
  <2>1. history' \in Seq(Times)
    BY <1>1, <1>3, <1>4
  <2>2. approved' \in AgentIds \cup {"none"}
    OBVIOUS
  <2>. QED BY <1>3, <1>6, <2>1, <2>2 DEF TypeOK
<1>8. HistoryInv'
  <2>1. \A i \in 1..(n + r) : i \in 1..n \/ i \in (n + 1)..(n + r)
    BY <1>2, <1>5
  <2>2. \A i \in 1..n : restarted[i] \in Nat /\ restarted[i] <= now
    <3>1. \A i \in 1..n : restarted[i] \in Times /\ restarted[i] <= now
      BY <1>5 DEF HistoryInv
    <3>. QED BY <3>1 DEF Times
  <2>3. \A i \in 1..(n + r) : restarted'[i] <= now
    BY <1>5, <1>6, <2>1, <2>2
  <2>4. InOrder(restarted')
    <3>. SUFFICES ASSUME NEW i \in 1..(n + r), NEW j \in 1..(n + r), i <= j PROVE restarted'[i] <= restarted'[j]
      BY <1>6 DEF InOrder
    <3>1. CASE j \in 1..n
      <4>1. i \in 1..n
        BY <1>5, <3>1
      <4>. QED BY <1>5, <1>6, <3>1, <4>1 DEF HistoryInv, InOrder
    <3>2. CASE j \in (n + 1)..(n + r)
      BY <1>6, <2>3, <3>2
    <3>. QED BY <2>1, <3>1, <3>2
  <2>5. IsEndOf(old \o new, restarted \o new, TimeWindow)
    <3>1. PICK k \in 0..n : old = SubSeq(restarted, k + 1, n) /\ \A i \in 1..k : restarted[i] < now - TimeWindow
      BY <1>1 DEF IsEndOf, n
    <3>. DEFINE s == restarted \o new
    <3>2. s \in Seq(Times) /\ Len(s) = n + r
      BY <1>3, <1>6
    <3>3. \A i \in 1..k : i \in 1..n /\ s[i] = restarted[i]
      BY <1>3, <1>5, <1>6
    <3>4. SubSeq(s, k + 1, n + r) = old \o new
      <4>. DEFINE left == SubSeq(s, k + 1, n + r)
                  right == old \o new
      <4>1. /\ Len(old) = n - k /\ \A i \in 1..(n - k) : old[i] = restarted[k + i]
        <5>1. k + 1 \in Int /\ n \in Int /\ \A i \in (k + 1)..n : restarted[i] \in Times
          BY <1>5
        <5>2. /\ Len(old) = IF k + 1 <= n THEN n - (k + 1) + 1 ELSE 0
              /\ \A i \in 1..(n - (k + 1) + 1) : old[i] = restarted[k + 1 + i - 1]
          BY <3>1, <5>1, SubSeqProperties
        <5>. QED BY <1>5, <5>2
      <4>2. /\ left \in Seq(Times) /\ Len(left) = n + r - k
            /\ \A i \in 1..(n + r - k) : left[i] = s[k + i]
        <5>1. k \in 0..Len(s)
          BY <1>2, <1>5, <3>2
        <5>. HIDE DEF s
        <5>2. left = SubSeq(s, k + 1, Len(s))
          BY <3>2
        <5>3. /\ SubSeq(s, k + 1, Len(s)) \in Seq(Times) /\ Len(SubSeq(s, k + 1, Len(s))) = Len(s) - k
              /\ \A i \in 1..(Len(s) - k) : SubSeq(s, k + 1, Len(s))[i] = s[k + i]
          BY <3>2, <5>1, RestOfSeq
        <5>. HIDE DEF left
        <5>4. left \in Seq(Times) /\ Len(left) = Len(s) - k /\ \A i \in 1..(Len(s) - k) : left[i] = s[k + i]
          BY <5>2, <5>3, Zenon
        <5>5. n \in Int /\ r \in Int /\ k \in Int
          BY <1>2, <1>5
        <5>. QED BY <3>2, <5>4, <5>5
      <4>3. /\ right \in Seq(Times) /\ Len(right) = n - k + r
            /\ \A i \in 1..(n - k) : right[i] = old[i]
            /\ \A i \in (n - k + 1)..(n - k + r) : right[i] = new[i - (n - k)] /\ i - (n - k) \in 1..r
        <5>1. \A u, v \in Seq(Times) :
                /\ u \o v \in Seq(Times) /\ Len(u \o v) = Len(u) + Len(v)
                /\ \A i \in 1..Len(u) : (u \o v)[i] = u[i]
                /\ \A i \in (Len(u) + 1)..(Len(u) + Len(v)) : (u \o v)[i] = v[i - Len(u)]
          OBVIOUS
        <5>2. \A i \in (n - k + 1)..(n - k + r) : i - (n - k) \in 1..r
          BY <1>2, <1>5
        <5>3. /\ right \in Seq(Times) /\ Len(right) = Len(old) + Len(new)
              /\ \A i \in 1..Len(old) : right[i] = old[i]
              /\ \A i \in (Len(old) + 1)..(Len(old) + Len(new)) : right[i] = new[i - Len(old)]
          BY <1>1, <1>4, <5>1, Zenon
        <5>. HIDE DEF right
        <5>. QED BY <1>4, <4>1, <5>2, <5>3
      <4>4. \A i \in 1..(n + r) : s[i] = restarted'[i]
        BY <1>3
      <4>. HIDE DEF left, right, s
      <4>5. ASSUME NEW i \in 1..(n + r - k) PROVE left[i] = right[i]
        <5>1. k + i \in 1..(n + r)
          BY <1>2, <1>5
        <5>2. left[i] = restarted'[k + i]
          BY <4>2, <4>4, <5>1
        <5>3. CASE i \in 1..(n - k)
          <6>1. k + i \in 1..n
            BY <1>5, <5>3
          <6>. QED BY <1>6, <4>1, <4>3, <5>2, <5>3, <6>1
        <5>4. CASE i \in (n - k + 1)..(n - k + r)
          <6>1. k + i \in (n + 1)..(n + r)
            BY <1>2, <1>5, <5>4
          <6>. QED BY <1>4, <1>6, <4>3, <5>2, <5>4, <6>1
        <5>. QED BY <1>2, <1>5, <5>3, <5>4
      <4>6. Len(left) = Len(right) /\ Len(left) = n + r - k
        BY <1>2, <1>5, <4>2, <4>3
      <4>. QED BY <4>2, <4>3, <4>5, <4>6 DEF left, right
    <3>5. k \in 0..(n + r)
      BY <1>2, <1>5
    <3>. HIDE DEF s
    <3>6. \A i \in 1..k : s[i] < now - TimeWindow
      BY <3>1, <3>3
    <3>. QED BY <3>2, <3>4, <3>5, <3>6 DEF IsEndOf, s
  <2>. QED BY <1>3, <1>6, <2>3, <2>4, <2>5 DEF HistoryInv, IsEndOf
<1>9. DeadInv'
  BY <1>3 DEF DeadInv
<1>10. OvershootBounded'
  <2>. DEFINE W == {i \in 1..n : restarted[i] >= now - TimeWindow}
  <2>1. {i \in DOMAIN restarted : restarted[i] >= now - TimeWindow}' \subseteq W \cup (n + 1)..(n + r)
    <3>1. \A i \in 1..(n + r) : i \in 1..n \/ i \in (n + 1)..(n + r)
      BY <1>2, <1>5
    <3>. QED BY <1>6, <3>1
  <2>2. IsFiniteSet(W) /\ Cardinality(W) = Len(old) /\ Len(old) \in Nat
    <3>1. W \subseteq 1..n /\ IsFiniteSet(1..n)
      BY <1>5, FS_Interval
    <3>2. Cardinality(W) = InWindow
      BY <1>5 DEF InWindow
    <3>3. Len(old) \in Nat
      BY <1>1
    <3>. HIDE DEF W
    <3>. QED BY <1>1, <3>1, <3>2, <3>3, FS_Subset
  <2>3. IsFiniteSet((n + 1)..(n + r)) /\ Cardinality((n + 1)..(n + r)) = r
    <3>1. n + 1 \in Int /\ n + r \in Int
      BY <1>2, <1>5
    <3>2. /\ IsFiniteSet((n + 1)..(n + r))
          /\ Cardinality((n + 1)..(n + r)) = IF n + 1 > n + r THEN 0 ELSE (n + r) - (n + 1) + 1
      BY <3>1, FS_Interval
    <3>. QED BY <1>2, <1>5, <3>2
  <2>4. W \cap (n + 1)..(n + r) = {}
    BY <1>2, <1>5
  <2>. HIDE DEF W
  <2>5. /\ IsFiniteSet(W \cup (n + 1)..(n + r))
        /\ Cardinality(W \cup (n + 1)..(n + r)) = Len(old) + r
    <3>1. Cardinality(W \cap (n + 1)..(n + r)) = 0
      BY <2>4, FS_EmptySet
    <3>2. Cardinality(W \cup (n + 1)..(n + r))
            = Cardinality(W) + Cardinality((n + 1)..(n + r)) - Cardinality(W \cap (n + 1)..(n + r))
      BY <2>2, <2>3, FS_Union
    <3>3. IsFiniteSet(W \cup (n + 1)..(n + r))
      BY <2>2, <2>3, FS_Union
    <3>. QED BY <1>2, <2>2, <2>3, <3>1, <3>2, <3>3
  <2>6. InWindow' <= Len(old) + r /\ InWindow' \in Nat
    BY <2>1, <2>5, FS_Subset, FS_CardinalityType DEF InWindow
  <2>7. MaxRestarts \in Nat /\ MaxRestarts # 0 /\ Len(old) <= MaxRestarts - 1 /\ Cardinality(AgentIds) \in Nat
    BY <1>3, <2>2, PolicyAssumption, AgentsAssumption, FS_CardinalityType
  <2>8. CASE strategy = "one_for_one"
    <3>1. InWindow' <= MaxRestarts
      BY <1>2, <2>2, <2>6, <2>7, <2>8
    <3>. QED BY <2>7, <2>8, <3>1 DEF OvershootBounded
  <2>9. CASE strategy # "one_for_one"
    <3>1. InWindow' <= MaxRestarts - 1 + Cardinality(AgentIds)
      BY <1>2, <2>2, <2>6, <2>7, <2>9
    <3>. QED BY <2>7, <2>9, <3>1 DEF OvershootBounded
  <2>. QED BY <2>8, <2>9
<1>11. DeadStaysDown'
  <2>. SUFFICES ASSUME strategy # "all_for_one", approved' = a, restarted' # restarted PROVE a \notin dead
    BY <1>3, <1>7, AgentsAssumption DEF DeadStaysDown, TypeOK
  <2>1. r > 0
    <3>. SUFFICES ASSUME r = 0 PROVE restarted' = restarted
      BY <1>2
    <3>1. Len(restarted') = n /\ Len(restarted) = n /\ \A i \in 1..n : restarted'[i] = restarted[i]
      BY <1>5, <1>6 DEF n
    <3>. QED BY <1>5, <1>6, <3>1
  <2>. QED BY <1>2, <2>1 DEF DeadInv
<1>. QED BY <1>7, <1>8, <1>9, <1>10, <1>11

\* The other steps change who is supervised, or let time pass.
LEMMA SupervisionKept == SupervisorInv /\ [SupervisorNext]_supervisorVars => SupervisorInv'
<1>. SUFFICES ASSUME SupervisorInv, [SupervisorNext]_supervisorVars PROVE SupervisorInv'
  OBVIOUS
<1>. USE DEF SupervisorInv
<1>0. "none" \notin AgentIds /\ (approved' = "none" => DeadStaysDown' \/ ~(dead' \subseteq AgentIds))
  BY AgentsAssumption DEF DeadStaysDown
<1>1. ASSUME NEW a \in AgentIds, SpawnAgent(a) PROVE SupervisorInv'
  <2>. USE <1>1 DEF SpawnAgent
  <2>1. /\ agents' \in Seq(AgentIds) /\ IsInjective(agents')
        /\ \A i \in DOMAIN agents' : agents'[i] = a \/ \E j \in DOMAIN agents : agents'[i] = agents[j]
    BY AddedOnce DEF TypeOK
  <2>2. TypeOK'
    BY <2>1 DEF TypeOK
  <2>3. HistoryInv' /\ OvershootBounded'
    BY DEF HistoryInv, InOrder, IsEndOf, OvershootBounded, InWindow
  <2>4. DeadInv'
    BY <2>1 DEF DeadInv
  <2>. QED BY <1>0, <2>2, <2>3, <2>4 DEF TypeOK
<1>2. ASSUME NEW a \in AgentIds, Deregister(a) PROVE SupervisorInv'
  <2>. USE <1>2 DEF Deregister
  <2>1. /\ agents' \in Seq(AgentIds) /\ IsInjective(agents')
        /\ \A i \in DOMAIN agents' : agents'[i] # a /\ \E j \in DOMAIN agents : agents'[i] = agents[j]
    BY RemovedIsGone DEF TypeOK
  <2>2. TypeOK'
    BY <2>1 DEF TypeOK
  <2>3. HistoryInv' /\ OvershootBounded'
    BY DEF HistoryInv, InOrder, IsEndOf, OvershootBounded, InWindow
  <2>4. DeadInv'
    BY <2>1 DEF DeadInv
  <2>. QED BY <1>0, <2>2, <2>3, <2>4 DEF TypeOK
<1>3. ASSUME NEW a \in AgentIds, Heartbeat(a) PROVE SupervisorInv'
  <2>. USE <1>3 DEF Heartbeat
  <2>1. TypeOK'
    BY DEF TypeOK
  <2>2. HistoryInv' /\ OvershootBounded' /\ DeadInv'
    BY DEF HistoryInv, InOrder, IsEndOf, OvershootBounded, InWindow, DeadInv
  <2>. QED BY <1>0, <2>1, <2>2 DEF TypeOK
<1>4. ASSUME NEW a \in AgentIds, MonitorAgent(a) \/ ReportFailure(a) PROVE SupervisorInv'
  <2>1. CASE Escalate(a)
    <3>1. approved' = "none"
      BY <1>4, <2>1 DEF MonitorAgent, ReportFailure, Escalate
    <3>. QED BY <1>4, <2>1, <3>1, EscalateKeeps DEF MonitorAgent, ReportFailure
  <2>2. CASE RestartAgents(a)
    <3>1. approved' = "none" \/ (approved' = a /\ restarted' # restarted)
      BY <1>4 DEF MonitorAgent, ReportFailure
    <3>. QED BY <1>4, <2>2, <3>1, RestartKeeps DEF MonitorAgent, ReportFailure
  <2>. QED BY <1>4, <2>1, <2>2 DEF MonitorAgent, ReportFailure, HandleFailure
<1>5. CASE Tick
  <2>. USE <1>5 DEF Tick
  <2>1. TypeOK' /\ now \in Nat /\ now' = now + 1 /\ TimeWindow \in Nat
    BY PolicyAssumption DEF TypeOK, Times
  <2>2. \A i \in DOMAIN restarted : restarted[i] \in Nat
    <3>1. \A i \in DOMAIN restarted : restarted[i] \in Times
      BY DEF TypeOK
    <3>. QED BY <3>1 DEF Times
  <2>3. HistoryInv'
    <3>1. InOrder(restarted')
      BY DEF HistoryInv, InOrder
    <3>2. \A i \in DOMAIN restarted : restarted[i] <= now'
      BY <2>1, <2>2 DEF HistoryInv
    <3>3. IsEndOf(history, restarted, TimeWindow)'
      <4>1. PICK k \in 0..Len(restarted) : /\ history = SubSeq(restarted, k + 1, Len(restarted))
                                           /\ \A i \in 1..k : restarted[i] < now - TimeWindow
        BY DEF HistoryInv, IsEndOf
      <4>2. \A i \in 1..k : restarted[i] < now' - TimeWindow
        <5>1. \A i \in 1..k : i \in DOMAIN restarted
          BY DEF TypeOK
        <5>. QED BY <2>1, <2>2, <4>1, <5>1
      <4>. QED BY <4>1, <4>2 DEF IsEndOf
    <3>. QED BY <3>1, <3>2, <3>3 DEF HistoryInv
  <2>4. DeadInv'
    BY DEF DeadInv
  <2>5. OvershootBounded'
    <3>. DEFINE W == {i \in DOMAIN restarted : restarted[i] >= now - TimeWindow}
                V == {i \in DOMAIN restarted : restarted[i] >= now' - TimeWindow}
    <3>1. V \subseteq W
      BY <2>1, <2>2
    <3>2. IsFiniteSet(W)
      <4>1. W \subseteq 1..Len(restarted) /\ Len(restarted) \in Nat
        BY DEF TypeOK
      <4>2. IsFiniteSet(1..Len(restarted))
        BY <4>1, FS_Interval
      <4>. QED BY <4>1, <4>2, FS_Subset
    <3>3. InWindow = Cardinality(W) /\ InWindow' = Cardinality(V)
      BY DEF InWindow
    <3>. HIDE DEF W, V
    <3>4. InWindow' <= InWindow /\ InWindow' \in Nat /\ InWindow \in Nat
      BY <3>1, <3>2, <3>3, FS_Subset, FS_CardinalityType
    <3>5. Cardinality(AgentIds) \in Nat /\ MaxRestarts \in Nat
      BY AgentsAssumption, PolicyAssumption, FS_CardinalityType
    <3>. QED BY <3>4, <3>5 DEF OvershootBounded
  <2>. QED BY <1>0, <2>1, <2>3, <2>4, <2>5 DEF TypeOK
<1>6. CASE UNCHANGED supervisorVars
  BY <1>6 DEF supervisorVars, TypeOK, HistoryInv, InOrder, IsEndOf, DeadInv, OvershootBounded, InWindow,
     DeadStaysDown
<1>. QED BY <1>1, <1>2, <1>3, <1>4, <1>5, <1>6 DEF SupervisorNext

(***************************************************************************)
(* However agents fail, are spawned, removed or silent, and whatever the   *)
(* policy: handle_failure restarts no more than max_restarts agents in any *)
(* time_window, but for one round of a strategy that restarts several, and *)
(* monitor_agents reports no dead agent unless it restarts all for one.    *)
(***************************************************************************)
THEOREM SupervisionStaysSound == SupervisorSpec => []SupervisionSound
<1>1. SupervisorInit => SupervisorInv
  <2>. SUFFICES ASSUME SupervisorInit PROVE SupervisorInv
    OBVIOUS
  <2>. USE PolicyAssumption DEF SupervisorInit
  <2>1. TypeOK /\ DeadInv
    BY DEF TypeOK, DeadInv, IsInjective, Times
  <2>2. HistoryInv
    <3>1. SubSeq(<<>>, 0 + 1, Len(<<>>)) = <<>> /\ Len(<<>>) = 0
      BY SubSeqEmpty
    <3>. QED BY <3>1 DEF HistoryInv, InOrder, IsEndOf
  <2>3. OvershootBounded
    <3>1. InWindow = 0
      <4>1. {i \in DOMAIN restarted : restarted[i] >= now - TimeWindow} = {}
        OBVIOUS
      <4>. QED BY <4>1, FS_EmptySet DEF InWindow
    <3>2. Cardinality(AgentIds) \in Nat
      BY AgentsAssumption, FS_CardinalityType
    <3>. QED BY <3>1, <3>2 DEF OvershootBounded
  <2>4. DeadStaysDown
    BY DEF DeadStaysDown
  <2>. QED BY <2>1, <2>2, <2>3, <2>4 DEF SupervisorInv
<1>2. SupervisorInv => SupervisionSound
  BY DEF SupervisorInv, SupervisionSound
<1>. QED BY <1>1, <1>2, SupervisionKept, PTL DEF SupervisorSpec

-----------------------------------------------------------------------------
(* The mission runner *)

\* What holds of zero and, with a number, of the next one, holds of all.
LEMMA NatSteps ==
  ASSUME NEW S, 0 \in S, \A n \in Nat : n \in S => n + 1 \in S
  PROVE  \A n \in Nat : n \in S
<1>. DEFINE missing == {n \in Nat : n \notin S}
<1>1. SUFFICES ASSUME missing # {} PROVE FALSE
  OBVIOUS
<1>2. PICK m \in missing : \A k \in missing : m <= k
  BY <1>1, LeastNatural
<1>3. m # 0 /\ m - 1 \in Nat /\ (m - 1) + 1 = m /\ ~(m <= m - 1)
  BY <1>2
<1>4. m - 1 \in S
  BY <1>2, <1>3
<1>. QED BY <1>2, <1>3, <1>4

\* What a round has visited after looking at task t.
Looked(acc, t) == IF dependsOn[t] \subseteq acc THEN acc \cup {t} ELSE acc

\* The accumulators of a round.
RoundOf(f, seen, n) ==
  /\ f = [i \in 0..n |-> f[i]]
  /\ \A i \in 0..n : f[i] = IF i = 0 THEN seen ELSE Looked(f[i - 1], FileOrder[i])

LEMMA RoundSteps ==
  ASSUME NEW seen
  PROVE  \E f : RoundOf(f, seen, Len(FileOrder)) /\ Round(seen) = f[Len(FileOrder)]
<1>1. PICK len \in Nat : len = Len(FileOrder)
  BY FileOrderAssumption
<1>. DEFINE S == {n \in Nat : \E f : RoundOf(f, seen, n)}
<1>2. 0 \in S
  <2>. DEFINE f == [i \in 0..0 |-> seen]
  <2>1. RoundOf(f, seen, 0)
    BY DEF RoundOf
  <2>. QED BY <2>1
<1>3. ASSUME NEW n \in Nat, n \in S PROVE n + 1 \in S
  <2>1. PICK f : RoundOf(f, seen, n)
    BY <1>3
  <2>. DEFINE x == Looked(f[n], FileOrder[n + 1])
              g == [i \in 0..(n + 1) |-> IF i = n + 1 THEN x ELSE f[i]]
  <2>2. /\ \A i \in 0..n : g[i] = f[i] /\ i # n + 1 /\ i \in 0..(n + 1)
        /\ g[n + 1] = Looked(g[n], FileOrder[n + 1])
        /\ \A i \in 0..(n + 1) : i # n + 1 => i \in 0..n
    OBVIOUS
  <2>3. g = [i \in 0..(n + 1) |-> g[i]]
    OBVIOUS
  <2>. HIDE DEF g
  <2>4. ASSUME NEW i \in 0..(n + 1)
        PROVE  g[i] = IF i = 0 THEN seen ELSE Looked(g[i - 1], FileOrder[i])
    <3>1. CASE i = n + 1
      <4>1. i # 0 /\ i - 1 = n
        BY <3>1
      <4>. QED BY <2>2, <3>1, <4>1
    <3>2. CASE i # n + 1
      <4>1. i \in 0..n /\ (i # 0 => i - 1 \in 0..n)
        BY <3>2
      <4>2. f[i] = IF i = 0 THEN seen ELSE Looked(f[i - 1], FileOrder[i])
        BY <2>1, <4>1 DEF RoundOf
      <4>. QED BY <2>2, <4>1, <4>2
    <3>. QED BY <3>1, <3>2
  <2>5. RoundOf(g, seen, n + 1)
    BY <2>3, <2>4 DEF RoundOf
  <2>. QED BY <2>5
<1>. HIDE DEF S
<1>4. len \in S
  BY <1>2, <1>3, NatSteps
<1>5. PICK f : RoundOf(f, seen, len)
  BY <1>4 DEF S
<1>. DEFINE P(h) == h = [i \in 0..len |-> IF i = 0 THEN seen
                                          ELSE IF dependsOn[FileOrder[i]] \subseteq h[i - 1]
                                               THEN h[i - 1] \cup {FileOrder[i]} ELSE h[i - 1]]
            h0 == CHOOSE h : P(h)
<1>6. P(f)
  BY <1>5 DEF RoundOf, Looked
<1>7. Round(seen) = h0[len]
  BY <1>1 DEF Round
<1>8. P(h0)
  BY <1>6
<1>9. RoundOf(h0, seen, len)
  <2>. HIDE DEF h0
  <2>. QED BY <1>8 DEF RoundOf, Looked
<1>. QED BY <1>1, <1>7, <1>9

\* Nobody in V waits for somebody outside of it.
Closed(V) == \A t \in V : dependsOn[t] \subseteq V

\* Nobody in V waits in a circle.
Grounded(V) == \A S \in SUBSET V : S # {} => \E t \in S : dependsOn[t] \cap S = {}

LEMMA LookedGood ==
  ASSUME NEW V \in SUBSET RunTasks, Closed(V), Grounded(V), NEW u \in RunTasks
  PROVE  /\ V \subseteq Looked(V, u) /\ Looked(V, u) \subseteq RunTasks
         /\ Closed(Looked(V, u)) /\ Grounded(Looked(V, u))
<1>1. CASE ~(dependsOn[u] \subseteq V) \/ u \in V
  <2>1. Looked(V, u) = V
    BY <1>1 DEF Looked
  <2>. QED BY <2>1
<1>2. CASE dependsOn[u] \subseteq V /\ u \notin V
  <2>1. Looked(V, u) = V \cup {u}
    BY <1>2 DEF Looked
  <2>2. Closed(V \cup {u})
    BY <1>2 DEF Closed
  <2>3. ASSUME NEW S \in SUBSET (V \cup {u}), S # {}
        PROVE  \E t \in S : dependsOn[t] \cap S = {}
    <3>1. CASE S \cap V = {}
      <4>1. u \in S /\ dependsOn[u] \cap S = {}
        BY <1>2, <2>3, <3>1
      <4>. QED BY <4>1
    <3>2. CASE S \cap V # {}
      <4>1. PICK t \in S \cap V : dependsOn[t] \cap (S \cap V) = {}
        BY <3>2 DEF Grounded
      <4>2. dependsOn[t] \subseteq V
        BY <4>1 DEF Closed
      <4>. QED BY <4>1, <4>2
    <3>. QED BY <3>1, <3>2
  <2>4. Grounded(V \cup {u})
    BY <2>3 DEF Grounded
  <2>. QED BY <2>1, <2>2, <2>4
<1>. QED BY <1>1, <1>2

(***************************************************************************)
(* A round keeps what it has, adds only tasks that wait for nobody else,   *)
(* and when it adds nothing everyone left waits for somebody left.         *)
(***************************************************************************)
LEMMA RoundGood ==
  ASSUME NEW V \in SUBSET RunTasks, Closed(V), Grounded(V)
  PROVE  /\ Round(V) \subseteq RunTasks /\ Closed(Round(V)) /\ Grounded(Round(V))
         /\ Round(V) = V => \A t \in RunTasks \ V : ~(dependsOn[t] \subseteq V)
<1>1. PICK len \in Nat : len = Len(FileOrder)
  BY FileOrderAssumption
<1>2. DOMAIN FileOrder = 1..len /\ \A i \in 1..len : FileOrder[i] \in RunTasks
  BY <1>1, FileOrderAssumption DEF RunTasks, Range
<1>3. PICK f : RoundOf(f, V, len) /\ Round(V) = f[len]
  BY <1>1, RoundSteps
<1>. DEFINE Good(i) == /\ f[i] \in SUBSET RunTasks /\ Closed(f[i]) /\ Grounded(f[i])
                       /\ V \subseteq f[i]
                       /\ \A j \in 0..i : f[j] \subseteq f[i]
            S == {i \in Nat : i <= len => Good(i)}
<1>4. 0 \in S
  <2>0. 0 \in 0..len
    OBVIOUS
  <2>1. f[0] = V
    BY <1>3, <2>0 DEF RoundOf
  <2>2. \A j \in 0..0 : j = 0
    OBVIOUS
  <2>. QED BY <2>1, <2>2
<1>5. ASSUME NEW i \in Nat, i \in S PROVE i + 1 \in S
  <2>1. SUFFICES ASSUME i + 1 <= len PROVE Good(i + 1)
    OBVIOUS
  <2>2. Good(i)
    BY <1>5, <2>1
  <2>3. i + 1 \in 0..len /\ i + 1 # 0 /\ (i + 1) - 1 = i /\ i + 1 \in 1..len
    BY <2>1
  <2>4. f[i + 1] = Looked(f[i], FileOrder[i + 1])
    BY <1>3, <2>3 DEF RoundOf
  <2>5. /\ f[i] \subseteq f[i + 1] /\ f[i + 1] \subseteq RunTasks
        /\ Closed(f[i + 1]) /\ Grounded(f[i + 1])
    BY <1>2, <2>2, <2>3, <2>4, LookedGood
  <2>6. \A j \in 0..(i + 1) : j \in 0..i \/ j = i + 1
    OBVIOUS
  <2>. QED BY <2>2, <2>5, <2>6
<1>. HIDE DEF S
<1>6. len \in S
  BY <1>4, <1>5, NatSteps
<1>7. Good(len)
  BY <1>6 DEF S
<1>8. ASSUME Round(V) = V, NEW t \in RunTasks \ V, dependsOn[t] \subseteq V PROVE FALSE
  <2>1. PICK i \in 1..len : t = FileOrder[i]
    BY <1>2 DEF RunTasks, Range
  <2>2. i \in 0..len /\ i # 0 /\ i - 1 \in 0..len /\ i - 1 \in Nat /\ i - 1 <= len
    BY <2>1
  <2>3. f[i] = Looked(f[i - 1], t)
    BY <1>3, <2>1, <2>2 DEF RoundOf
  <2>4. i - 1 \in S
    BY <1>4, <1>5, <2>2, NatSteps
  <2>5. V \subseteq f[i - 1]
    BY <2>2, <2>4 DEF S
  <2>6. t \in f[i]
    BY <1>8, <2>3, <2>5 DEF Looked
  <2>7. f[i] \subseteq V
    BY <1>3, <1>7, <1>8, <2>2
  <2>. QED BY <1>8, <2>6, <2>7
<1>. QED BY <1>3, <1>7, <1>8

\* RemoveAt closes the gap.
LEMMA RemovedAt ==
  ASSUME NEW T, NEW s \in Seq(T), NEW k \in 1..Len(s)
  PROVE  /\ RemoveAt(s, k) \in Seq(T) /\ Len(RemoveAt(s, k)) = Len(s) - 1
         /\ \A i \in 1..(Len(s) - 1) : RemoveAt(s, k)[i] = IF i < k THEN s[i] ELSE s[i + 1]
<1>1. PICK x \in Int, y \in Int, n \in Nat : x = k - 1 /\ y = k + 1 /\ n = Len(s)
  OBVIOUS
<1>2. k \in Nat /\ 1 <= k /\ k <= n /\ DOMAIN s = 1..n /\ \A i \in 1..n : s[i] \in T
  BY <1>1
<1>. DEFINE a == SubSeq(s, 1, x)
            b == SubSeq(s, y, n)
<1>3. a \in Seq(T) /\ Len(a) = k - 1 /\ \A i \in 1..(k - 1) : a[i] = s[i]
  <2>1. \A i \in 1..x : s[i] \in T
    BY <1>1, <1>2
  <2>2. /\ a \in Seq(T) /\ Len(a) = IF 1 <= x THEN x - 1 + 1 ELSE 0
        /\ \A i \in 1..(x - 1 + 1) : a[i] = s[1 + i - 1]
    BY <2>1, SubSeqProperties
  <2>. HIDE DEF a
  <2>3. Len(a) = k - 1
    BY <1>1, <1>2, <2>2
  <2>4. ASSUME NEW i \in 1..(k - 1) PROVE a[i] = s[i]
    <3>1. i \in 1..(x - 1 + 1) /\ 1 + i - 1 = i
      BY <1>1, <1>2
    <3>. QED BY <2>2, <3>1
  <2>. QED BY <2>2, <2>3, <2>4
<1>4. b \in Seq(T) /\ Len(b) = n - k /\ \A i \in 1..(n - k) : b[i] = s[k + i]
  <2>1. \A i \in y..n : s[i] \in T
    BY <1>1, <1>2
  <2>2. /\ b \in Seq(T) /\ Len(b) = IF y <= n THEN n - y + 1 ELSE 0
        /\ \A i \in 1..(n - y + 1) : b[i] = s[y + i - 1]
    BY <2>1, SubSeqProperties
  <2>. HIDE DEF b
  <2>3. Len(b) = n - k
    BY <1>1, <1>2, <2>2
  <2>4. ASSUME NEW i \in 1..(n - k) PROVE b[i] = s[k + i]
    <3>1. i \in 1..(n - y + 1) /\ y + i - 1 = k + i
      BY <1>1, <1>2
    <3>. QED BY <2>2, <3>1
  <2>. QED BY <2>2, <2>3, <2>4
<1>5. RemoveAt(s, k) = a \o b
  BY <1>1 DEF RemoveAt
<1>. HIDE DEF a, b
<1>6. /\ a \o b \in Seq(T) /\ Len(a \o b) = Len(a) + Len(b)
      /\ \A i \in 1..(Len(a) + Len(b)) : (a \o b)[i] = IF i <= Len(a) THEN a[i] ELSE b[i - Len(a)]
  BY <1>3, <1>4, ConcatProperties
<1>7. Len(a \o b) = Len(s) - 1
  BY <1>1, <1>2, <1>3, <1>4, <1>6
<1>8. ASSUME NEW i \in 1..(Len(s) - 1) PROVE (a \o b)[i] = IF i < k THEN s[i] ELSE s[i + 1]
  <2>1. (a \o b)[i] = IF i <= k - 1 THEN a[i] ELSE b[i - (k - 1)]
    BY <1>1, <1>2, <1>3, <1>4, <1>6
  <2>2. CASE i < k
    <3>1. i \in 1..(k - 1)
      BY <1>1, <1>2, <2>2
    <3>. QED BY <1>2, <1>3, <2>1, <2>2, <3>1
  <2>3. CASE ~(i < k)
    <3>1. i - (k - 1) \in 1..(n - k) /\ k + (i - (k - 1)) = i + 1 /\ ~(i <= k - 1)
      BY <1>1, <1>2, <2>3
    <3>. QED BY <1>4, <2>1, <2>3, <3>1
  <2>. QED BY <2>2, <2>3
<1>. QED BY <1>5, <1>6, <1>7, <1>8

\* What is removed from a list without repetitions is gone, and nothing else.
LEMMA RemovedOnce ==
  ASSUME NEW T, NEW s \in Seq(T), NEW k \in 1..Len(s), IsInjective(s)
  PROVE  /\ RemoveAt(s, k) \in Seq(T) /\ Len(RemoveAt(s, k)) = Len(s) - 1
         /\ IsInjective(RemoveAt(s, k)) /\ Range(RemoveAt(s, k)) = Range(s) \ {s[k]}
<1>. DEFINE r == RemoveAt(s, k)
<1>1. PICK n \in Nat : n = Len(s)
  OBVIOUS
<1>2. r \in Seq(T) /\ Len(r) = n - 1 /\ \A i \in 1..(n - 1) : r[i] = IF i < k THEN s[i] ELSE s[i + 1]
  BY <1>1, RemovedAt
<1>. HIDE DEF r
<1>3. DOMAIN r = 1..(n - 1) /\ DOMAIN s = 1..n /\ k \in 1..n
  BY <1>1, <1>2
<1>. DEFINE old(i) == IF i < k THEN i ELSE i + 1
<1>4. \A i \in 1..(n - 1) : old(i) \in 1..n /\ old(i) # k /\ r[i] = s[old(i)]
  BY <1>2, <1>3
<1>5. \A i, j \in 1..(n - 1) : old(i) = old(j) => i = j
  BY <1>3
<1>6. \A m \in 1..n : m # k => \E i \in 1..(n - 1) : old(i) = m
  <2>1. SUFFICES ASSUME NEW m \in 1..n, m # k PROVE \E i \in 1..(n - 1) : old(i) = m
    OBVIOUS
  <2>2. CASE m < k
    <3>1. m \in 1..(n - 1) /\ old(m) = m
      BY <1>3, <2>2
    <3>. QED BY <3>1
  <2>3. CASE ~(m < k)
    <3>1. m - 1 \in 1..(n - 1) /\ old(m - 1) = m
      BY <1>3, <2>1, <2>3
    <3>. QED BY <3>1
  <2>. QED BY <2>2, <2>3
<1>. HIDE DEF old
<1>7. IsInjective(r)
  BY <1>3, <1>4, <1>5 DEF IsInjective
<1>8. Range(r) = Range(s) \ {s[k]}
  <2>1. ASSUME NEW x \in Range(r) PROVE x \in Range(s) \ {s[k]}
    <3>1. PICK i \in 1..(n - 1) : x = r[i]
      BY <1>3, <2>1 DEF Range
    <3>. QED BY <1>3, <1>4, <3>1 DEF Range, IsInjective
  <2>2. ASSUME NEW x \in Range(s), x # s[k] PROVE x \in Range(r)
    <3>1. PICK m \in 1..n : x = s[m] /\ m # k
      BY <1>3, <2>2 DEF Range
    <3>2. PICK i \in 1..(n - 1) : old(i) = m
      BY <1>6, <3>1
    <3>. QED BY <1>3, <1>4, <3>1, <3>2 DEF Range
  <2>. QED BY <2>1, <2>2
<1>9. Len(r) = Len(s) - 1
  BY <1>1, <1>2
<1>. QED BY <1>2, <1>7, <1>8, <1>9 DEF r

(***************************************************************************)
(* What validation, preview and execution know. The tasks visited so far   *)
(* wait only for each other and not in a circle (Checking); an accepted    *)
(* mission has no circle. A task not shown yet waits for one that is not   *)
(* in the waves before the last one. While the loop runs a task is         *)
(* pending, or has a command, or has a result.                             *)
(***************************************************************************)
RunnerTyped ==
  /\ dependsOn \in [RunTasks -> SUBSET (RunTasks \cup {UnknownName})]
  /\ parallelism \in Parallelisms
  /\ phase \in {"names", "validate", "confirm", "preview", "scan", "join"} \cup Ended
  /\ visited \subseteq RunTasks
  /\ waves \in Seq((SUBSET RunTasks) \ {{}})
  /\ pending \in Seq(RunTasks) /\ IsInjective(pending)
  /\ index \in 1..(Len(pending) + 1)
  /\ child \in [RunTasks -> {"none", "running", "panicked"} \cup Outcomes]
  /\ results \in [RunTasks -> {"none", "skipped"} \cup Outcomes]

NamesKnown == \A t \in RunTasks : dependsOn[t] \subseteq RunTasks

Checking ==
  /\ phase = "names" => visited = {}
  /\ phase = "validate" => NamesKnown /\ Closed(visited) /\ Grounded(visited)
  /\ phase = "rejected" => ~NamesKnown \/ Cyclic
  /\ phase \notin {"names", "validate", "rejected"} => NamesKnown /\ Grounded(RunTasks)

ShownBefore(i) == UNION {waves[j] : j \in 1..(i - 1)}

Showing ==
  /\ phase \notin {"preview", "previewed"} => waves = <<>>
  /\ PreviewInOrder
  /\ waves # <<>> => \A t \in RunTasks \ InWaves : ~(dependsOn[t] \subseteq ShownBefore(Len(waves)))

InOnePlace(t) ==
  \/ t \in Range(pending) /\ child[t] = "none" /\ results[t] = "none"
  \/ t \notin Range(pending) /\ child[t] # "none" /\ results[t] = "none"
  \/ t \notin Range(pending) /\ child[t] = "none" /\ results[t] # "none"

Running ==
  /\ phase \in {"names", "validate", "confirm", "preview"} =>
       /\ pending = <<>> /\ index = 1
       /\ \A t \in RunTasks : child[t] = "none" /\ results[t] = "none"
  /\ phase \in {"scan", "join"} => \A t \in RunTasks : InOnePlace(t)
  /\ DependenciesFirst
  /\ ExitHonest

RunnerInv == RunnerTyped /\ Checking /\ Showing /\ Running

LEMMA GroundedMeans == NamesKnown => (Grounded(RunTasks) <=> ~Cyclic)
  BY DEF NamesKnown, Grounded, Cyclic

LEMMA KnownMeans ==
  ASSUME RunnerTyped
  PROVE  NamesKnown <=> \A t \in RunTasks : UnknownName \notin dependsOn[t]
<1>1. UnknownName \notin RunTasks
  BY FileOrderAssumption DEF RunTasks
<1>. QED BY <1>1 DEF RunnerTyped, NamesKnown

\* The invariant says what the properties ask for.
LEMMA RunnerInvIsSafe == RunnerInv => RunnerTypeOK /\ RunnerSafe
<1>. SUFFICES ASSUME RunnerInv PROVE RunnerTypeOK /\ RunnerSafe
  OBVIOUS
<1>1. AcceptedIffRunnable
  BY KnownMeans, GroundedMeans DEF RunnerInv, Checking, AcceptedIffRunnable
<1>2. Range(waves) \subseteq (SUBSET RunTasks) \ {{}} /\ Range(pending) \subseteq RunTasks
  BY DEF RunnerInv, RunnerTyped, Range
<1>3. ASSUME phase \in {"scan", "join"}, NEW t \in RunTasks
      PROVE  Cardinality({p \in {1, 2, 3} : \/ p = 1 /\ t \in Range(pending)
                                            \/ p = 2 /\ child[t] # "none"
                                            \/ p = 3 /\ results[t] # "none"}) = 1
  <2>. DEFINE P == {p \in {1, 2, 3} : \/ p = 1 /\ t \in Range(pending)
                                      \/ p = 2 /\ child[t] # "none"
                                      \/ p = 3 /\ results[t] # "none"}
  <2>1. InOnePlace(t)
    BY <1>3 DEF RunnerInv, Running
  <2>2. P = {1} \/ P = {2} \/ P = {3}
    BY <2>1 DEF InOnePlace
  <2>. HIDE DEF P
  <2>3. Cardinality(P) = 1
    BY <2>2, FS_Singleton
  <2>. QED BY <2>3 DEF P
<1>4. RunnerTypeOK
  BY <1>2, <1>3 DEF RunnerInv, RunnerTyped, RunnerTypeOK
<1>. QED BY <1>1, <1>4 DEF RunnerInv, Showing, Running, RunnerSafe

LEMMA RunnerInvFirst == RunnerInit => RunnerInv
<1>. SUFFICES ASSUME RunnerInit PROVE RunnerInv
  OBVIOUS
<1>1. RunnerTyped
  BY DEF RunnerInit, RunnerTyped, Ended, IsInjective
<1>2. Checking
  BY DEF RunnerInit, Checking
<1>3. Showing
  BY DEF RunnerInit, Showing, PreviewInOrder
<1>4. Running
  BY DEF RunnerInit, Running, DependenciesFirst, ExitHonest, Outcomes
<1>. QED BY <1>1, <1>2, <1>3, <1>4 DEF RunnerInv

\* What speaks of the dependencies alone.
LEMMA DependenciesKept ==
  ASSUME UNCHANGED dependsOn
  PROVE  /\ NamesKnown' <=> NamesKnown
         /\ Cyclic' <=> Cyclic
         /\ \A V : (Closed(V) <=> \A t \in V : dependsOn'[t] \subseteq V)
         /\ Grounded(RunTasks)' <=> Grounded(RunTasks)
  BY DEF NamesKnown, Cyclic, Closed, Grounded

\* Nobody runs yet, and nobody will by this step.
LEMMA NotRunning ==
  ASSUME RunnerInv, UNCHANGED <<dependsOn, parallelism, visited, pending, index, child, results>>,
         phase \in {"names", "validate", "confirm", "preview"},
         phase' \in {"names", "validate", "confirm", "preview", "rejected", "cancelled", "previewed"}
  PROVE  Running'
  BY DEF RunnerInv, Running, DependenciesFirst, ExitHonest

\* A preview is not touched by other steps.
LEMMA NotShowing ==
  ASSUME RunnerInv, UNCHANGED <<dependsOn, waves>>, phase \notin {"preview", "previewed"}, phase' # "previewed"
  PROVE  Showing'
<1>1. waves = <<>>
  BY DEF RunnerInv, Showing
<1>. QED BY <1>1 DEF Showing, PreviewInOrder

LEMMA ValidationKept ==
  ASSUME RunnerInv, CheckNames \/ ValidateRound
  PROVE  RunnerInv'
<1>1. CASE CheckNames
  <2>1. RunnerTyped'
    BY <1>1 DEF RunnerInv, RunnerTyped, CheckNames, Ended
  <2>2. Checking'
    <3>1. visited = {} /\ visited' = {} /\ phase' \in {"rejected", "validate"}
          /\ (phase' = "rejected" <=> ~NamesKnown)
      BY <1>1, KnownMeans DEF RunnerInv, Checking, CheckNames
    <3>2. Closed({})' /\ Grounded({})'
      BY DEF Closed, Grounded
    <3>3. NamesKnown' <=> NamesKnown
      BY <1>1 DEF CheckNames, NamesKnown
    <3>. QED BY <3>1, <3>2, <3>3 DEF Checking, Closed, Grounded
  <2>3. Running'
    BY <1>1, NotRunning DEF CheckNames
  <2>4. Showing'
    BY <1>1, NotShowing DEF CheckNames
  <2>. QED BY <2>1, <2>2, <2>3, <2>4 DEF RunnerInv
<1>2. CASE ValidateRound
  <2>. DEFINE R == Round(visited)
  <2>1. /\ visited' = R /\ UNCHANGED <<dependsOn, parallelism, waves, pending, index, child, results>>
        /\ phase = "validate"
        /\ \/ phase' = "confirm" /\ R = RunTasks
           \/ phase' = "rejected" /\ R # RunTasks /\ R = visited
           \/ phase' = "validate"
    BY <1>2 DEF ValidateRound
  <2>2. visited \in SUBSET RunTasks /\ Closed(visited) /\ Grounded(visited) /\ NamesKnown
    BY <2>1 DEF RunnerInv, RunnerTyped, Checking
  <2>3. /\ R \subseteq RunTasks /\ Closed(R) /\ Grounded(R)
        /\ R = visited => \A t \in RunTasks \ visited : ~(dependsOn[t] \subseteq visited)
    BY <2>2, RoundGood
  <2>. HIDE DEF R
  <2>4. RunnerTyped'
    BY <2>1, <2>3 DEF RunnerInv, RunnerTyped, Ended
  <2>5. NamesKnown' /\ Closed(visited)' /\ Grounded(visited)'
    BY <2>1, <2>2, <2>3 DEF NamesKnown, Closed, Grounded
  <2>6. phase' = "confirm" => Grounded(RunTasks)'
    BY <2>1, <2>3 DEF Grounded
  <2>7. ASSUME phase' = "rejected" PROVE Cyclic'
    <3>1. RunTasks \ visited # {}
      BY <2>1, <2>2, <2>7
    <3>2. \A t \in RunTasks \ visited : dependsOn[t] \cap (RunTasks \ visited) # {}
      BY <2>1, <2>2, <2>3, <2>7 DEF NamesKnown
    <3>3. Cyclic
      BY <3>1, <3>2 DEF Cyclic
    <3>. QED BY <2>1, <3>3 DEF Cyclic
  <2>8. Checking'
    BY <2>1, <2>5, <2>6, <2>7 DEF Checking
  <2>9. phase' \notin {"preview", "previewed"}
    BY <2>1
  <2>10. Showing'
    BY <2>1, <2>9, NotShowing
  <2>11. Running'
    BY <2>1 DEF RunnerInv, Running, DependenciesFirst, ExitHonest
  <2>. QED BY <2>4, <2>8, <2>10, <2>11 DEF RunnerInv
<1>. QED BY <1>1, <1>2

LEMMA AnswersKept ==
  ASSUME RunnerInv, Preview \/ Cancel \/ Execute
  PROVE  RunnerInv'
<1>1. phase = "confirm" /\ UNCHANGED <<dependsOn, parallelism, visited, waves, index, child, results>>
  BY DEF Preview, Cancel, Execute
<1>2. phase' \in {"preview", "cancelled", "scan"}
  BY DEF Preview, Cancel, Execute
<1>3. Checking'
  BY <1>1, <1>2, DependenciesKept DEF RunnerInv, Checking
<1>4. Showing'
  BY <1>1, <1>2, NotShowing
<1>5. CASE Preview \/ Cancel
  <2>1. RunnerTyped' /\ Running'
    BY <1>1, <1>2, <1>5, NotRunning DEF RunnerInv, RunnerTyped, Preview, Cancel, Ended
  <2>. QED BY <1>3, <1>4, <2>1 DEF RunnerInv
<1>6. CASE Execute
  <2>1. pending' = FileOrder /\ phase' = "scan" /\ index = 1 /\ FileOrder \in Seq(RunTasks) /\ IsInjective(FileOrder)
    BY <1>1, <1>6, FileOrderAssumption DEF Execute, RunnerInv, Running, RunTasks
  <2>2. RunnerTyped'
    BY <1>1, <2>1 DEF RunnerInv, RunnerTyped
  <2>3. \A t \in RunTasks : InOnePlace(t)'
    BY <1>1, <2>1 DEF RunnerInv, Running, InOnePlace, RunTasks
  <2>4. DependenciesFirst' /\ ExitHonest'
    BY <1>1, <2>1 DEF RunnerInv, Running, DependenciesFirst, ExitHonest
  <2>5. Running'
    BY <2>1, <2>3, <2>4 DEF Running
  <2>. QED BY <1>3, <1>4, <2>2, <2>5 DEF RunnerInv
<1>. QED BY <1>5, <1>6

LEMMA PreviewKept ==
  ASSUME RunnerInv, PreviewWave
  PROVE  RunnerInv'
<1>1. phase = "preview" /\ UNCHANGED <<dependsOn, parallelism, visited, pending, index, child, results>>
  BY DEF PreviewWave
<1>2. phase' \in {"preview", "previewed"}
  BY <1>1 DEF PreviewWave
<1>3. Checking' /\ Running'
  BY <1>1, <1>2, DependenciesKept, NotRunning DEF RunnerInv, Checking
<1>4. waves \in Seq((SUBSET RunTasks) \ {{}}) /\ NamesKnown /\ Grounded(RunTasks)
  BY <1>1 DEF RunnerInv, RunnerTyped, Checking
<1>5. CASE InWaves = RunTasks
  <2>1. phase' = "previewed" /\ waves' = waves
    BY <1>5 DEF PreviewWave
  <2>2. RunnerTyped'
    BY <1>1, <2>1 DEF RunnerInv, RunnerTyped, Ended
  <2>3. Showing'
    BY <1>1, <1>5, <2>1 DEF RunnerInv, Showing, PreviewInOrder, ShownBefore, InWaves
  <2>. QED BY <1>3, <2>2, <2>3 DEF RunnerInv
<1>6. CASE InWaves # RunTasks
  <2>. DEFINE W == Wave
  <2>1. phase' = phase /\ waves' = Append(waves, W)
    BY <1>6 DEF PreviewWave
  <2>2. PICK n \in Nat : n = Len(waves)
    BY <1>4
  <2>3. DOMAIN waves = 1..n /\ \A i \in 1..n : waves[i] \in (SUBSET RunTasks) \ {{}}
    BY <1>4, <2>2
  <2>4. InWaves \subseteq RunTasks
    BY <2>3 DEF InWaves, Range
  <2>5. W \subseteq RunTasks \ InWaves /\ \A t \in RunTasks \ InWaves : t \in W <=> dependsOn[t] \subseteq InWaves
    BY DEF Wave
  <2>6. W # {}
    <3>1. PICK t \in RunTasks \ InWaves : dependsOn[t] \cap (RunTasks \ InWaves) = {}
      BY <1>4, <1>6, <2>4 DEF Grounded
    <3>2. dependsOn[t] \subseteq InWaves
      BY <1>4, <3>1 DEF NamesKnown
    <3>. QED BY <2>5, <3>1, <3>2
  <2>. HIDE DEF W
  <2>7. /\ waves' \in Seq((SUBSET RunTasks) \ {{}}) /\ Len(waves') = n + 1
        /\ \A i \in 1..n : waves'[i] = waves[i]
        /\ waves'[n + 1] = W
    BY <1>4, <2>1, <2>2, <2>5, <2>6
  <2>8. DOMAIN waves' = 1..(n + 1)
    BY <2>7
  <2>9. InWaves = UNION {waves[j] : j \in 1..n}
    BY <2>3 DEF InWaves, Range
  <2>10. \A i \in 1..(n + 1) : UNION {waves'[j] : j \in 1..(i - 1)} = UNION {waves[j] : j \in 1..(i - 1)}
    <3>1. SUFFICES ASSUME NEW i \in 1..(n + 1)
                   PROVE  UNION {waves'[j] : j \in 1..(i - 1)} = UNION {waves[j] : j \in 1..(i - 1)}
      OBVIOUS
    <3>2. \A j \in 1..(i - 1) : waves'[j] = waves[j]
      BY <2>7
    <3>. QED BY <3>2
  <2>11. InWaves' = InWaves \cup W
    <3>1. InWaves' = UNION {waves'[j] : j \in 1..(n + 1)}
      BY <2>8 DEF InWaves, Range
    <3>2. \A j \in 1..(n + 1) : j \in 1..n \/ j = n + 1
      OBVIOUS
    <3>3. n + 1 \in 1..(n + 1) /\ \A j \in 1..n : j \in 1..(n + 1)
      OBVIOUS
    <3>4. ASSUME NEW t \in InWaves' PROVE t \in InWaves \cup W
      BY <2>7, <2>9, <3>1, <3>2, <3>4
    <3>5. ASSUME NEW t \in InWaves \cup W PROVE t \in InWaves'
      BY <2>7, <2>9, <3>1, <3>3, <3>5
    <3>. QED BY <3>4, <3>5
  <2>12. \A i \in 1..n : waves[i] \subseteq InWaves
    BY <2>9
  <2>13. RunnerTyped'
    BY <1>1, <1>2, <2>7 DEF RunnerInv, RunnerTyped, Ended
  <2>14. \A i, j \in DOMAIN waves' : i # j => waves'[i] \cap waves'[j] = {}
    <3>1. \A i, j \in 1..n : i # j => waves[i] \cap waves[j] = {}
      BY <2>3 DEF RunnerInv, Showing, PreviewInOrder
    <3>2. \A j \in 1..(n + 1) : j \in 1..n \/ j = n + 1
      OBVIOUS
    <3>. QED BY <2>5, <2>7, <2>8, <2>12, <3>1, <3>2
  <2>15. ASSUME NEW i \in DOMAIN waves', NEW t \in waves'[i]
         PROVE  /\ dependsOn'[t] \subseteq UNION {waves'[j] : j \in 1..(i - 1)}
                /\ i > 1 => dependsOn'[t] \cap waves'[i - 1] # {}
    <3>1. CASE i \in 1..n
      <4>1. /\ dependsOn[t] \subseteq UNION {waves[j] : j \in 1..(i - 1)}
            /\ i > 1 => dependsOn[t] \cap waves[i - 1] # {}
        BY <2>3, <2>7, <2>15, <3>1 DEF RunnerInv, Showing, PreviewInOrder
      <4>2. i > 1 => i - 1 \in 1..n
        BY <3>1
      <4>. QED BY <1>1, <2>7, <2>8, <2>10, <2>15, <4>1, <4>2
    <3>2. CASE i = n + 1
      <4>1. t \in RunTasks \ InWaves /\ dependsOn[t] \subseteq InWaves
        BY <2>5, <2>7, <2>15, <3>2
      <4>2. i - 1 = n
        BY <3>2
      <4>3. dependsOn'[t] \subseteq UNION {waves'[j] : j \in 1..(i - 1)}
        BY <1>1, <2>8, <2>9, <2>10, <2>15, <4>1, <4>2
      <4>4. ASSUME i > 1 PROVE dependsOn[t] \cap waves[n] # {}
        <5>1. waves # <<>> /\ n \in 1..n
          BY <2>2, <3>2, <4>4
        <5>2. ~(dependsOn[t] \subseteq UNION {waves[j] : j \in 1..(n - 1)})
          BY <2>2, <4>1, <5>1 DEF RunnerInv, Showing, ShownBefore
        <5>3. PICK d \in dependsOn[t] : d \notin UNION {waves[j] : j \in 1..(n - 1)}
          BY <5>2
        <5>4. PICK j \in 1..n : d \in waves[j]
          BY <2>9, <4>1, <5>3
        <5>5. j \in 1..(n - 1) \/ j = n
          BY <5>4
        <5>. QED BY <5>3, <5>4, <5>5
      <4>5. i > 1 => n \in 1..n
        BY <3>2
      <4>. QED BY <1>1, <2>7, <4>2, <4>3, <4>4, <4>5
    <3>. QED BY <2>8, <2>15, <3>1, <3>2
  <2>16. \A t \in RunTasks \ InWaves' : ~(dependsOn'[t] \subseteq ShownBefore(Len(waves))')
    <3>1. (n + 1) - 1 = n /\ n + 1 \in 1..(n + 1)
      OBVIOUS
    <3>2. ShownBefore(Len(waves))' = InWaves
      BY <2>7, <2>9, <2>10, <3>1 DEF ShownBefore
    <3>. QED BY <1>1, <2>5, <2>11, <3>2
  <2>17. Showing'
    BY <1>1, <2>1, <2>14, <2>15, <2>16 DEF Showing, PreviewInOrder
  <2>. QED BY <1>3, <2>13, <2>17 DEF RunnerInv
<1>. QED BY <1>5, <1>6

\* The loop leaves the mission and its preview alone.
LEMMA LoopKeepsRest ==
  ASSUME RunnerInv, UNCHANGED <<dependsOn, visited, waves>>,
         phase \in {"scan", "join"} /\ phase' \in {"scan", "join", "passed", "failed", "aborted"}
  PROVE  Checking' /\ Showing'
  BY DependenciesKept, NotShowing DEF RunnerInv, Checking

LEMMA ScanKept ==
  ASSUME RunnerInv, SkipTask \/ SpawnTask \/ PassOver
  PROVE  RunnerInv'
<1>1. /\ phase = "scan" /\ phase' = "scan" /\ index <= Len(pending)
      /\ UNCHANGED <<dependsOn, parallelism, visited, waves>>
  BY DEF SkipTask, SpawnTask, PassOver, Scanning
<1>2. Checking' /\ Showing'
  BY <1>1, LoopKeepsRest
<1>3. PICK n \in Nat : n = Len(pending)
  BY DEF RunnerInv, RunnerTyped
<1>4. /\ pending \in Seq(RunTasks) /\ IsInjective(pending) /\ index \in 1..n
      /\ DOMAIN pending = 1..n
  BY <1>1, <1>3 DEF RunnerInv, RunnerTyped
<1>. DEFINE u == pending[index]
<1>5. u \in RunTasks /\ u \in Range(pending)
  BY <1>4 DEF Range
<1>6. child[u] = "none" /\ results[u] = "none" /\ \A t \in RunTasks : InOnePlace(t)
  BY <1>1, <1>5 DEF RunnerInv, Running, InOnePlace
<1>7. child \in [RunTasks -> {"none", "running", "panicked"} \cup Outcomes]
      /\ results \in [RunTasks -> {"none", "skipped"} \cup Outcomes]
      /\ NamesKnown /\ DependenciesFirst
  BY <1>1 DEF RunnerInv, RunnerTyped, Checking, Running
<1>8. CASE PassOver
  <2>1. index' = index + 1 /\ UNCHANGED <<pending, child, results>>
    BY <1>8 DEF PassOver
  <2>2. index' \in 1..(Len(pending) + 1)
    BY <1>3, <1>4, <2>1
  <2>3. RunnerTyped'
    BY <1>1, <2>1, <2>2 DEF RunnerInv, RunnerTyped
  <2>4. Running'
    BY <1>1, <2>1 DEF RunnerInv, Running, InOnePlace, DependenciesFirst, ExitHonest
  <2>. QED BY <1>2, <2>3, <2>4 DEF RunnerInv
<1>9. CASE SkipTask \/ SpawnTask
  <2>1. pending' = RemoveAt(pending, index) /\ index' = index
    BY <1>9 DEF SkipTask, SpawnTask
  <2>2. /\ pending' \in Seq(RunTasks) /\ Len(pending') = n - 1 /\ IsInjective(pending')
        /\ Range(pending') = Range(pending) \ {u}
    BY <1>3, <1>4, <2>1, RemovedOnce
  <2>3. index' \in 1..(Len(pending') + 1)
    BY <1>4, <2>1, <2>2
  <2>4. CASE SkipTask
    <3>1. results' = [results EXCEPT ![u] = "skipped"] /\ child' = child /\ Doomed(u)
      BY <2>4 DEF SkipTask
    <3>2. PICK d \in dependsOn[u] : results[d] \notin {"none", "passed"}
      BY <3>1 DEF Doomed
    <3>3. d \in RunTasks /\ results[d] \in {"failed", "timed_out", "skipped"} /\ d # u
      BY <1>5, <1>6, <1>7, <3>2 DEF NamesKnown, Outcomes
    <3>. HIDE DEF u
    <3>4. results' \in [RunTasks -> {"none", "skipped"} \cup Outcomes]
          /\ results'[u] = "skipped" /\ \A t \in RunTasks : t # u => results'[t] = results[t]
      BY <1>5, <1>7, <3>1
    <3>5. RunnerTyped'
      BY <1>1, <2>2, <2>3, <3>1, <3>4 DEF RunnerInv, RunnerTyped
    <3>6. \A t \in RunTasks : InOnePlace(t)'
      BY <1>5, <1>6, <2>2, <3>1, <3>4 DEF InOnePlace
    <3>7. DependenciesFirst'
      <4>1. ASSUME NEW t \in RunTasks, child'[t] # "none" \/ results'[t] \in Outcomes
            PROVE  \A e \in dependsOn'[t] : results'[e] = "passed"
        <5>1. child[t] # "none" \/ results[t] \in Outcomes
          BY <3>1, <3>4, <4>1 DEF Outcomes
        <5>2. \A e \in dependsOn[t] : results[e] = "passed" /\ e \in RunTasks
          BY <1>7, <5>1 DEF DependenciesFirst, NamesKnown
        <5>3. \A e \in dependsOn[t] : e # u
          BY <1>6, <5>2
        <5>. QED BY <1>1, <3>4, <5>2, <5>3
      <4>2. ASSUME NEW t \in RunTasks, results'[t] = "skipped"
            PROVE  \E e \in dependsOn'[t] : results'[e] \in {"failed", "timed_out", "skipped"}
        <5>1. CASE t = u
          BY <1>1, <3>2, <3>3, <3>4, <5>1
        <5>2. CASE t # u
          <6>1. PICK e \in dependsOn[t] : results[e] \in {"failed", "timed_out", "skipped"}
            BY <1>7, <3>4, <4>2, <5>2 DEF DependenciesFirst
          <6>2. e \in RunTasks /\ e # u
            BY <1>6, <1>7, <6>1 DEF NamesKnown
          <6>. QED BY <1>1, <3>4, <6>1, <6>2
        <5>. QED BY <5>1, <5>2
      <4>. QED BY <4>1, <4>2 DEF DependenciesFirst
    <3>8. Running'
      BY <1>1, <3>6, <3>7 DEF Running, ExitHonest
    <3>. QED BY <1>2, <3>5, <3>8 DEF RunnerInv
  <2>5. CASE SpawnTask
    <3>1. child' = [child EXCEPT ![u] = "running"] /\ results' = results /\ Ready(u)
      BY <2>5 DEF SpawnTask
    <3>2. \A d \in dependsOn[u] : results[d] = "passed"
      BY <3>1 DEF Ready
    <3>. HIDE DEF u
    <3>3. child' \in [RunTasks -> {"none", "running", "panicked"} \cup Outcomes]
          /\ child'[u] = "running" /\ \A t \in RunTasks : t # u => child'[t] = child[t]
      BY <1>5, <1>7, <3>1
    <3>4. RunnerTyped'
      BY <1>1, <2>2, <2>3, <3>1, <3>3 DEF RunnerInv, RunnerTyped
    <3>5. \A t \in RunTasks : InOnePlace(t)'
      BY <1>5, <1>6, <2>2, <3>1, <3>3 DEF InOnePlace
    <3>6. DependenciesFirst'
      BY <1>1, <1>7, <3>1, <3>2, <3>3 DEF DependenciesFirst
    <3>7. Running'
      BY <1>1, <3>5, <3>6 DEF Running, ExitHonest
    <3>. QED BY <1>2, <3>4, <3>7 DEF RunnerInv
  <2>. QED BY <1>9, <2>4, <2>5
<1>. QED BY <1>8, <1>9

LEMMA EndScanKept ==
  ASSUME RunnerInv, EndScan
  PROVE  RunnerInv'
<1>1. /\ phase = "scan" /\ index' = 1
      /\ UNCHANGED <<dependsOn, parallelism, visited, waves, pending, child, results>>
      /\ \/ phase' \in {"scan", "join"}
         \/ Active = {} /\ pending = <<>> /\ phase' = IF NotPassed = {} THEN "passed" ELSE "failed"
  BY DEF EndScan
<1>2. phase' \in {"scan", "join", "passed", "failed"}
  BY <1>1
<1>3. Checking' /\ Showing'
  BY <1>1, <1>2, LoopKeepsRest
<1>4. RunnerTyped'
  <2>1. 1 \in 1..(Len(pending) + 1)
    BY DEF RunnerInv, RunnerTyped
  <2>. QED BY <1>1, <1>2, <2>1 DEF RunnerInv, RunnerTyped, Ended
<1>5. ExitHonest'
  <2>1. SUFFICES ASSUME phase' \in {"passed", "failed"} PROVE ExitHonest'
    BY DEF ExitHonest
  <2>2. \A t \in RunTasks : results[t] # "none"
    BY <1>1, <2>1 DEF RunnerInv, Running, InOnePlace, Active, Range
  <2>3. CASE phase' = "passed"
    BY <1>1, <2>2, <2>3 DEF ExitHonest, NotPassed
  <2>4. CASE phase' = "failed"
    BY <1>1, <2>2, <2>4 DEF ExitHonest, NotPassed
  <2>. QED BY <2>1, <2>3, <2>4
<1>6. Running'
  BY <1>1, <1>2, <1>5 DEF RunnerInv, Running, InOnePlace, DependenciesFirst
<1>. QED BY <1>3, <1>4, <1>6 DEF RunnerInv

LEMMA CommandKept ==
  ASSUME RunnerInv, NEW u \in RunTasks, NEW o \in Outcomes \cup {"panicked"}, CommandEnds(u, o)
  PROVE  RunnerInv'
<1>1. /\ child[u] = "running" /\ child' = [child EXCEPT ![u] = o]
      /\ UNCHANGED <<dependsOn, parallelism, phase, visited, waves, pending, index, results>>
  BY DEF CommandEnds
<1>2. child \in [RunTasks -> {"none", "running", "panicked"} \cup Outcomes]
  BY DEF RunnerInv, RunnerTyped
<1>3. /\ child' \in [RunTasks -> {"none", "running", "panicked"} \cup Outcomes]
      /\ \A t \in RunTasks : child'[t] # "none" <=> child[t] # "none"
  BY <1>1, <1>2 DEF Outcomes
<1>4. RunnerTyped'
  BY <1>1, <1>3 DEF RunnerInv, RunnerTyped
<1>5. Checking'
  BY <1>1, DependenciesKept DEF RunnerInv, Checking, Closed, Grounded
<1>6. Showing'
  BY <1>1 DEF RunnerInv, Showing, PreviewInOrder, ShownBefore, InWaves
<1>7. \A t \in RunTasks : InOnePlace(t)' <=> InOnePlace(t)
  BY <1>1, <1>3 DEF InOnePlace
<1>8. DependenciesFirst' /\ ExitHonest'
  BY <1>1, <1>3 DEF RunnerInv, Running, DependenciesFirst, ExitHonest
<1>9. Running'
  BY <1>1, <1>3, <1>7, <1>8 DEF RunnerInv, Running
<1>. QED BY <1>4, <1>5, <1>6, <1>9 DEF RunnerInv

LEMMA JoinKept ==
  ASSUME RunnerInv, NEW u \in RunTasks, JoinNext(u) \/ JoinPanic(u)
  PROVE  RunnerInv'
<1>1. phase = "join" /\ child[u] # "none" /\ UNCHANGED <<dependsOn, parallelism, visited, waves, pending, index>>
  BY DEF JoinNext, JoinPanic, Outcomes
<1>2. phase' \in {"scan", "aborted"}
  BY DEF JoinNext, JoinPanic
<1>3. Checking' /\ Showing'
  BY <1>1, <1>2, LoopKeepsRest
<1>4. /\ child \in [RunTasks -> {"none", "running", "panicked"} \cup Outcomes]
      /\ results \in [RunTasks -> {"none", "skipped"} \cup Outcomes]
      /\ NamesKnown /\ DependenciesFirst /\ \A t \in RunTasks : InOnePlace(t)
  BY <1>1 DEF RunnerInv, RunnerTyped, Checking, Running
<1>5. CASE JoinNext(u)
  <2>1. /\ phase' = "scan" /\ child[u] \in Outcomes
        /\ results' = [results EXCEPT ![u] = child[u]] /\ child' = [child EXCEPT ![u] = "none"]
    BY <1>5 DEF JoinNext
  <2>2. /\ results' \in [RunTasks -> {"none", "skipped"} \cup Outcomes]
        /\ child' \in [RunTasks -> {"none", "running", "panicked"} \cup Outcomes]
        /\ results'[u] = child[u] /\ child'[u] = "none"
        /\ \A t \in RunTasks : t # u => results'[t] = results[t] /\ child'[t] = child[t]
    BY <1>4, <2>1
  <2>3. results[u] = "none" /\ u \notin Range(pending)
    BY <1>1, <1>4 DEF InOnePlace
  <2>4. RunnerTyped'
    BY <1>1, <2>1, <2>2 DEF RunnerInv, RunnerTyped
  <2>5. \A t \in RunTasks : InOnePlace(t)'
    BY <1>1, <1>4, <2>1, <2>2, <2>3 DEF InOnePlace, Outcomes
  <2>6. DependenciesFirst'
    <3>1. ASSUME NEW t \in RunTasks, child'[t] # "none" \/ results'[t] \in Outcomes
          PROVE  \A e \in dependsOn'[t] : results'[e] = "passed"
      <4>1. child[t] # "none" \/ results[t] \in Outcomes
        BY <1>1, <2>2, <3>1
      <4>2. \A e \in dependsOn[t] : results[e] = "passed" /\ e \in RunTasks
        BY <1>4, <4>1 DEF DependenciesFirst, NamesKnown
      <4>3. \A e \in dependsOn[t] : e # u
        BY <2>3, <4>2
      <4>. QED BY <1>1, <2>2, <4>2, <4>3
    <3>2. ASSUME NEW t \in RunTasks, results'[t] = "skipped"
          PROVE  \E e \in dependsOn'[t] : results'[e] \in {"failed", "timed_out", "skipped"}
      <4>1. t # u
        BY <2>1, <2>2, <3>2 DEF Outcomes
      <4>2. PICK e \in dependsOn[t] : results[e] \in {"failed", "timed_out", "skipped"}
        BY <1>4, <2>2, <3>2, <4>1 DEF DependenciesFirst
      <4>3. e \in RunTasks /\ e # u
        BY <1>4, <2>3, <4>2 DEF NamesKnown
      <4>. QED BY <1>1, <2>2, <4>2, <4>3
    <3>. QED BY <3>1, <3>2 DEF DependenciesFirst
  <2>7. Running'
    BY <2>1, <2>5, <2>6 DEF Running, ExitHonest
  <2>. QED BY <1>3, <2>4, <2>7 DEF RunnerInv
<1>6. CASE JoinPanic(u)
  <2>1. phase' = "aborted" /\ child' = [t \in RunTasks |-> "none"] /\ results' = results
    BY <1>6 DEF JoinPanic
  <2>2. RunnerTyped'
    BY <1>1, <2>1 DEF RunnerInv, RunnerTyped, Ended
  <2>3. Running'
    BY <1>1, <1>4, <2>1 DEF Running, DependenciesFirst, ExitHonest
  <2>. QED BY <1>3, <2>2, <2>3 DEF RunnerInv
<1>. QED BY <1>5, <1>6

LEMMA RunnerInvStep == RunnerInv /\ [RunnerNext]_runnerVars => RunnerInv'
<1>. SUFFICES ASSUME RunnerInv, [RunnerNext]_runnerVars PROVE RunnerInv'
  OBVIOUS
<1>1. CASE RunnerNext
  BY <1>1, ValidationKept, AnswersKept, PreviewKept, ScanKept, EndScanKept, CommandKept, JoinKept
     DEF RunnerNext, ExecStep
<1>2. CASE UNCHANGED runnerVars
  <2>1. RunnerTyped'
    BY <1>2 DEF runnerVars, RunnerInv, RunnerTyped
  <2>2. Checking'
    BY <1>2, DependenciesKept DEF runnerVars, RunnerInv, Checking, Closed, Grounded
  <2>3. Showing'
    BY <1>2 DEF runnerVars, RunnerInv, Showing, PreviewInOrder, ShownBefore, InWaves
  <2>4. Running'
    BY <1>2 DEF runnerVars, RunnerInv, Running, InOnePlace, DependenciesFirst, ExitHonest
  <2>. QED BY <2>1, <2>2, <2>3, <2>4 DEF RunnerInv
<1>. QED BY <1>1, <1>2

(***************************************************************************)
(* Every mission file, of whatever tasks and dependencies and for every    *)
(* parallelism: exec accepts exactly the missions without an unknown name  *)
(* or a cycle, shows their waves in order, runs a command only after its   *)
(* dependencies have passed, and exits with a status that is true. That it *)
(* comes to an end is checked by TLC.                                      *)
(***************************************************************************)
THEOREM MissionsRunInOrder == RunnerSpec => [](RunnerTypeOK /\ RunnerSafe)
<1>1. RunnerInit => RunnerInv
  BY RunnerInvFirst
<1>2. RunnerInv /\ [RunnerNext]_runnerVars => RunnerInv'
  BY RunnerInvStep
<1>3. RunnerInv => RunnerTypeOK /\ RunnerSafe
  BY RunnerInvIsSafe
<1>. QED BY <1>1, <1>2, <1>3, PTL DEF RunnerSpec
=============================================================================
