----------------------------- MODULE SprintPlan -----------------------------
(***************************************************************************)
(* From a plan of specialist assignments to a mission, from its phases to  *)
(* the waves of a sprint, and the sprint while its waves are executed: the *)
(* tasks of a wave count themselves in the shared progress, two counters   *)
(* each, and the executor records one result per wave.                     *)
(***************************************************************************)
EXTENDS Integers, Sequences, FiniteSets, Maps

CONSTANTS
  PlanPhases,      \* names of phases
  PhaseTasks,      \* per phase, its number of tasks
  MaxTasksPerWave, \* max_tasks_per_wave
  Unknown          \* a dependency no phase has as its name

ASSUME SprintAssumption ==
  /\ PhaseTasks \in [PlanPhases -> Nat]
  /\ MaxTasksPerWave \in Nat \ {0}
  /\ IsFiniteSet(PlanPhases) /\ Unknown \notin PlanPhases

VARIABLES
  phaseDeps,    \* per phase, the names it depends on
  planStage,    \* how far planning is
  level,        \* phases of the current level whose waves are not laid out
  placed,       \* phases of this and the earlier levels
  sprintWaves,        \* the sprint's waves: a phase and the tasks of it they run
  sprint,       \* SprintState
  waveResults,      \* per recorded wave, whether it succeeded
  tasksAt,      \* per task of the wave under way, how far it has counted itself
  progress      \* SprintProgress counters

sprintVars == <<phaseDeps, planStage, level, placed, sprintWaves, sprint, waveResults, tasksAt, progress>>

SprintState == {"Planning", "Running", "Paused", "Completed", "Failed", "Cancelled"}

SprintTypeOK ==
  /\ phaseDeps \in [PlanPhases -> SUBSET (PlanPhases \cup {Unknown})]
  /\ planStage \in {"admit", "layout", "planned", "refused"}
  /\ level \subseteq placed /\ placed \subseteq PlanPhases
  /\ sprint \in SprintState
  /\ waveResults \in Seq(BOOLEAN)
  /\ progress \in [total : Nat, done : Nat, succeeded : Nat, failed : Nat]

SprintInit ==
  /\ phaseDeps \in [PlanPhases -> SUBSET (PlanPhases \cup {Unknown})]
  /\ planStage = "admit"
  /\ level = {} /\ placed = {} /\ sprintWaves = <<>>
  /\ sprint = "Planning" /\ waveResults = <<>>
  /\ tasksAt = <<>>
  /\ progress = [total |-> 0, done |-> 0, succeeded |-> 0, failed |-> 0]

-----------------------------------------------------------------------------
(* Planning *)

\* to_mission refuses a dependency on itself, resolve_execution_order one on
\* a name that no phase has.
Admit ==
  /\ planStage = "admit"
  /\ IF \E p \in PlanPhases : p \in phaseDeps[p] \/ Unknown \in phaseDeps[p]
     THEN planStage' = "refused" /\ UNCHANGED <<level, placed>>
     ELSE /\ planStage' = "layout"
          /\ level' = {p \in PlanPhases : phaseDeps[p] = {}}
          /\ placed' = level'
  /\ UNCHANGED <<phaseDeps, sprintWaves, sprint, waveResults, tasksAt, progress>>

\* Mutant: the tasks left over after the last full chunk are dropped.
Chunks_FullOnly(p) ==
  [i \in 1..(PhaseTasks[p] \div MaxTasksPerWave) |->
     [phase |-> p, tasks |-> ((i - 1) * MaxTasksPerWave + 1)..(i * MaxTasksPerWave)]]

Chunks(p) ==
  [i \in 1..((PhaseTasks[p] + MaxTasksPerWave - 1) \div MaxTasksPerWave) |->
     [phase |-> p,
      tasks |-> {t \in 1..PhaseTasks[p] : (t - 1) \div MaxTasksPerWave = i - 1}]]

LayOut(p) ==
  /\ planStage = "layout" /\ p \in level
  /\ sprintWaves' = sprintWaves \o Chunks(p)
  /\ level' = level \ {p}
  /\ UNCHANGED <<phaseDeps, planStage, placed, sprint, waveResults, tasksAt, progress>>

\* The tasks of some waves, each by the place of its wave.
TasksOf(places) == UNION {{i} \X sprintWaves[i].tasks : i \in places}

\* The phases whose last dependency was in the level just laid out.
NextLevel ==
  /\ planStage = "layout" /\ level = {}
  /\ level' = {p \in PlanPhases \ placed : phaseDeps[p] \subseteq placed}
  /\ placed' = placed \cup level'
  /\ planStage' = IF level' # {} THEN "layout"
                  ELSE IF placed = PlanPhases THEN "planned" ELSE "refused"
  /\ progress' = [progress EXCEPT !.total =
       IF planStage' = "planned" THEN Cardinality(TasksOf(DOMAIN sprintWaves)) ELSE 0]
  /\ UNCHANGED <<phaseDeps, sprintWaves, sprint, waveResults, tasksAt>>

-----------------------------------------------------------------------------
(* Execution: one wave after the other, the tasks of a wave together. *)

Executing == planStage = "planned" /\ Len(waveResults) < Len(sprintWaves)

StartWave ==
  /\ Executing /\ tasksAt = <<>>
  /\ tasksAt' = [t \in sprintWaves[Len(waveResults) + 1].tasks |-> "running"]
  /\ UNCHANGED <<phaseDeps, planStage, level, placed, sprintWaves, sprint, waveResults, progress>>

\* record_success and record_failure add to two counters, one after the other.
CountDone(t, outcome) ==
  /\ tasksAt[t] = "running"
  /\ tasksAt' = [tasksAt EXCEPT ![t] = outcome]
  /\ progress' = [progress EXCEPT !.done = @ + 1]
  /\ UNCHANGED <<phaseDeps, planStage, level, placed, sprintWaves, sprint, waveResults>>

CountOutcome(t) ==
  /\ tasksAt[t] \in {"succeeding", "failing"}
  /\ IF tasksAt[t] = "succeeding"
     THEN /\ progress' = [progress EXCEPT !.succeeded = @ + 1]
          /\ tasksAt' = [tasksAt EXCEPT ![t] = "succeeded"]
     ELSE /\ progress' = [progress EXCEPT !.failed = @ + 1]
          /\ tasksAt' = [tasksAt EXCEPT ![t] = "failed"]
  /\ UNCHANGED <<phaseDeps, planStage, level, placed, sprintWaves, sprint, waveResults>>

WaveEnded == tasksAt # <<>> /\ \A t \in DOMAIN tasksAt : tasksAt[t] \in {"succeeded", "failed"}
WaveSucceeded == \A t \in DOMAIN tasksAt : tasksAt[t] = "succeeded"

RecordWaveResult ==
  /\ Executing /\ WaveEnded
  /\ waveResults' = Append(waveResults, WaveSucceeded)
  /\ sprint' = IF ~WaveSucceeded THEN "Failed"
               ELSE IF Len(waveResults') >= Len(sprintWaves) THEN "Completed" ELSE sprint
  /\ tasksAt' = <<>>
  /\ UNCHANGED <<phaseDeps, planStage, level, placed, sprintWaves, progress>>

-----------------------------------------------------------------------------
PlanningNext == Admit \/ NextLevel \/ \E p \in PlanPhases : LayOut(p)

ExecutionNext ==
  \/ StartWave \/ RecordWaveResult
  \/ \E t \in DOMAIN tasksAt :
       CountOutcome(t) \/ \E o \in {"succeeding", "failing"} : CountDone(t, o)

SprintNext == PlanningNext \/ ExecutionNext

SprintSpec == SprintInit /\ [][SprintNext]_sprintVars

-----------------------------------------------------------------------------
Orderable ==
  \E rank \in [PlanPhases -> 1..Cardinality(PlanPhases)] :
    \A p \in PlanPhases : \A d \in phaseDeps[p] : d \in PlanPhases /\ rank[d] < rank[p]

(***************************************************************************)
(* A sprint is planned for exactly the missions whose phases can be        *)
(* ordered, and then every task of every phase is in exactly one wave, no  *)
(* wave is empty or larger than allowed, and every wave of a phase comes   *)
(* after all the waves of the phases it depends on.                        *)
(***************************************************************************)
PlanSound ==
  /\ planStage = "planned" => Orderable
  /\ planStage = "refused" => ~Orderable
  /\ planStage = "planned" =>
       /\ \A p \in PlanPhases : \A t \in 1..PhaseTasks[p] :
            Cardinality({i \in DOMAIN sprintWaves : sprintWaves[i].phase = p /\ t \in sprintWaves[i].tasks}) = 1
       /\ \A i \in DOMAIN sprintWaves : Cardinality(sprintWaves[i].tasks) \in 1..MaxTasksPerWave
       /\ \A i, j \in DOMAIN sprintWaves : sprintWaves[j].phase \in phaseDeps[sprintWaves[i].phase] => j < i

(***************************************************************************)
(* The counters never run past the tasks there are, a task is counted done *)
(* no later than it is counted as succeeded or failed, and a sprint that   *)
(* has recorded its last wave shows all of its tasks done and told apart.  *)
(***************************************************************************)
ProgressConsistent ==
  /\ progress.succeeded + progress.failed <= progress.done
  /\ planStage = "planned" => progress.done <= progress.total
  /\ planStage = "planned" /\ Len(waveResults) = Len(sprintWaves) =>
       /\ progress.done = progress.total
       /\ progress.succeeded + progress.failed = progress.total

(***************************************************************************)
(* A sprint plans every task once, after what it depends on, and counts    *)
(* each once.                                                              *)
(***************************************************************************)
SprintSound == SprintTypeOK /\ PlanSound /\ ProgressConsistent

-----------------------------------------------------------------------------
(***************************************************************************)
(* The handoff manager: a record of each handoff and two indexes of it, by *)
(* the agent it comes from and the one it goes to. Recording one writes to *)
(* the three maps one after the other, under no common lock.               *)
(***************************************************************************)

CONSTANTS HandoffIds, HandoffAgents

VARIABLES
  records,      \* per recorded handoff, what it holds
  outbound,     \* per source agent, handoff ids
  inbound,      \* per target agent, handoff ids
  recording     \* per handoff, how far its record call is

handoffVars == <<records, outbound, inbound, recording>>

HandoffState == {"Initiated", "Accepted", "Completed", "Rejected", "Failed"}

NewHandoff(from, to) ==
  [from |-> from, to |-> to, state |-> "Initiated", ended |-> FALSE, error |-> FALSE]

HandoffInit ==
  /\ records = EmptyMap
  /\ outbound = [a \in HandoffAgents |-> <<>>]
  /\ inbound = [a \in HandoffAgents |-> <<>>]
  /\ recording = [h \in HandoffIds |-> [step |-> "new"]]

-----------------------------------------------------------------------------
Record(h, from, to) ==
  /\ recording[h].step = "new"
  /\ outbound' = [outbound EXCEPT ![from] = Append(@, h)]
  /\ recording' = [recording EXCEPT ![h] = [step |-> "inbound", from |-> from, to |-> to]]
  /\ UNCHANGED <<records, inbound>>

\* Mutant: the record is stored before the second index knows of it.
RecordInbound_StoresFirst(h) ==
  /\ recording[h].step = "inbound"
  /\ records' = Put(records, h, NewHandoff(recording[h].from, recording[h].to))
  /\ recording' = [recording EXCEPT ![h].step = "store"]
  /\ UNCHANGED <<outbound, inbound>>

RecordInbound(h) ==
  /\ recording[h].step = "inbound"
  /\ inbound' = [inbound EXCEPT ![recording[h].to] = Append(@, h)]
  /\ recording' = [recording EXCEPT ![h].step = "store"]
  /\ UNCHANGED <<records, outbound>>

RecordStored(h) ==
  /\ recording[h].step = "store"
  /\ records' = Put(records, h, NewHandoff(recording[h].from, recording[h].to))
  /\ recording' = [recording EXCEPT ![h].step = "recorded"]
  /\ UNCHANGED <<outbound, inbound>>

\* accept, complete, reject and fail, applied through update: none asks what
\* state the handoff is in.
Moved(r, to) ==
  [r EXCEPT !.state = to, !.ended = @ \/ to # "Accepted",
            !.error = @ \/ to \in {"Rejected", "Failed"}]

UpdateHandoff(h, to) ==
  /\ h \in DOMAIN records
  /\ records' = [records EXCEPT ![h] = Moved(@, to)]
  /\ UNCHANGED <<outbound, inbound, recording>>

\* Places of an agent's index that a listing shows: it skips the ids whose
\* record is not stored yet.
Listed(index, a) == {i \in DOMAIN index[a] : index[a][i] \in DOMAIN records}

HandoffNext ==
  \E h \in HandoffIds :
    \/ \E from, to \in HandoffAgents : Record(h, from, to)
    \/ RecordInbound(h) \/ RecordStored(h)
    \/ \E s \in HandoffState \ {"Initiated"} : UpdateHandoff(h, s)

HandoffSpec == HandoffInit /\ [][HandoffNext]_handoffVars

-----------------------------------------------------------------------------
(***************************************************************************)
(* "A complete audit trail": a handoff that can be looked up is listed,    *)
(* once, among those its source made and those its target received, even   *)
(* while others are being recorded, and nobody is listed for a handoff of  *)
(* somebody else.                                                          *)
(***************************************************************************)
AuditTrailComplete ==
  /\ \A h \in DOMAIN records :
       LET from == records[h].from  to == records[h].to IN
       /\ Cardinality({i \in Listed(outbound, from) : outbound[from][i] = h}) = 1
       /\ Cardinality({i \in Listed(inbound, to) : inbound[to][i] = h}) = 1
  /\ \A a \in HandoffAgents :
       /\ \A i \in Listed(outbound, a) : records[outbound[a][i]].from = a
       /\ \A i \in Listed(inbound, a) : records[inbound[a][i]].to = a

(***************************************************************************)
(* Every task of a plan and every handoff between its agents is accounted  *)
(* for once.                                                               *)
(***************************************************************************)
WorkAccounted == SprintSound /\ AuditTrailComplete
=============================================================================
