---------------------------- MODULE Orchestrator ----------------------------
(***************************************************************************)
(* Mission execution by daf-orchestrator (orchestrator.rs) with the        *)
(* specialist router's load table (specialist.rs) and the wave order of a  *)
(* mission (mission.rs): concurrent callers of run_mission_async, agents   *)
(* that come and go, callers that drop a mission, and shutdown.            *)
(*                                                                         *)
(* The registries are concurrent maps: a step is one operation on one of   *)
(* them, or a stretch of a caller's own code.  Deadlines (mission, wave,   *)
(* phase and task) may pass at any time.  Phase names are unique.          *)
(***************************************************************************)
EXTENDS Naturals, FiniteSets

CONSTANTS
  AgentIds,
  MissionIds,
  Phases,                 \* phases of all missions
  PhasesOf,               \* the phases of each mission
  DependsOn,              \* the dependencies of each phase
  Tasks,                  \* how many tasks each phase has
  Capable,                \* the agents with the capabilities each phase requires
  MaxRetries,             \* max_retries of the missions' RetryPolicy
  OwnRetries,             \* max_retries of each phase's own policy, or None
  Callers,                \* concurrent callers of run_mission_async
  MaxConcurrentMissions,
  MaxTasksPerAgent,
  FailFast,
  DrainFirst,             \* agents are spawned and removed only without leases
  None

ASSUME PhasesAssumption ==
  /\ PhasesOf \in [MissionIds -> SUBSET Phases]
  /\ DependsOn \in [Phases -> SUBSET Phases]
  /\ Tasks \in [Phases -> Nat]
  /\ Capable \in [Phases -> SUBSET AgentIds]
ASSUME LimitsAssumption ==
  /\ MaxRetries \in Nat /\ OwnRetries \in [Phases -> Nat \cup {None}]
  /\ MaxConcurrentMissions \in Nat /\ MaxTasksPerAgent \in Nat
  /\ FailFast \in BOOLEAN /\ DrainFirst \in BOOLEAN

VARIABLES
  registered,      \* the orchestrator's agents
  active,          \* active_tasks of their entries
  workers,         \* agents with a worker handler
  load,            \* the router's agents with their active task counts, or None
  admin,           \* a spawn_agent or remove_agent between its first and last map
  missions,        \* the recorded state of each mission
  activeMissions,  \* the mission slots in use
  run,             \* the locals of each caller
  shutdown         \* the shutdown flag

vars == <<registered, active, workers, load, admin, missions, activeMissions, run, shutdown>>
agentVars == <<registered, active, workers, load, admin>>

MissionState == {"Planning", "Executing", "Paused", "Completed", "Failed", "Cancelled"}
ASSUME NoneAssumption == None \notin MissionState
Outcome == {"none", "ok", "bad"}      \* of a phase, once it has a PhaseResult
OnTheWay == {"admitted", "phase", "task", "attempt", "backoff", "routed", "assigned"}
Leased == {"leased", "executing"}

\* The fields of a caller: where it is, the outcomes of its phases, the
\* phase in progress, its tasks left, whether all went well so far, the
\* attempt, the agent routed to, and (history) tasks that succeeded.
Locals == [pc : {"idle", "closing", "dropping"} \cup OnTheWay \cup Leased,
           mission : MissionIds \cup {None},
           outcomes : [Phases -> Outcome],
           phase : Phases \cup {None},
           left : Nat,
           ok : BOOLEAN,
           attempt : Nat,
           agent : AgentIds \cup {None},
           succeeded : [Phases -> Nat]]

TypeOK ==
  /\ registered \subseteq AgentIds
  /\ active \in [AgentIds -> Nat]
  /\ workers \subseteq AgentIds
  /\ load \in [AgentIds -> Nat \cup {None}]
  /\ admin \in [op : {"spawn", "remove"}, agent : AgentIds] \cup {None}
  /\ missions \in [MissionIds -> {None} \cup MissionState]
  /\ activeMissions \subseteq MissionIds
  /\ run \in [Callers -> Locals]
  /\ shutdown \in BOOLEAN

Idle == [pc |-> "idle", mission |-> None, outcomes |-> [p \in Phases |-> "none"],
         phase |-> None, left |-> 0, ok |-> TRUE, attempt |-> 0, agent |-> None,
         succeeded |-> [p \in Phases |-> 0]]

Init ==
  /\ registered = {}
  /\ active = [a \in AgentIds |-> 0]
  /\ workers = {}
  /\ load = [a \in AgentIds |-> None]
  /\ admin = None
  /\ missions = [m \in MissionIds |-> None]
  /\ activeMissions = {}
  /\ run = [r \in Callers |-> Idle]
  /\ shutdown = FALSE

-----------------------------------------------------------------------------
(* mission.rs: resolve_execution_order *)

\* The phases of m in its first k waves: those whose dependencies are in
\* the first k - 1.
Placed(m) ==
  LET placed[k \in Nat] ==
        IF k = 0 THEN {} ELSE {p \in PhasesOf[m] : DependsOn[p] \subseteq placed[k - 1]}
  IN placed

\* Every dependency names a phase of the mission and there is no cycle.
Resolves(m) ==
  /\ \A p \in PhasesOf[m] : DependsOn[p] \subseteq PhasesOf[m]
  /\ Placed(m)[Cardinality(PhasesOf[m])] = PhasesOf[m]

WaveOf(m, p) == CHOOSE k \in 1..Cardinality(PhasesOf[m]) :
                  p \in Placed(m)[k] /\ p \notin Placed(m)[k - 1]

-----------------------------------------------------------------------------
(* Agents *)

Drained(a) == \A r \in Callers : run[r].agent = a => run[r].pc \notin Leased

\* spawn_agent: the registry entry first, then the router's.
SpawnAgent(a) ==
  /\ admin = None
  /\ DrainFirst => Drained(a)
  /\ registered' = registered \cup {a}
  /\ active' = [active EXCEPT ![a] = 0]
  /\ admin' = [op |-> "spawn", agent |-> a]
  /\ UNCHANGED <<workers, load, missions, activeMissions, run, shutdown>>

RegisterWorker(a) ==
  /\ a \in registered
  /\ workers' = workers \cup {a}
  /\ UNCHANGED <<registered, active, load, admin, missions, activeMissions, run, shutdown>>

\* remove_agent: the registry entry, then the worker and the router's entry.
RemoveAgent(a) ==
  /\ admin = None
  /\ a \in registered
  /\ DrainFirst => Drained(a)
  /\ registered' = registered \ {a}
  /\ admin' = [op |-> "remove", agent |-> a]
  /\ UNCHANGED <<active, workers, load, missions, activeMissions, run, shutdown>>

AdminEnds ==
  /\ admin # None
  /\ load' = [load EXCEPT ![admin.agent] = IF admin.op = "spawn" THEN 0 ELSE None]
  /\ workers' = IF admin.op = "spawn" THEN workers ELSE workers \ {admin.agent}
  /\ admin' = None
  /\ UNCHANGED <<registered, active, missions, activeMissions, run, shutdown>>

\* AgentLoad::complete, when the router still knows the agent.
CompleteLoad(a) ==
  load' = [load EXCEPT ![a] = IF load[a] \in {None, 0} THEN load[a] ELSE load[a] - 1]

\* record_task_done, by the drop of a TaskLease.
RecordTaskDone(a) ==
  /\ active' = [active EXCEPT ![a] = IF a \notin registered \/ active[a] = 0 THEN @ ELSE @ - 1]
  /\ CompleteLoad(a)
  /\ UNCHANGED <<registered, workers, admin>>

-----------------------------------------------------------------------------
(* run_mission_async *)

Blocked(r) == \E d \in DependsOn[run[r].phase] : run[r].outcomes[d] # "ok"
HasFailed(r) == \E p \in Phases : run[r].outcomes[p] = "bad"

\* A mission slot is taken, unless it is refused.
RunMission(r, m) ==
  /\ run[r].pc = "idle"
  /\ Resolves(m)
  /\ ~shutdown
  /\ m \notin activeMissions
  /\ Cardinality(activeMissions) < MaxConcurrentMissions
  /\ activeMissions' = activeMissions \cup {m}
  /\ run' = [run EXCEPT ![r] = [Idle EXCEPT !.pc = "admitted", !.mission = m]]
  /\ UNCHANGED <<agentVars, missions, shutdown>>

\* SpecialistPlan::to_mission: one task per assignment, no self dependency,
\* and an order of execution. Sizes and deadlines are within the limits.
IsPlan(m) ==
  /\ PhasesOf[m] # {}
  /\ \A p \in PhasesOf[m] : Tasks[p] = 1 /\ p \notin DependsOn[p]
  /\ Resolves(m)

\* Some registered agent with a worker has all the capabilities of the phase.
Covered(p) == registered \cap workers \cap Capable[p] # {}

\* run_specialist_plan: what the preflight sees may change before a task is
\* routed; nothing is reserved.
RunSpecialistPlan(r, m) ==
  /\ IsPlan(m)
  /\ \A p \in PhasesOf[m] : Covered(p)
  /\ RunMission(r, m)

Begin(r) ==
  /\ run[r].pc = "admitted"
  /\ missions' = [missions EXCEPT ![run[r].mission] = "Executing"]
  /\ run' = [run EXCEPT ![r].pc = "phase"]
  /\ UNCHANGED <<agentVars, activeMissions, shutdown>>

\* The phases of the earliest wave that is not finished; their order within
\* the wave is left open.
Remaining(r) == {p \in PhasesOf[run[r].mission] : run[r].outcomes[p] = "none"}

StartPhase(r, p) ==
  /\ run[r].pc = "phase"
  /\ p \in Remaining(r)
  /\ \A q \in Remaining(r) : WaveOf(run[r].mission, p) <= WaveOf(run[r].mission, q)
  /\ run' = [run EXCEPT ![r] = [@ EXCEPT !.pc = "task", !.phase = p, !.left = Tasks[p], !.ok = TRUE]]
  /\ UNCHANGED <<agentVars, missions, activeMissions, shutdown>>

StartTask(r) ==
  /\ run[r].pc = "task"
  /\ run[r].left > 0
  /\ IF shutdown \/ Blocked(r) \/ (HasFailed(r) /\ FailFast)
     THEN run' = [run EXCEPT ![r].left = @ - 1, ![r].ok = FALSE]
     ELSE run' = [run EXCEPT ![r].pc = "attempt", ![r].attempt = 0]
  /\ UNCHANGED <<agentVars, missions, activeMissions, shutdown>>

EndPhase(r) ==
  /\ run[r].pc = "task"
  /\ run[r].left = 0
  /\ run' = [run EXCEPT ![r] = [@ EXCEPT !.pc = "phase", !.phase = None,
               !.outcomes[run[r].phase] = IF run[r].ok /\ ~Blocked(r) THEN "ok" ELSE "bad"]]
  /\ UNCHANGED <<agentVars, missions, activeMissions, shutdown>>

\* Mutant: the phase forgets a failed task.
TaskFails_Forgotten(l) == [l EXCEPT !.pc = "task", !.left = @ - 1, !.agent = None]

\* The task is over without success.
TaskFails(l) == [l EXCEPT !.pc = "task", !.left = @ - 1, !.ok = FALSE, !.agent = None]

\* A phase's own policy comes before the mission's.
EffectiveRetries(p) == IF OwnRetries[p] = None THEN MaxRetries ELSE OwnRetries[p]

RetriesLeft(l) == l.attempt < EffectiveRetries(l.phase)

\* An attempt has failed: back off and try again, while retries last.
AttemptFails(l) ==
  IF RetriesLeft(l)
  THEN [l EXCEPT !.pc = "backoff", !.attempt = @ + 1, !.agent = None]
  ELSE TaskFails(l)

\* A deadline has passed, or shutdown is seen, before an attempt.
GiveUp(r) ==
  /\ run[r].pc \in {"attempt", "backoff"}
  /\ run' = [run EXCEPT ![r] = TaskFails(@)]
  /\ UNCHANGED <<agentVars, missions, activeMissions, shutdown>>

(***************************************************************************)
(* dispatch_executable_task: the router picks a least loaded agent, counts *)
(* the task, and the registry entry admits or refuses it.  Each reads what *)
(* other callers may have changed since.                                   *)
(***************************************************************************)
Candidates(r) == {a \in workers : load[a] # None /\ a \in Capable[run[r].phase]}

Route(r) ==
  /\ run[r].pc \in {"attempt", "backoff"}
  /\ ~shutdown
  /\ \/ \E a \in Candidates(r) :
          /\ \A b \in Candidates(r) : load[a] <= load[b]
          /\ run' = [run EXCEPT ![r].pc = "routed", ![r].agent = a]
     \/ /\ Candidates(r) = {}
        /\ run' = [run EXCEPT ![r] = AttemptFails(@)]
  /\ UNCHANGED <<agentVars, missions, activeMissions, shutdown>>

AssignLoad(r) ==
  /\ run[r].pc = "routed"
  /\ load' = [load EXCEPT ![run[r].agent] = IF @ = None THEN None ELSE @ + 1]
  /\ run' = [run EXCEPT ![r].pc = "assigned"]
  /\ UNCHANGED <<registered, active, workers, admin, missions, activeMissions, shutdown>>

Admit(r) ==
  /\ run[r].pc = "assigned"
  /\ LET a == run[r].agent
     IN \/ /\ a \in registered
           /\ active[a] < MaxTasksPerAgent
           /\ active' = [active EXCEPT ![a] = @ + 1]
           /\ run' = [run EXCEPT ![r].pc = "leased"]
           /\ UNCHANGED load
        \/ /\ a \notin registered \/ active[a] >= MaxTasksPerAgent
           /\ CompleteLoad(a)
           /\ run' = [run EXCEPT ![r] = AttemptFails(@)]
           /\ UNCHANGED active
  /\ UNCHANGED <<registered, workers, admin, missions, activeMissions, shutdown>>

\* The worker handler is looked up and called.
CallWorker(r) ==
  /\ run[r].pc = "leased"
  /\ run[r].agent \in workers
  /\ run' = [run EXCEPT ![r].pc = "executing"]
  /\ UNCHANGED <<agentVars, missions, activeMissions, shutdown>>

\* Mutant: the handler has no deadline.
WorkFails_NoDeadline(r) ==
  /\ run[r].pc = "leased"
  /\ RecordTaskDone(run[r].agent)
  /\ run' = [run EXCEPT ![r] = AttemptFails(@)]
  /\ UNCHANGED <<missions, activeMissions, shutdown>>

\* No worker, a deadline, or an error of the handler.
WorkFails(r) ==
  /\ run[r].pc \in Leased
  /\ RecordTaskDone(run[r].agent)
  /\ run' = [run EXCEPT ![r] = AttemptFails(@)]
  /\ UNCHANGED <<missions, activeMissions, shutdown>>

WorkSucceeds(r) ==
  /\ run[r].pc = "executing"
  /\ RecordTaskDone(run[r].agent)
  /\ run' = [run EXCEPT ![r] = [run[r] EXCEPT !.pc = "task", !.left = @ - 1, !.agent = None,
                                             !.succeeded[run[r].phase] = @ + 1]]
  /\ UNCHANGED <<missions, activeMissions, shutdown>>

\* The final state is recorded, then the lease frees the mission slot.
Finish(r) ==
  /\ run[r].pc = "phase"
  /\ Remaining(r) = {}
  /\ missions' = [missions EXCEPT ![run[r].mission] =
                    IF shutdown THEN "Cancelled" ELSE IF HasFailed(r) THEN "Failed" ELSE "Completed"]
  /\ run' = [run EXCEPT ![r].pc = "closing"]
  /\ UNCHANGED <<agentVars, activeMissions, shutdown>>

Close(r) ==
  /\ run[r].pc = "closing"
  /\ activeMissions' = activeMissions \ {run[r].mission}
  /\ run' = [run EXCEPT ![r] = Idle]
  /\ UNCHANGED <<agentVars, missions, shutdown>>

\* Mutant: a dropped mission keeps its task lease.
DropMission_KeepsLease(r) ==
  /\ run[r].pc \in {"backoff", "executing"}
  /\ activeMissions' = activeMissions \ {run[r].mission}
  /\ run' = [run EXCEPT ![r] = [Idle EXCEPT !.pc = "dropping", !.mission = run[r].mission]]
  /\ UNCHANGED <<agentVars, missions, shutdown>>

(***************************************************************************)
(* The caller drops the mission at an await, or the handler panics: the    *)
(* task lease is released and the slot freed; Cancelled is recorded after. *)
(***************************************************************************)
DropMission(r) ==
  /\ run[r].pc \in {"backoff", "executing"}
  /\ IF run[r].pc = "executing" THEN RecordTaskDone(run[r].agent) ELSE UNCHANGED agentVars
  /\ activeMissions' = activeMissions \ {run[r].mission}
  /\ run' = [run EXCEPT ![r] = [Idle EXCEPT !.pc = "dropping", !.mission = run[r].mission]]
  /\ UNCHANGED <<missions, shutdown>>

\* Mutant: a dropped mission stays as it was recorded.
RecordDrop_Silent(r) ==
  /\ run[r].pc = "dropping"
  /\ run' = [run EXCEPT ![r] = Idle]
  /\ UNCHANGED <<agentVars, missions, activeMissions, shutdown>>

RecordDrop(r) ==
  /\ run[r].pc = "dropping"
  /\ missions' = [missions EXCEPT ![run[r].mission] = "Cancelled"]
  /\ run' = [run EXCEPT ![r] = Idle]
  /\ UNCHANGED <<agentVars, activeMissions, shutdown>>

Shutdown ==
  /\ ~shutdown
  /\ shutdown' = TRUE
  /\ UNCHANGED <<agentVars, missions, activeMissions, run>>

-----------------------------------------------------------------------------

CallerStep(r) ==
  \/ Begin(r) \/ (\E p \in Phases : StartPhase(r, p)) \/ StartTask(r) \/ EndPhase(r)
  \/ GiveUp(r) \/ Route(r) \/ AssignLoad(r) \/ Admit(r)
  \/ CallWorker(r) \/ WorkFails(r)
  \/ Finish(r) \/ Close(r) \/ RecordDrop(r)

Next ==
  \/ \E r \in Callers, m \in MissionIds : RunMission(r, m) \/ RunSpecialistPlan(r, m)
  \/ \E r \in Callers : CallerStep(r) \/ WorkSucceeds(r) \/ DropMission(r)
  \/ \E a \in AgentIds : SpawnAgent(a) \/ RegisterWorker(a) \/ RemoveAgent(a)
  \/ AdminEnds
  \/ Shutdown

Spec == Init /\ [][Next]_vars

\* Callers are polled and deadlines pass: a handler that hangs is dropped.
\* No handler need succeed.
Fairness == \A r \in Callers : WF_vars(CallerStep(r))

FairSpec == Spec /\ Fairness

-----------------------------------------------------------------------------
(* Properties *)

Running(r) == run[r].pc \notin {"idle", "dropping"}

(***************************************************************************)
(* A mission slot is held exactly while a caller runs the mission, by one  *)
(* caller at a time, and there are never more than max_concurrent_missions *)
(* of them: no dropped, panicked or finished mission keeps its slot.       *)
(***************************************************************************)
MissionSlotsExact ==
  /\ activeMissions = {run[r].mission : r \in {q \in Callers : Running(q)}}
  /\ \A q, r \in Callers : Running(q) /\ Running(r) /\ run[q].mission = run[r].mission => q = r
  /\ Cardinality(activeMissions) <= MaxConcurrentMissions

(***************************************************************************)
(* When nobody runs a mission or is still dropping it, its recorded state  *)
(* is final: a drop that races the next run of the mission leaves no       *)
(* mission Executing for ever.                                             *)
(***************************************************************************)
SettledWhenIdle ==
  \A m \in MissionIds :
    (\A r \in Callers : run[r].mission # m) => missions[m] # "Executing"

\* Callers with a task lease on agent a.
Leases(a) == {r \in Callers : run[r].agent = a /\ run[r].pc \in Leased}

(***************************************************************************)
(* OrchestratorConfig, max_tasks_per_agent: "Maximum tasks dispatched to a *)
(* single agent at once", whatever is routed, refused, removed or dropped  *)
(* meanwhile.                                                              *)
(***************************************************************************)
AgentLimit == \A a \in AgentIds : Cardinality(Leases(a)) <= MaxTasksPerAgent

(***************************************************************************)
(* The active task count of a registered agent is the number of leases on  *)
(* it: every way a task ends releases its lease once.                      *)
(***************************************************************************)
CountsExact ==
  \A a \in AgentIds : a \in registered => active[a] = Cardinality(Leases(a))

(***************************************************************************)
(* A phase has work only if its dependencies succeeded, a phase that is ok *)
(* had every task succeed, and a mission recorded Completed by its caller  *)
(* has every task of every phase done.                                     *)
(***************************************************************************)
CompletedHonestly ==
  \A r \in Callers :
    /\ \A p \in Phases : run[r].succeeded[p] > 0 \/ (run[r].phase = p /\ run[r].pc \in Leased) =>
         \A d \in DependsOn[p] : run[r].outcomes[d] = "ok" /\ run[r].succeeded[d] = Tasks[d]
    /\ run[r].pc = "closing" /\ missions[run[r].mission] = "Completed" =>
         \A p \in PhasesOf[run[r].mission] : run[r].succeeded[p] = Tasks[p]

(***************************************************************************)
(* After shutdown every running mission comes to an end, whatever its      *)
(* handlers do.                                                            *)
(***************************************************************************)
ShutdownDrains == shutdown ~> \A r \in Callers : run[r].pc = "idle"

(***************************************************************************)
(* The books of the orchestrator, task counts, mission slots and mission   *)
(* states, agree with what its callers are doing, however missions are     *)
(* dropped and run again.                                                  *)
(***************************************************************************)
BooksExact == CountsExact /\ MissionSlotsExact /\ SettledWhenIdle

(***************************************************************************)
(* The orchestrator knows what is running and reports only what was done.  *)
(***************************************************************************)
OrchestratorSound == TypeOK /\ BooksExact /\ CompletedHonestly
=============================================================================
