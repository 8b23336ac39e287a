------------------------- MODULE OrchestratorProofs -------------------------
(***************************************************************************)
(* Proofs about the orchestrator: what it reports was done, and its books  *)
(* (mission slots, mission states, task counts) agree with its callers,    *)
(* for any number of callers, agents, missions, phases and tasks.          *)
(***************************************************************************)
EXTENDS Orchestrator, FiniteSetTheorems, TLAPS

Dispatching == {"attempt", "backoff", "routed", "assigned"} \cup Leased
InPhase == {"task"} \cup Dispatching

\* What a phase of l has is earned: nothing before it is started, every task
\* once it is ok, and work only when all its dependencies are ok.
Earned(l, p) ==
  /\ l.outcomes[p] = "ok" => l.succeeded[p] = Tasks[p]
  /\ l.outcomes[p] = "none" /\ ~(l.pc \in InPhase /\ l.phase = p) => l.succeeded[p] = 0
  /\ l.succeeded[p] > 0 => \A d \in DependsOn[p] : l.outcomes[d] = "ok"

\* The locals of one caller.
LocalInv(l) ==
  /\ l \in Locals
  /\ l.pc = "idle" => l = Idle
  /\ l.pc # "idle" => l.mission \in MissionIds
  /\ l.pc \in InPhase =>
       /\ l.phase \in Phases
       /\ l.outcomes[l.phase] = "none"
       /\ l.ok => l.succeeded[l.phase] + l.left = Tasks[l.phase]
  /\ l.pc \in Dispatching => l.left > 0 /\ \A d \in DependsOn[l.phase] : l.outcomes[d] = "ok"
  /\ l.pc \in {"routed", "assigned"} \cup Leased => l.agent \in AgentIds
  /\ \A p \in Phases : Earned(l, p)

CallersInv == run \in [Callers -> Locals] /\ \A r \in Callers : LocalInv(run[r])

AgentsTyped ==
  /\ registered \subseteq AgentIds
  /\ active \in [AgentIds -> Nat]
  /\ workers \subseteq AgentIds
  /\ load \in [AgentIds -> Nat \cup {None}]
  /\ admin \in [op : {"spawn", "remove"}, agent : AgentIds] \cup {None}
  /\ shutdown \in BOOLEAN

\* A slot per running caller; a mission that is closing has its final state,
\* and one recorded Executing has a caller that will settle it.
MissionsInv ==
  /\ missions \in [MissionIds -> {None} \cup MissionState]
  /\ activeMissions \subseteq MissionIds
  /\ IsFiniteSet(activeMissions)
  /\ MissionSlotsExact
  /\ \A r \in Callers : run[r].pc = "closing" =>
       /\ missions[run[r].mission] # "Executing"
       /\ missions[run[r].mission] = "Completed" =>
            \A p \in PhasesOf[run[r].mission] : run[r].succeeded[p] = Tasks[p]
  /\ \A m \in MissionIds : missions[m] = "Executing" =>
       \E r \in Callers : run[r].pc # "idle" /\ run[r].mission = m

\* Where agents are drained before they are spawned again or removed.
LeasesInv ==
  \A a \in AgentIds :
    /\ IsFiniteSet(Leases(a))
    /\ DrainFirst =>
         /\ a \in registered => active[a] = Cardinality(Leases(a))
         /\ Cardinality(Leases(a)) <= MaxTasksPerAgent

OrchestratorInv == AgentsTyped /\ CallersInv /\ MissionsInv /\ LeasesInv

-----------------------------------------------------------------------------

(* The locals of a caller *)

LEMMA IdleIsFine == LocalInv(Idle) /\ Idle.pc = "idle"
  BY PhasesAssumption DEF LocalInv, Locals, Idle, Earned, Outcome, InPhase, Dispatching, Leased, OnTheWay

\* A task that is given up leaves the phase with one task less.
LEMMA TaskFailsLocally ==
  ASSUME NEW l, LocalInv(l), l.pc \in Dispatching
  PROVE  /\ LocalInv(TaskFails(l))
         /\ TaskFails(l).pc = "task" /\ TaskFails(l).mission = l.mission
<1>. DEFINE n == l.left - 1
            t == [l EXCEPT !.pc = "task", !.left = n, !.ok = FALSE, !.agent = None]
<1>0. TaskFails(l) = t
  BY DEF TaskFails
<1>1. /\ l \in Locals /\ l.left \in Nat /\ l.left > 0 /\ l.phase \in Phases
      /\ l.mission \in MissionIds /\ l.outcomes[l.phase] = "none" /\ n \in Nat
  BY DEF LocalInv, Locals, InPhase, Dispatching, Leased
<1>. HIDE DEF n
<1>2. /\ t \in Locals /\ t.pc = "task" /\ t.mission = l.mission /\ t.phase = l.phase
      /\ t.outcomes = l.outcomes /\ t.succeeded = l.succeeded /\ t.ok = FALSE
  BY <1>1 DEF Locals, OnTheWay
<1>. HIDE DEF t
<1>3. \A p \in Phases : Earned(t, p)
  BY <1>2 DEF LocalInv, Earned, InPhase
<1>. QED BY <1>0, <1>1, <1>2, <1>3 DEF LocalInv, Dispatching, Leased

\* A failed attempt is followed by another one or by the end of the task.
LEMMA AttemptFailsLocally ==
  ASSUME NEW l, LocalInv(l), l.pc \in Dispatching
  PROVE  /\ LocalInv(AttemptFails(l))
         /\ AttemptFails(l).pc \in {"task", "backoff"} /\ AttemptFails(l).mission = l.mission
<1>1. CASE ~RetriesLeft(l)
  BY <1>1, TaskFailsLocally DEF AttemptFails
<1>2. CASE RetriesLeft(l)
  <2>. DEFINE n == l.attempt + 1
              t == [l EXCEPT !.pc = "backoff", !.attempt = n, !.agent = None]
  <2>1. /\ l \in Locals /\ l.left > 0 /\ l.phase \in Phases /\ l.mission \in MissionIds
        /\ l.outcomes[l.phase] = "none" /\ l.pc \in InPhase /\ n \in Nat
    BY DEF LocalInv, Locals, InPhase, Dispatching, Leased
  <2>3. AttemptFails(l) = t
    BY <1>2 DEF AttemptFails
  <2>. HIDE DEF n
  <2>2. /\ t \in Locals /\ t.pc = "backoff" /\ t.mission = l.mission /\ t.phase = l.phase
        /\ t.outcomes = l.outcomes /\ t.succeeded = l.succeeded /\ t.ok = l.ok /\ t.left = l.left
    BY <2>1 DEF Locals, OnTheWay
  <2>. HIDE DEF t
  <2>4. \A p \in Phases : Earned(t, p)
    BY <2>1, <2>2 DEF LocalInv, Earned, InPhase, Dispatching
  <2>5. LocalInv(t)
    BY <2>1, <2>2, <2>4 DEF LocalInv, Dispatching, Leased
  <2>. QED BY <2>2, <2>3, <2>5
<1>. QED BY <1>1, <1>2

LEMMA OneCallerSteps ==
  ASSUME CallersInv, NEW r \in Callers, NEW l, LocalInv(l), run' = [run EXCEPT ![r] = l]
  PROVE  /\ CallersInv' /\ run'[r] = l
         /\ \A q \in Callers \ {r} : run'[q] = run[q]
<1>1. run \in [Callers -> Locals] /\ l \in Locals
  BY DEF CallersInv, LocalInv
<1>2. run' \in [Callers -> Locals] /\ run'[r] = l /\ \A q \in Callers \ {r} : run'[q] = run[q]
  BY <1>1
<1>. QED BY <1>2 DEF CallersInv

-----------------------------------------------------------------------------
(* What the steps of a caller do *)

Alone(r) == CallersInv' /\ \A q \in Callers \ {r} : run'[q] = run[q]

\* The caller goes on with its mission.
GoesOn(r) ==
  /\ Alone(r)
  /\ run'[r].mission = run[r].mission
  /\ run[r].pc \notin {"idle", "dropping", "closing"} /\ run'[r].pc \notin {"idle", "dropping", "closing"}
  /\ UNCHANGED <<missions, activeMissions, shutdown>>

NoLease(r) == run[r].pc \notin Leased /\ run'[r].pc \notin Leased

LEMMA StartPhaseDoes ==
  ASSUME OrchestratorInv, NEW r \in Callers, NEW p \in Phases, StartPhase(r, p)
  PROVE  GoesOn(r) /\ NoLease(r) /\ UNCHANGED agentVars
<1>. DEFINE l == [run[r] EXCEPT !.pc = "task", !.phase = p, !.left = Tasks[p], !.ok = TRUE]
<1>1. /\ run' = [run EXCEPT ![r] = l] /\ run[r].pc = "phase" /\ run[r].outcomes[p] = "none"
      /\ LocalInv(run[r]) /\ run[r] \in Locals /\ Tasks[p] \in Nat /\ CallersInv
  BY PhasesAssumption DEF OrchestratorInv, CallersInv, StartPhase, Remaining
<1>2. /\ l \in Locals /\ l.pc = "task" /\ l.mission = run[r].mission /\ l.phase = p
      /\ l.outcomes = run[r].outcomes /\ l.succeeded = run[r].succeeded /\ l.ok /\ l.left = Tasks[p]
  BY <1>1 DEF Locals, OnTheWay
<1>. HIDE DEF l
<1>3. l.succeeded[p] = 0 /\ \A q \in Phases : Earned(l, q)
  BY <1>1, <1>2 DEF LocalInv, Earned, InPhase, Dispatching, Leased
<1>4. LocalInv(l)
  BY <1>1, <1>2, <1>3 DEF LocalInv, Dispatching, Leased
<1>. QED BY <1>1, <1>2, <1>4, OneCallerSteps DEF GoesOn, Alone, NoLease, Leased, StartPhase

LEMMA StartTaskDoes ==
  ASSUME OrchestratorInv, NEW r \in Callers, StartTask(r)
  PROVE  GoesOn(r) /\ NoLease(r) /\ UNCHANGED agentVars
<1>1. /\ run \in [Callers -> Locals] /\ run[r].pc = "task" /\ run[r].left > 0 /\ LocalInv(run[r])
      /\ run[r] \in Locals /\ CallersInv
  BY DEF OrchestratorInv, CallersInv, StartTask
<1>2. CASE shutdown \/ Blocked(r) \/ (HasFailed(r) /\ FailFast)
  <2>. DEFINE n == run[r].left - 1
              l == [run[r] EXCEPT !.left = n, !.ok = FALSE]
  <2>0. run' = [run EXCEPT ![r].left = @ - 1, ![r].ok = FALSE]
    BY <1>2 DEF StartTask
  <2>a. run' = [run EXCEPT ![r] = l]
    BY <1>1, <2>0
  <2>b. n \in Nat
    BY <1>1 DEF Locals
  <2>1. run' = [run EXCEPT ![r] = l] /\ n \in Nat
    BY <2>a, <2>b
  <2>. HIDE DEF n
  <2>2. /\ l \in Locals /\ l.pc = "task" /\ l.mission = run[r].mission /\ l.phase = run[r].phase
        /\ l.outcomes = run[r].outcomes /\ l.succeeded = run[r].succeeded /\ l.ok = FALSE
    BY <1>1, <2>1 DEF Locals
  <2>. HIDE DEF l
  <2>3. LocalInv(l)
    BY <1>1, <2>2 DEF LocalInv, Earned, InPhase, Dispatching, Leased
  <2>. QED BY <1>1, <2>1, <2>2, <2>3, OneCallerSteps DEF GoesOn, Alone, NoLease, Leased, StartTask
<1>3. CASE ~(shutdown \/ Blocked(r) \/ (HasFailed(r) /\ FailFast))
  <2>. DEFINE l == [run[r] EXCEPT !.pc = "attempt", !.attempt = 0]
  <2>1. run' = [run EXCEPT ![r] = l] /\ \A d \in DependsOn[run[r].phase] : run[r].outcomes[d] = "ok"
    BY <1>1, <1>3 DEF StartTask, Blocked
  <2>2. /\ l \in Locals /\ l.pc = "attempt" /\ l.mission = run[r].mission /\ l.phase = run[r].phase
        /\ l.outcomes = run[r].outcomes /\ l.succeeded = run[r].succeeded /\ l.ok = run[r].ok
        /\ l.left = run[r].left
    BY <1>1 DEF Locals, OnTheWay
  <2>. HIDE DEF l
  <2>3. LocalInv(l)
    BY <1>1, <2>1, <2>2 DEF LocalInv, Earned, InPhase, Dispatching, Leased
  <2>. QED BY <1>1, <2>1, <2>2, <2>3, OneCallerSteps DEF GoesOn, Alone, NoLease, Leased, StartTask
<1>. QED BY <1>2, <1>3

LEMMA EndPhaseDoes ==
  ASSUME OrchestratorInv, NEW r \in Callers, EndPhase(r)
  PROVE  GoesOn(r) /\ NoLease(r) /\ UNCHANGED agentVars
<1>. DEFINE o == IF run[r].ok /\ ~Blocked(r) THEN "ok" ELSE "bad"
            l == [run[r] EXCEPT !.pc = "phase", !.phase = None, !.outcomes[run[r].phase] = o]
<1>1. /\ run' = [run EXCEPT ![r] = l] /\ run[r].pc = "task" /\ run[r].left = 0
      /\ LocalInv(run[r]) /\ run[r] \in Locals /\ run[r].phase \in Phases /\ CallersInv
  BY DEF OrchestratorInv, CallersInv, EndPhase, LocalInv, InPhase
<1>2. o \in {"ok", "bad"} /\ (o = "ok" => run[r].ok)
  OBVIOUS
<1>. HIDE DEF o
<1>3. /\ l \in Locals /\ l.pc = "phase" /\ l.mission = run[r].mission
      /\ l.outcomes[run[r].phase] = o
      /\ \A p \in Phases \ {run[r].phase} : l.outcomes[p] = run[r].outcomes[p]
      /\ l.succeeded = run[r].succeeded
  BY <1>1, <1>2 DEF Locals, OnTheWay, Outcome
<1>. HIDE DEF l
<1>4. ASSUME NEW p \in Phases
      PROVE  Earned(l, p)
  <2>1. DependsOn[p] \subseteq Phases /\ Tasks[p] \in Nat /\ run[r].succeeded[p] \in Nat
    BY <1>1, PhasesAssumption DEF Locals
  <2>2. run[r].outcomes[run[r].phase] = "none" /\ (o = "ok" => run[r].succeeded[run[r].phase] + 0 = Tasks[run[r].phase])
    BY <1>1, <1>2 DEF LocalInv, InPhase
  <2>3. run[r].succeeded[run[r].phase] \in Nat
    BY <1>1 DEF Locals
  <2>. QED BY <1>1, <1>2, <1>3, <2>1, <2>2, <2>3 DEF LocalInv, Earned, InPhase, Dispatching, Leased
<1>5. LocalInv(l)
  BY <1>1, <1>3, <1>4 DEF LocalInv, InPhase, Dispatching, Leased
<1>. QED BY <1>1, <1>3, <1>5, OneCallerSteps DEF GoesOn, Alone, NoLease, Leased, EndPhase

\* Only the place of the caller and its agent change, within the dispatch of a task.
LEMMA Advances ==
  ASSUME OrchestratorInv, NEW r \in Callers, run[r].pc \in Dispatching,
         NEW l \in Locals, run' = [run EXCEPT ![r] = l], l.pc \in Dispatching, l.agent \in AgentIds,
         l.mission = run[r].mission, l.phase = run[r].phase, l.outcomes = run[r].outcomes,
         l.succeeded = run[r].succeeded, l.ok = run[r].ok, l.left = run[r].left
  PROVE  Alone(r) /\ run'[r] = l
<1>1. LocalInv(run[r]) /\ CallersInv /\ run[r].pc \in InPhase
  BY DEF OrchestratorInv, CallersInv, InPhase
<1>2. \A p \in Phases : Earned(l, p)
  BY <1>1 DEF LocalInv, Earned, InPhase
<1>3. LocalInv(l)
  BY <1>1, <1>2 DEF LocalInv, InPhase, Dispatching, Leased
<1>. QED BY <1>1, <1>3, OneCallerSteps DEF Alone

LEMMA Moves ==
  ASSUME OrchestratorInv, NEW r \in Callers, NEW pc \in Dispatching,
         run[r].pc \in Dispatching, run[r].agent \in AgentIds, run' = [run EXCEPT ![r].pc = pc]
  PROVE  /\ Alone(r) /\ run'[r].mission = run[r].mission
         /\ run'[r].pc = pc /\ run'[r].agent = run[r].agent
<1>. DEFINE l == [run[r] EXCEPT !.pc = pc]
<1>1. run[r] \in Locals /\ run' = [run EXCEPT ![r] = l]
  BY DEF OrchestratorInv, CallersInv
<1>2. /\ l \in Locals /\ l.pc = pc /\ l.agent = run[r].agent /\ l.mission = run[r].mission
      /\ l.phase = run[r].phase /\ l.outcomes = run[r].outcomes /\ l.succeeded = run[r].succeeded
      /\ l.ok = run[r].ok /\ l.left = run[r].left
  BY <1>1 DEF Locals, Dispatching, OnTheWay, Leased
<1>. HIDE DEF l
<1>. QED BY <1>1, <1>2, Advances

LEMMA Fails ==
  ASSUME OrchestratorInv, NEW r \in Callers, run[r].pc \in Dispatching,
         \/ run' = [run EXCEPT ![r] = TaskFails(run[r])]
         \/ run' = [run EXCEPT ![r] = AttemptFails(run[r])]
  PROVE  Alone(r) /\ run'[r].mission = run[r].mission /\ run'[r].pc \in {"task", "backoff"}
<1>1. LocalInv(run[r]) /\ CallersInv
  BY DEF OrchestratorInv, CallersInv
<1>. QED BY <1>1, TaskFailsLocally, AttemptFailsLocally, OneCallerSteps DEF Alone

LEMMA GiveUpDoes ==
  ASSUME OrchestratorInv, NEW r \in Callers, GiveUp(r)
  PROVE  GoesOn(r) /\ NoLease(r) /\ UNCHANGED agentVars
<1>1. Alone(r) /\ run'[r].mission = run[r].mission /\ run'[r].pc \in {"task", "backoff"}
  BY Fails DEF GiveUp, Dispatching
<1>. QED BY <1>1 DEF GiveUp, GoesOn, NoLease, Leased

LEMMA RouteDoes ==
  ASSUME OrchestratorInv, NEW r \in Callers, Route(r)
  PROVE  GoesOn(r) /\ NoLease(r) /\ UNCHANGED agentVars
<1>1. run[r].pc \in {"attempt", "backoff"} /\ run \in [Callers -> Locals]
  BY DEF Route, OrchestratorInv, CallersInv
<1>2. CASE run' = [run EXCEPT ![r] = AttemptFails(run[r])]
  <2>1. Alone(r) /\ run'[r].mission = run[r].mission /\ run'[r].pc \in {"task", "backoff"}
    BY <1>1, <1>2, Fails DEF Dispatching
  <2>. QED BY <1>1, <2>1 DEF Route, GoesOn, NoLease, Leased
<1>3. ASSUME NEW a \in Candidates(r), run' = [run EXCEPT ![r].pc = "routed", ![r].agent = a]
      PROVE  GoesOn(r) /\ NoLease(r) /\ UNCHANGED agentVars
  <2>1. a \in AgentIds
    BY DEF Candidates, OrchestratorInv, AgentsTyped
  <2>2. run' = [run EXCEPT ![r] = [run[r] EXCEPT !.pc = "routed", !.agent = a]]
    BY <1>1, <1>3
  <2>. DEFINE l == [run[r] EXCEPT !.pc = "routed", !.agent = a]
  <2>3. run[r] \in Locals
    BY <1>1
  <2>4. /\ l \in Locals /\ l.pc = "routed" /\ l.agent = a /\ l.mission = run[r].mission
        /\ l.phase = run[r].phase /\ l.outcomes = run[r].outcomes
        /\ l.succeeded = run[r].succeeded /\ l.ok = run[r].ok /\ l.left = run[r].left
    BY <2>1, <2>3 DEF Locals, OnTheWay
  <2>. HIDE DEF l
  <2>5. Alone(r) /\ run'[r] = l
    BY <1>1, <2>1, <2>2, <2>4, Advances DEF Dispatching, l
  <2>. QED BY <1>1, <2>4, <2>5 DEF Route, GoesOn, NoLease, Leased
<1>. QED BY <1>2, <1>3 DEF Route

LEMMA AssignLoadDoes ==
  ASSUME OrchestratorInv, NEW r \in Callers, AssignLoad(r)
  PROVE  GoesOn(r) /\ NoLease(r) /\ AgentsTyped' /\ UNCHANGED <<registered, active>>
<1>. DEFINE a == run[r].agent
<1>1. /\ run[r].pc = "routed" /\ run \in [Callers -> Locals] /\ a \in AgentIds /\ run[r] \in Locals
      /\ run' = [run EXCEPT ![r].pc = "assigned"]
  BY DEF AssignLoad, OrchestratorInv, CallersInv, LocalInv
<1>3. Alone(r) /\ run'[r].mission = run[r].mission /\ run'[r].pc = "assigned"
  BY <1>1, Moves DEF Dispatching
<1>4. AgentsTyped'
  BY <1>1 DEF AssignLoad, OrchestratorInv, AgentsTyped
<1>. QED BY <1>1, <1>3, <1>4 DEF AssignLoad, GoesOn, NoLease, Leased

LEMMA CompleteLoadTyped ==
  ASSUME load \in [AgentIds -> Nat \cup {None}], NEW a \in AgentIds, CompleteLoad(a)
  PROVE  load' \in [AgentIds -> Nat \cup {None}]
<1>. DEFINE n == IF load[a] \in {None, 0} THEN load[a] ELSE load[a] - 1
<1>1. n \in Nat \cup {None}
  OBVIOUS
<1>. HIDE DEF n
<1>2. load' = [load EXCEPT ![a] = n]
  BY DEF CompleteLoad, n
<1>. QED BY <1>1, <1>2

\* The agent refuses, or grants a lease.
Granted(r) ==
  LET a == run[r].agent IN
  /\ a \in registered /\ active[a] < MaxTasksPerAgent
  /\ active' = [active EXCEPT ![a] = @ + 1]
  /\ run'[r].pc = "leased" /\ run'[r].agent = a
LEMMA AdmitDoes ==
  ASSUME OrchestratorInv, NEW r \in Callers, Admit(r)
  PROVE  /\ GoesOn(r) /\ AgentsTyped' /\ UNCHANGED registered
         /\ run[r].pc \notin Leased /\ run[r].agent \in AgentIds
         /\ Granted(r) \/ (NoLease(r) /\ UNCHANGED active)
<1>. DEFINE a == run[r].agent
<1>1. /\ run[r].pc = "assigned" /\ run \in [Callers -> Locals] /\ a \in AgentIds /\ run[r] \in Locals
      /\ UNCHANGED <<registered, workers, admin, missions, activeMissions, shutdown>>
  BY DEF Admit, OrchestratorInv, CallersInv, LocalInv
<1>2. ASSUME a \in registered, active[a] < MaxTasksPerAgent, UNCHANGED load,
             active' = [active EXCEPT ![a] = @ + 1], run' = [run EXCEPT ![r].pc = "leased"]
      PROVE  GoesOn(r) /\ AgentsTyped' /\ Granted(r)
    <2>2. Alone(r) /\ run'[r].mission = run[r].mission /\ run'[r].pc = "leased" /\ run'[r].agent = a
    BY <1>1, <1>2, Moves DEF Dispatching, Leased
  <2>3. AgentsTyped'
    BY <1>1, <1>2 DEF OrchestratorInv, AgentsTyped
  <2>. QED BY <1>1, <1>2, <2>2, <2>3 DEF GoesOn, Granted
<1>3. ASSUME CompleteLoad(a), UNCHANGED active, run' = [run EXCEPT ![r] = AttemptFails(run[r])]
      PROVE  GoesOn(r) /\ AgentsTyped' /\ NoLease(r) /\ UNCHANGED active
  <2>1. Alone(r) /\ run'[r].mission = run[r].mission /\ run'[r].pc \in {"task", "backoff"}
    BY <1>1, <1>3, Fails DEF Dispatching
  <2>2. AgentsTyped'
    BY <1>1, <1>3, CompleteLoadTyped DEF OrchestratorInv, AgentsTyped
  <2>. QED BY <1>1, <1>3, <2>1, <2>2 DEF GoesOn, NoLease, Leased
<1>4. run[r].pc \notin Leased
  BY <1>1 DEF Leased
<1>. QED BY <1>1, <1>2, <1>3, <1>4 DEF Admit

LEMMA CallWorkerDoes ==
  ASSUME OrchestratorInv, NEW r \in Callers, CallWorker(r)
  PROVE  /\ GoesOn(r) /\ UNCHANGED agentVars
         /\ run[r].pc \in Leased /\ run'[r].pc \in Leased /\ run'[r].agent = run[r].agent
<1>. DEFINE a == run[r].agent
<1>1. /\ run[r].pc = "leased" /\ run \in [Callers -> Locals] /\ a \in AgentIds /\ run[r] \in Locals
      /\ run' = [run EXCEPT ![r].pc = "executing"]
  BY DEF CallWorker, OrchestratorInv, CallersInv, LocalInv, Leased
<1>3. Alone(r) /\ run'[r].mission = run[r].mission /\ run'[r].pc = "executing" /\ run'[r].agent = a
  BY <1>1, Moves DEF Dispatching, Leased
<1>. QED BY <1>1, <1>3 DEF CallWorker, GoesOn, Leased

\* A lease is released.
Released(r) ==
  LET a == run[r].agent IN
  /\ run[r].pc \in Leased /\ a \in AgentIds /\ run'[r].pc \notin Leased
  /\ active' = [active EXCEPT ![a] = IF a \notin registered \/ active[a] = 0 THEN @ ELSE @ - 1]
  /\ UNCHANGED registered

LEMMA RecordTaskDoneTyped ==
  ASSUME AgentsTyped, NEW a \in AgentIds, RecordTaskDone(a), UNCHANGED shutdown
  PROVE  AgentsTyped'
<1>. DEFINE n == IF a \notin registered \/ active[a] = 0 THEN active[a] ELSE active[a] - 1
<1>1. n \in Nat
  BY DEF AgentsTyped
<1>. HIDE DEF n
<1>2. active' = [active EXCEPT ![a] = n]
  BY DEF RecordTaskDone, n
<1>3. active' \in [AgentIds -> Nat]
  BY <1>1, <1>2 DEF AgentsTyped
<1>. QED BY <1>3, CompleteLoadTyped DEF AgentsTyped, RecordTaskDone

LEMMA WorkFailsDoes ==
  ASSUME OrchestratorInv, NEW r \in Callers, WorkFails(r)
  PROVE  GoesOn(r) /\ AgentsTyped' /\ Released(r)
<1>1. /\ run[r].pc \in Leased /\ run[r].agent \in AgentIds /\ RecordTaskDone(run[r].agent)
      /\ run' = [run EXCEPT ![r] = AttemptFails(run[r])]
  BY DEF WorkFails, OrchestratorInv, CallersInv, LocalInv
<1>2. Alone(r) /\ run'[r].mission = run[r].mission /\ run'[r].pc \in {"task", "backoff"}
  BY <1>1, Fails DEF Dispatching
<1>3. AgentsTyped'
  BY <1>1, RecordTaskDoneTyped DEF OrchestratorInv, WorkFails
<1>. QED BY <1>1, <1>2, <1>3 DEF WorkFails, GoesOn, Leased, Released, RecordTaskDone

LEMMA WorkSucceedsDoes ==
  ASSUME OrchestratorInv, NEW r \in Callers, WorkSucceeds(r)
  PROVE  GoesOn(r) /\ AgentsTyped' /\ Released(r)
<1>. DEFINE p == run[r].phase
            n == run[r].left - 1
            k == run[r].succeeded[p] + 1
            l == [run[r] EXCEPT !.pc = "task", !.left = n, !.agent = None, !.succeeded[p] = k]
<1>1. /\ run[r].pc = "executing" /\ run[r].pc \in Leased /\ run[r].pc \in InPhase
      /\ run[r].pc \in Dispatching /\ LocalInv(run[r]) /\ CallersInv
      /\ RecordTaskDone(run[r].agent)
  BY DEF WorkSucceeds, OrchestratorInv, CallersInv, Leased, InPhase, Dispatching
<1>0. run' = [run EXCEPT ![r] = l]
  BY DEF WorkSucceeds
<1>2. /\ run[r] \in Locals /\ p \in Phases /\ run[r].agent \in AgentIds
      /\ run[r].succeeded \in [Phases -> Nat] /\ n \in Nat /\ k \in Nat /\ k > 0
      /\ run[r].outcomes[p] = "none" /\ (\A d \in DependsOn[p] : run[r].outcomes[d] = "ok")
      /\ run[r].ok => k + n = Tasks[p]
  BY <1>1, PhasesAssumption DEF LocalInv, Locals
<1>. HIDE DEF n, k, p
<1>3. /\ l \in Locals /\ l.pc = "task" /\ l.mission = run[r].mission /\ l.phase = run[r].phase
      /\ l.outcomes = run[r].outcomes /\ l.ok = run[r].ok /\ l.left = n
      /\ l.succeeded[p] = k /\ \A q \in Phases \ {p} : l.succeeded[q] = run[r].succeeded[q]
  BY <1>2 DEF Locals, OnTheWay
<1>. HIDE DEF l
<1>4. \A q \in Phases : Earned(l, q)
  BY <1>1, <1>2, <1>3 DEF LocalInv, Earned, InPhase, p
<1>5. LocalInv(l)
  BY <1>1, <1>2, <1>3, <1>4 DEF LocalInv, InPhase, Dispatching, Leased, p
<1>6. Alone(r) /\ run'[r] = l
  BY <1>0, <1>1, <1>5, OneCallerSteps DEF Alone
<1>7. AgentsTyped'
  BY <1>1, <1>2, RecordTaskDoneTyped DEF OrchestratorInv, WorkSucceeds
<1>. QED BY <1>1, <1>2, <1>3, <1>6, <1>7 DEF WorkSucceeds, GoesOn, Leased, Released, RecordTaskDone

\* A caller with no phase in progress goes to another such place.
LEMMA BetweenPhases ==
  ASSUME OrchestratorInv, NEW r \in Callers, run[r].pc \in {"admitted", "phase"},
         NEW pc \in {"phase", "closing"}, run' = [run EXCEPT ![r].pc = pc]
  PROVE  /\ Alone(r) /\ run'[r].mission = run[r].mission /\ run'[r].pc = pc
         /\ run'[r].succeeded = run[r].succeeded
<1>. DEFINE l == [run[r] EXCEPT !.pc = pc]
<1>1. /\ run[r] \in Locals /\ run' = [run EXCEPT ![r] = l] /\ LocalInv(run[r]) /\ CallersInv
  BY DEF OrchestratorInv, CallersInv
<1>2. /\ l \in Locals /\ l.pc = pc /\ l.mission = run[r].mission
      /\ l.outcomes = run[r].outcomes /\ l.succeeded = run[r].succeeded
  BY <1>1 DEF Locals, OnTheWay
<1>. HIDE DEF l
<1>3. \A p \in Phases : Earned(l, p)
  BY <1>1, <1>2 DEF LocalInv, Earned, InPhase, Dispatching, Leased
<1>4. LocalInv(l)
  BY <1>1, <1>2, <1>3 DEF LocalInv, InPhase, Dispatching, Leased
<1>. QED BY <1>1, <1>2, <1>4, OneCallerSteps DEF Alone

LEMMA BeginDoes ==
  ASSUME OrchestratorInv, NEW r \in Callers, Begin(r)
  PROVE  /\ Alone(r) /\ run'[r].mission = run[r].mission
         /\ run[r].pc = "admitted" /\ run'[r].pc = "phase" /\ NoLease(r)
  BY BetweenPhases DEF Begin, NoLease, Leased

LEMMA FinishDoes ==
  ASSUME OrchestratorInv, NEW r \in Callers, Finish(r)
  PROVE  /\ Alone(r) /\ run'[r].mission = run[r].mission /\ run'[r].succeeded = run[r].succeeded
         /\ run[r].pc = "phase" /\ run'[r].pc = "closing" /\ NoLease(r)
  BY BetweenPhases DEF Finish, NoLease, Leased

\* A caller leaves its mission behind or begins one: nothing is in progress.
LEMMA Fresh ==
  ASSUME OrchestratorInv, NEW r \in Callers, NEW m \in MissionIds, NEW pc \in {"admitted", "dropping"},
         run' = [run EXCEPT ![r] = [Idle EXCEPT !.pc = pc, !.mission = m]]
  PROVE  Alone(r) /\ run'[r].mission = m /\ run'[r].pc = pc
<1>. DEFINE l == [Idle EXCEPT !.pc = pc, !.mission = m]
<1>1. /\ l.pc = pc /\ l.mission = m /\ l.outcomes = [p \in Phases |-> "none"]
      /\ l.succeeded = [p \in Phases |-> 0] /\ l \in Locals
  BY DEF Idle, Locals, OnTheWay, Outcome
<1>. HIDE DEF l
<1>2. LocalInv(l)
  BY <1>1, PhasesAssumption DEF LocalInv, Earned, InPhase, Dispatching, Leased
<1>3. CallersInv
  BY DEF OrchestratorInv
<1>. QED BY <1>1, <1>2, <1>3, OneCallerSteps DEF Alone, l

LEMMA LeavesDoes ==
  ASSUME OrchestratorInv, NEW r \in Callers, run' = [run EXCEPT ![r] = Idle]
  PROVE  Alone(r) /\ run'[r] = Idle /\ run'[r].pc = "idle"
<1>1. CallersInv
  BY DEF OrchestratorInv
<1>. QED BY <1>1, IdleIsFine, OneCallerSteps DEF Alone

-----------------------------------------------------------------------------
(* Mission slots and mission states *)

\* The slots of the running callers.
Slots == {run[r].mission : r \in {q \in Callers : Running(q)}}
Exclusive == \A q, r \in Callers : Running(q) /\ Running(r) /\ run[q].mission = run[r].mission => q = r

LEMMA GoesOnKeepsMissions ==
  ASSUME OrchestratorInv, NEW r \in Callers, GoesOn(r)
  PROVE  MissionsInv'
<1>1. \A q \in Callers : /\ Running(q)' = Running(q) /\ run'[q].mission = run[q].mission
                         /\ (run'[q].pc = "closing") = (run[q].pc = "closing")
                         /\ (run'[q].pc = "idle") = (run[q].pc = "idle")
                         /\ run[q].pc = "closing" => run'[q] = run[q]
  BY DEF GoesOn, Alone, Running
<1>2. Slots' = Slots /\ (Exclusive => Exclusive')
  BY <1>1 DEF Slots, Exclusive
<1>3. MissionSlotsExact'
  BY <1>2 DEF OrchestratorInv, MissionsInv, MissionSlotsExact, GoesOn, Slots, Exclusive
<1>4. \A q \in Callers : run'[q].pc = "closing" =>
        /\ missions'[run'[q].mission] # "Executing"
        /\ missions'[run'[q].mission] = "Completed" =>
            \A p \in PhasesOf[run'[q].mission] : run'[q].succeeded[p] = Tasks[p]
  BY <1>1 DEF OrchestratorInv, MissionsInv, GoesOn
<1>5. \A m \in MissionIds : missions'[m] = "Executing" =>
        \E q \in Callers : run'[q].pc # "idle" /\ run'[q].mission = m
  BY <1>1 DEF OrchestratorInv, MissionsInv, GoesOn
<1>. QED BY <1>3, <1>4, <1>5 DEF OrchestratorInv, MissionsInv, GoesOn

LEMMA RunMissionKeepsMissions ==
  ASSUME OrchestratorInv, NEW r \in Callers, NEW m \in MissionIds, RunMission(r, m)
  PROVE  Alone(r) /\ NoLease(r) /\ MissionsInv'
<1>1. /\ run[r].pc = "idle" /\ m \notin activeMissions /\ Cardinality(activeMissions) < MaxConcurrentMissions
      /\ activeMissions' = activeMissions \cup {m} /\ missions' = missions
      /\ run' = [run EXCEPT ![r] = [Idle EXCEPT !.pc = "admitted", !.mission = m]]
  BY DEF RunMission
<1>2. Alone(r) /\ run'[r].mission = m /\ run'[r].pc = "admitted"
  BY <1>1, Fresh
<1>3. /\ IsFiniteSet(activeMissions) /\ activeMissions = Slots /\ Exclusive
      /\ Cardinality(activeMissions) <= MaxConcurrentMissions
  BY DEF OrchestratorInv, MissionsInv, MissionSlotsExact, Slots, Exclusive
<1>4. IsFiniteSet(activeMissions') /\ Cardinality(activeMissions') <= MaxConcurrentMissions
  <2>1. IsFiniteSet(activeMissions') /\ Cardinality(activeMissions') = Cardinality(activeMissions) + 1
    BY <1>1, <1>3, FS_AddElement
  <2>2. Cardinality(activeMissions) \in Nat
    BY <1>3, FS_CardinalityType
  <2>. QED BY <1>1, <2>1, <2>2, LimitsAssumption
<1>5. /\ ~Running(r) /\ Running(r)' /\ \A q \in Callers \ {r} : Running(q)' = Running(q) /\ run'[q] = run[q]
  BY <1>1, <1>2 DEF Running, Alone
<1>6. Slots' = Slots \cup {m}
  BY <1>2, <1>5 DEF Slots
<1>7. Exclusive'
  BY <1>1, <1>2, <1>3, <1>5 DEF Exclusive, Slots
<1>8. \A q \in Callers : run'[q].pc = "closing" => q # r /\ run'[q] = run[q]
  BY <1>2, <1>5
<1>9. \A n \in MissionIds : missions'[n] = "Executing" =>
        \E q \in Callers : run'[q].pc # "idle" /\ run'[q].mission = n
  BY <1>1, <1>5 DEF OrchestratorInv, MissionsInv
<1>10. MissionSlotsExact'
  BY <1>1, <1>3, <1>4, <1>6, <1>7 DEF MissionSlotsExact, Slots, Exclusive
<1>11. NoLease(r)
  BY <1>1, <1>2 DEF NoLease, Leased
<1>. QED BY <1>1, <1>2, <1>4, <1>8, <1>9, <1>10, <1>11 DEF OrchestratorInv, MissionsInv

\* A caller that keeps its slot records a state.
LEMMA RecordsKeepsSlots ==
  ASSUME OrchestratorInv, NEW r \in Callers, Alone(r), run'[r].mission = run[r].mission,
         Running(r), Running(r)', UNCHANGED activeMissions
  PROVE  MissionSlotsExact' /\ \A q \in Callers \ {r} : Running(q) => run[q].mission # run[r].mission
<1>1. \A q \in Callers : Running(q)' = Running(q) /\ run'[q].mission = run[q].mission
  BY DEF Alone, Running
<1>2. Slots' = Slots /\ (Exclusive => Exclusive')
  BY <1>1 DEF Slots, Exclusive
<1>3. activeMissions = Slots /\ Exclusive /\ Cardinality(activeMissions) <= MaxConcurrentMissions
  BY DEF OrchestratorInv, MissionsInv, MissionSlotsExact, Slots, Exclusive
<1>4. MissionSlotsExact'
  BY <1>2, <1>3 DEF MissionSlotsExact, Slots, Exclusive
<1>. QED BY <1>3, <1>4 DEF Exclusive

LEMMA BeginKeepsMissions ==
  ASSUME OrchestratorInv, NEW r \in Callers, Begin(r)
  PROVE  MissionsInv'
<1>. DEFINE m == run[r].mission
<1>1. /\ Alone(r) /\ run'[r].mission = m /\ run[r].pc = "admitted" /\ run'[r].pc = "phase"
  BY BeginDoes
<1>2. m \in MissionIds
  BY <1>1 DEF OrchestratorInv, CallersInv, LocalInv
<1>3. MissionSlotsExact' /\ \A q \in Callers \ {r} : Running(q) => run[q].mission # m
  BY <1>1, RecordsKeepsSlots DEF Running, Begin
<1>4. /\ missions \in [MissionIds -> {None} \cup MissionState]
      /\ missions' = [missions EXCEPT ![m] = "Executing"] /\ UNCHANGED activeMissions
  BY DEF OrchestratorInv, MissionsInv, Begin
<1>5. missions' \in [MissionIds -> {None} \cup MissionState] /\ \A n \in MissionIds \ {m} : missions'[n] = missions[n]
  BY <1>2, <1>4 DEF MissionState
<1>6. \A q \in Callers : run'[q].pc = "closing" =>
        /\ run'[q] = run[q] /\ run[q].mission \in MissionIds \ {m}
  BY <1>1, <1>3 DEF Alone, Running, OrchestratorInv, CallersInv, LocalInv
<1>7. \A n \in MissionIds : missions'[n] = "Executing" =>
        \E q \in Callers : run'[q].pc # "idle" /\ run'[q].mission = n
  BY <1>1, <1>5 DEF OrchestratorInv, MissionsInv, Alone
<1>. QED BY <1>3, <1>4, <1>5, <1>6, <1>7 DEF OrchestratorInv, MissionsInv

LEMMA FinishKeepsMissions ==
  ASSUME OrchestratorInv, NEW r \in Callers, Finish(r)
  PROVE  MissionsInv'
<1>. DEFINE m == run[r].mission
            s == IF shutdown THEN "Cancelled" ELSE IF HasFailed(r) THEN "Failed" ELSE "Completed"
<1>1. /\ Alone(r) /\ run'[r].mission = m /\ run'[r].succeeded = run[r].succeeded
      /\ run[r].pc = "phase" /\ run'[r].pc = "closing"
  BY FinishDoes
<1>2. m \in MissionIds /\ LocalInv(run[r]) /\ PhasesOf[m] \subseteq Phases /\ run[r] \in Locals
  BY <1>1, PhasesAssumption DEF OrchestratorInv, CallersInv, LocalInv
<1>3. MissionSlotsExact' /\ \A q \in Callers \ {r} : Running(q) => run[q].mission # m
  BY <1>1, RecordsKeepsSlots DEF Running, Finish
<1>4. /\ missions \in [MissionIds -> {None} \cup MissionState]
      /\ missions' = [missions EXCEPT ![m] = s] /\ UNCHANGED activeMissions
  BY DEF OrchestratorInv, MissionsInv, Finish
<1>5. s \in {"Cancelled", "Failed", "Completed"} /\ (s = "Completed" => ~HasFailed(r))
  OBVIOUS
<1>6. s = "Completed" => \A p \in PhasesOf[m] : run[r].succeeded[p] = Tasks[p]
  <2>. SUFFICES ASSUME s = "Completed", NEW p \in PhasesOf[m] PROVE run[r].succeeded[p] = Tasks[p]
    OBVIOUS
  <2>1. run[r].outcomes[p] \in Outcome /\ run[r].outcomes[p] # "none" /\ run[r].outcomes[p] # "bad" /\ Earned(run[r], p)
    BY <1>2, <1>5 DEF HasFailed, Finish, Remaining, Locals, LocalInv
  <2>. QED BY <2>1 DEF Outcome, Earned
<1>. HIDE DEF s
<1>7. /\ missions' \in [MissionIds -> {None} \cup MissionState] /\ missions'[m] = s
      /\ \A n \in MissionIds \ {m} : missions'[n] = missions[n]
  BY <1>2, <1>4, <1>5 DEF MissionState
<1>8. \A q \in Callers \ {r} : run'[q].pc = "closing" =>
        /\ run'[q] = run[q] /\ run[q].mission \in MissionIds \ {m}
  BY <1>1, <1>3 DEF Alone, Running, OrchestratorInv, CallersInv, LocalInv
<1>9. \A n \in MissionIds : missions'[n] = "Executing" =>
        \E q \in Callers : run'[q].pc # "idle" /\ run'[q].mission = n
  <2>. SUFFICES ASSUME NEW n \in MissionIds, missions'[n] = "Executing"
                PROVE  \E q \in Callers : run'[q].pc # "idle" /\ run'[q].mission = n
    OBVIOUS
  <2>1. n # m /\ missions[n] = "Executing"
    BY <1>5, <1>7
  <2>2. PICK q \in Callers : run[q].pc # "idle" /\ run[q].mission = n
    BY <2>1 DEF OrchestratorInv, MissionsInv
  <2>. QED BY <1>1, <2>1, <2>2 DEF Alone
<1>10. \A q \in Callers : run'[q].pc = "closing" =>
       /\ missions'[run'[q].mission] # "Executing"
       /\ missions'[run'[q].mission] = "Completed" =>
            \A p \in PhasesOf[run'[q].mission] : run'[q].succeeded[p] = Tasks[p]
  <2>1. ASSUME NEW q \in Callers \ {r}, run'[q].pc = "closing"
        PROVE  /\ missions'[run'[q].mission] # "Executing"
               /\ missions'[run'[q].mission] = "Completed" =>
                    \A p \in PhasesOf[run'[q].mission] : run'[q].succeeded[p] = Tasks[p]
    BY <1>7, <1>8, <2>1 DEF OrchestratorInv, MissionsInv
  <2>. QED BY <1>1, <1>5, <1>6, <1>7, <2>1
<1>. QED BY <1>3, <1>4, <1>7, <1>9, <1>10 DEF OrchestratorInv, MissionsInv

\* A slot is freed with the caller that held it.
LEMMA FreesSlot ==
  ASSUME OrchestratorInv, NEW r \in Callers, Alone(r), Running(r), ~Running(r)',
         activeMissions' = activeMissions \ {run[r].mission}
  PROVE  MissionSlotsExact' /\ IsFiniteSet(activeMissions') /\ activeMissions' \subseteq MissionIds
<1>1. /\ activeMissions = Slots /\ Exclusive /\ IsFiniteSet(activeMissions)
      /\ Cardinality(activeMissions) <= MaxConcurrentMissions /\ activeMissions \subseteq MissionIds
  BY DEF OrchestratorInv, MissionsInv, MissionSlotsExact, Slots, Exclusive
<1>2. \A q \in Callers \ {r} : Running(q)' = Running(q) /\ run'[q] = run[q]
  BY DEF Alone, Running
<1>3. Slots' = Slots \ {run[r].mission} /\ Exclusive'
  BY <1>1, <1>2 DEF Slots, Exclusive
<1>4. IsFiniteSet(activeMissions') /\ Cardinality(activeMissions') <= MaxConcurrentMissions
  <2>1. /\ IsFiniteSet(activeMissions')
        /\ Cardinality(activeMissions') \in {Cardinality(activeMissions), Cardinality(activeMissions) - 1}
    BY <1>1, FS_RemoveElement
  <2>2. Cardinality(activeMissions) \in Nat
    BY <1>1, FS_CardinalityType
  <2>. QED BY <1>1, <2>1, <2>2, LimitsAssumption
<1>. QED BY <1>1, <1>3, <1>4 DEF MissionSlotsExact, Slots, Exclusive

LEMMA CloseKeepsMissions ==
  ASSUME OrchestratorInv, NEW r \in Callers, Close(r)
  PROVE  Alone(r) /\ NoLease(r) /\ MissionsInv'
<1>1. /\ run[r].pc = "closing" /\ activeMissions' = activeMissions \ {run[r].mission}
      /\ run' = [run EXCEPT ![r] = Idle] /\ missions' = missions
  BY DEF Close
<1>2. Alone(r) /\ run'[r].pc = "idle"
  BY <1>1, LeavesDoes
<1>3. MissionSlotsExact' /\ IsFiniteSet(activeMissions') /\ activeMissions' \subseteq MissionIds
  BY <1>1, <1>2, FreesSlot DEF Running
<1>4. missions[run[r].mission] # "Executing"
  BY <1>1 DEF OrchestratorInv, MissionsInv
<1>5. \A m \in MissionIds : missions'[m] = "Executing" =>
        \E q \in Callers : run'[q].pc # "idle" /\ run'[q].mission = m
  BY <1>1, <1>2, <1>4 DEF OrchestratorInv, MissionsInv, Alone
<1>6. \A q \in Callers : run'[q].pc = "closing" => run'[q] = run[q]
  BY <1>2 DEF Alone
<1>7. NoLease(r)
  BY <1>1, <1>2 DEF NoLease, Leased
<1>. QED BY <1>1, <1>2, <1>3, <1>5, <1>6, <1>7 DEF OrchestratorInv, MissionsInv

LEMMA DropMissionKeepsMissions ==
  ASSUME OrchestratorInv, NEW r \in Callers, DropMission(r)
  PROVE  /\ Alone(r) /\ AgentsTyped' /\ MissionsInv'
         /\ \/ Released(r)
            \/ NoLease(r) /\ UNCHANGED agentVars
<1>. DEFINE m == run[r].mission
<1>1. /\ run[r].pc \in {"backoff", "executing"} /\ activeMissions' = activeMissions \ {m}
      /\ run' = [run EXCEPT ![r] = [Idle EXCEPT !.pc = "dropping", !.mission = m]]
      /\ missions' = missions /\ shutdown' = shutdown
  BY DEF DropMission
<1>2. m \in MissionIds /\ (run[r].pc = "executing" => run[r].agent \in AgentIds)
  BY <1>1 DEF OrchestratorInv, CallersInv, LocalInv, Leased
<1>3. Alone(r) /\ run'[r].pc = "dropping" /\ run'[r].mission = m
  BY <1>1, <1>2, Fresh
<1>4. MissionSlotsExact' /\ IsFiniteSet(activeMissions') /\ activeMissions' \subseteq MissionIds
  BY <1>1, <1>3, FreesSlot DEF Running
<1>5. \A n \in MissionIds : missions'[n] = "Executing" =>
        \E q \in Callers : run'[q].pc # "idle" /\ run'[q].mission = n
  BY <1>1, <1>3 DEF OrchestratorInv, MissionsInv, Alone
<1>6. \A q \in Callers : run'[q].pc = "closing" => run'[q] = run[q]
  BY <1>3 DEF Alone
<1>7. MissionsInv'
  BY <1>1, <1>4, <1>5, <1>6 DEF OrchestratorInv, MissionsInv
<1>8. CASE run[r].pc = "executing"
  <2>1. RecordTaskDone(run[r].agent)
    BY <1>8 DEF DropMission
  <2>2. AgentsTyped'
    BY <1>1, <1>2, <1>8, <2>1, RecordTaskDoneTyped DEF OrchestratorInv
  <2>3. Released(r)
    BY <1>2, <1>3, <1>8, <2>1 DEF Released, RecordTaskDone, Leased
  <2>. QED BY <1>3, <1>7, <2>2, <2>3
<1>9. CASE run[r].pc = "backoff"
  BY <1>1, <1>3, <1>7, <1>9 DEF DropMission, NoLease, Leased, agentVars, OrchestratorInv, AgentsTyped
<1>. QED BY <1>1, <1>8, <1>9

LEMMA RecordDropKeepsMissions ==
  ASSUME OrchestratorInv, NEW r \in Callers, RecordDrop(r)
  PROVE  Alone(r) /\ NoLease(r) /\ MissionsInv'
<1>. DEFINE m == run[r].mission
<1>1. /\ run[r].pc = "dropping" /\ run' = [run EXCEPT ![r] = Idle]
      /\ missions' = [missions EXCEPT ![m] = "Cancelled"] /\ activeMissions' = activeMissions
      /\ missions \in [MissionIds -> {None} \cup MissionState]
  BY DEF RecordDrop, OrchestratorInv, MissionsInv
<1>2. Alone(r) /\ run'[r].pc = "idle" /\ m \in MissionIds
  BY <1>1, LeavesDoes DEF OrchestratorInv, CallersInv, LocalInv
<1>3. /\ missions' \in [MissionIds -> {None} \cup MissionState] /\ missions'[m] = "Cancelled"
      /\ \A n \in MissionIds \ {m} : missions'[n] = missions[n]
  BY <1>1, <1>2 DEF MissionState
<1>4. \A q \in Callers : Running(q)' = Running(q) /\ (Running(q) => run'[q] = run[q])
  BY <1>1, <1>2 DEF Alone, Running
<1>5. Slots' = Slots /\ (Exclusive => Exclusive')
  BY <1>4 DEF Slots, Exclusive
<1>6. MissionSlotsExact'
  BY <1>1, <1>5 DEF OrchestratorInv, MissionsInv, MissionSlotsExact, Slots, Exclusive
<1>7. \A n \in MissionIds : missions'[n] = "Executing" =>
        \E q \in Callers : run'[q].pc # "idle" /\ run'[q].mission = n
  BY <1>2, <1>3 DEF OrchestratorInv, MissionsInv, Alone
<1>8. \A q \in Callers : run'[q].pc = "closing" =>
       /\ missions'[run'[q].mission] # "Executing"
       /\ missions'[run'[q].mission] = "Completed" =>
            \A p \in PhasesOf[run'[q].mission] : run'[q].succeeded[p] = Tasks[p]
  <2>. SUFFICES ASSUME NEW q \in Callers, run'[q].pc = "closing"
                PROVE  /\ missions'[run'[q].mission] # "Executing"
                       /\ missions'[run'[q].mission] = "Completed" =>
                            \A p \in PhasesOf[run'[q].mission] : run'[q].succeeded[p] = Tasks[p]
    OBVIOUS
  <2>1. q # r /\ run'[q] = run[q] /\ run[q].mission \in MissionIds
    BY <1>2 DEF Alone, OrchestratorInv, CallersInv, LocalInv
  <2>. QED BY <1>3, <2>1 DEF OrchestratorInv, MissionsInv
<1>9. NoLease(r)
  BY <1>1, <1>2 DEF NoLease, Leased
<1>. QED BY <1>1, <1>2, <1>3, <1>6, <1>7, <1>8, <1>9 DEF OrchestratorInv, MissionsInv

-----------------------------------------------------------------------------
(* Leases and task counts *)

LEMMA NoLeaseKeepsLeases ==
  ASSUME OrchestratorInv, NEW r \in Callers, Alone(r), NoLease(r), UNCHANGED <<registered, active>>
  PROVE  LeasesInv'
<1>1. \A a \in AgentIds : Leases(a)' = Leases(a)
  BY DEF Leases, Alone, NoLease
<1>. QED BY <1>1 DEF OrchestratorInv, LeasesInv

LEMMA GrantKeepsLeases ==
  ASSUME OrchestratorInv, NEW r \in Callers, Alone(r), run[r].pc \notin Leased,
         run[r].agent \in AgentIds, Granted(r), UNCHANGED registered
  PROVE  LeasesInv'
<1>0. PICK a \in AgentIds : a = run[r].agent
  OBVIOUS
<1>1. /\ Leases(a)' = Leases(a) \cup {r} /\ r \notin Leases(a)
      /\ \A b \in AgentIds \ {a} : Leases(b)' = Leases(b)
  BY <1>0 DEF Leases, Alone, Granted, Leased
<1>2. active \in [AgentIds -> Nat] /\ IsFiniteSet(Leases(a)) /\ a \in registered
  BY <1>0 DEF OrchestratorInv, AgentsTyped, LeasesInv, Granted
<1>3. /\ active'[a] = active[a] + 1 /\ active[a] \in Nat /\ active[a] < MaxTasksPerAgent
      /\ \A b \in AgentIds \ {a} : active'[b] = active[b]
  BY <1>0, <1>2 DEF Granted
<1>4. IsFiniteSet(Leases(a)') /\ Cardinality(Leases(a)') = Cardinality(Leases(a)) + 1
  BY <1>1, <1>2, FS_AddElement
<1>5. DrainFirst => active[a] = Cardinality(Leases(a))
  BY <1>2 DEF OrchestratorInv, LeasesInv
<1>6. DrainFirst => active'[a] = Cardinality(Leases(a)') /\ Cardinality(Leases(a)') <= MaxTasksPerAgent
  BY <1>3, <1>4, <1>5, LimitsAssumption
<1>. QED BY <1>1, <1>3, <1>4, <1>6 DEF OrchestratorInv, LeasesInv

LEMMA ReleaseKeepsLeases ==
  ASSUME OrchestratorInv, NEW r \in Callers, Alone(r), Released(r)
  PROVE  LeasesInv'
<1>0. PICK a \in AgentIds : a = run[r].agent
  BY DEF Released
<1>1. /\ Leases(a)' = Leases(a) \ {r} /\ r \in Leases(a) /\ a \in AgentIds
      /\ \A b \in AgentIds \ {a} : Leases(b)' = Leases(b)
  BY <1>0 DEF Leases, Alone, Released
<1>2. active \in [AgentIds -> Nat] /\ IsFiniteSet(Leases(a)) /\ registered' = registered
  BY <1>1 DEF OrchestratorInv, AgentsTyped, LeasesInv, Released
<1>3. /\ a \in registered /\ active[a] # 0 => active'[a] = active[a] - 1
      /\ active[a] \in Nat /\ \A b \in AgentIds \ {a} : active'[b] = active[b]
  BY <1>0, <1>1, <1>2 DEF Released
<1>4. IsFiniteSet(Leases(a)') /\ Cardinality(Leases(a)') = Cardinality(Leases(a)) - 1
  BY <1>1, <1>2, FS_RemoveElement
<1>5. Cardinality(Leases(a)) \in Nat /\ Cardinality(Leases(a)') \in Nat
  BY <1>2, <1>4, FS_CardinalityType
<1>6. DrainFirst =>
        /\ a \in registered => active[a] = Cardinality(Leases(a))
        /\ Cardinality(Leases(a)) <= MaxTasksPerAgent
  BY <1>1 DEF OrchestratorInv, LeasesInv
<1>7. DrainFirst =>
        /\ a \in registered => active'[a] = Cardinality(Leases(a)')
        /\ Cardinality(Leases(a)') <= MaxTasksPerAgent
  BY <1>3, <1>4, <1>5, <1>6, LimitsAssumption
<1>. QED BY <1>1, <1>2, <1>3, <1>4, <1>7 DEF OrchestratorInv, LeasesInv

-----------------------------------------------------------------------------
(* Steps that leave the callers alone *)

LEMMA SameCallersKeepMissions ==
  ASSUME OrchestratorInv, UNCHANGED <<run, missions, activeMissions>>
  PROVE  CallersInv' /\ MissionsInv'
<1>1. CallersInv'
  BY DEF OrchestratorInv, CallersInv
<1>2. MissionSlotsExact'
  BY DEF OrchestratorInv, MissionsInv, MissionSlotsExact, Running
<1>. QED BY <1>1, <1>2 DEF OrchestratorInv, MissionsInv

LEMMA SpawnAgentKeeps ==
  ASSUME OrchestratorInv, NEW a \in AgentIds, SpawnAgent(a)
  PROVE  OrchestratorInv'
<1>1. AgentsTyped' /\ UNCHANGED <<run, missions, activeMissions>>
  BY DEF OrchestratorInv, AgentsTyped, SpawnAgent
<1>2. /\ active'[a] = 0 /\ \A b \in AgentIds \ {a} : active'[b] = active[b]
      /\ \A b \in AgentIds \ {a} : b \in registered' => b \in registered
  BY DEF OrchestratorInv, AgentsTyped, SpawnAgent
<1>3. \A b \in AgentIds : Leases(b)' = Leases(b)
  BY <1>1 DEF Leases
<1>4. DrainFirst => Cardinality(Leases(a)) = 0
  BY FS_EmptySet DEF SpawnAgent, Drained, Leases
<1>5. LeasesInv'
  BY <1>2, <1>3, <1>4 DEF OrchestratorInv, LeasesInv
<1>. QED BY <1>1, <1>5, SameCallersKeepMissions DEF OrchestratorInv

LEMMA OtherAgentStepsKeep ==
  ASSUME OrchestratorInv,
         \/ \E a \in AgentIds : RegisterWorker(a) \/ RemoveAgent(a)
         \/ AdminEnds \/ Shutdown \/ UNCHANGED vars
  PROVE  OrchestratorInv'
<1>1. UNCHANGED <<run, missions, activeMissions, active>> /\ registered' \subseteq registered
  BY DEF RegisterWorker, RemoveAgent, AdminEnds, Shutdown, vars, agentVars
<1>2. AgentsTyped'
  <2>1. CASE AdminEnds
    <3>. DEFINE n == IF admin.op = "spawn" THEN 0 ELSE None
    <3>1. admin.agent \in AgentIds /\ n \in Nat \cup {None} /\ load' = [load EXCEPT ![admin.agent] = n]
      BY <2>1 DEF OrchestratorInv, AgentsTyped, AdminEnds
    <3>. HIDE DEF n
    <3>. QED BY <2>1, <3>1 DEF OrchestratorInv, AgentsTyped, AdminEnds
  <2>2. CASE \E a \in AgentIds : RegisterWorker(a) \/ RemoveAgent(a)
    BY <2>2 DEF OrchestratorInv, AgentsTyped, RegisterWorker, RemoveAgent
  <2>3. CASE Shutdown \/ UNCHANGED vars
    BY <2>3 DEF OrchestratorInv, AgentsTyped, Shutdown, vars, agentVars
  <2>. QED BY <2>1, <2>2, <2>3
<1>3. \A b \in AgentIds : Leases(b)' = Leases(b)
  BY <1>1 DEF Leases
<1>4. LeasesInv'
  BY <1>1, <1>3 DEF OrchestratorInv, LeasesInv
<1>. QED BY <1>1, <1>2, <1>4, SameCallersKeepMissions DEF OrchestratorInv

LEMMA StepsKeep ==
  ASSUME OrchestratorInv, NEW r \in Callers,
         \/ \E m \in MissionIds : RunMission(r, m) \/ RunSpecialistPlan(r, m)
         \/ CallerStep(r) \/ WorkSucceeds(r) \/ DropMission(r)
  PROVE  OrchestratorInv'
<1>1. ASSUME GoesOn(r), NoLease(r), AgentsTyped', UNCHANGED <<registered, active>>
      PROVE  OrchestratorInv'
  <2>1. Alone(r)
    BY <1>1 DEF GoesOn
  <2>. QED BY <1>1, <2>1, GoesOnKeepsMissions, NoLeaseKeepsLeases DEF OrchestratorInv, Alone
<1>2. ASSUME GoesOn(r), NoLease(r), UNCHANGED agentVars
      PROVE  OrchestratorInv'
  BY <1>1, <1>2 DEF agentVars, OrchestratorInv, AgentsTyped, GoesOn
<1>3. ASSUME Alone(r), NoLease(r), MissionsInv', UNCHANGED <<agentVars, shutdown>>
      PROVE  OrchestratorInv'
  <2>1. AgentsTyped' /\ UNCHANGED <<registered, active>>
    BY <1>3 DEF agentVars, OrchestratorInv, AgentsTyped
  <2>. QED BY <1>3, <2>1, NoLeaseKeepsLeases DEF OrchestratorInv, Alone
<1>4. ASSUME NEW m \in MissionIds, RunMission(r, m) \/ RunSpecialistPlan(r, m)
      PROVE  OrchestratorInv'
  <2>1. RunMission(r, m)
    BY <1>4 DEF RunSpecialistPlan
  <2>. QED BY <1>3, <2>1, RunMissionKeepsMissions DEF RunMission
<1>5. CASE \/ \E p \in Phases : StartPhase(r, p)
           \/ StartTask(r) \/ EndPhase(r) \/ GiveUp(r) \/ Route(r)
  BY <1>2, <1>5, StartPhaseDoes, StartTaskDoes, EndPhaseDoes, GiveUpDoes, RouteDoes
<1>6. CASE AssignLoad(r)
  BY <1>1, <1>6, AssignLoadDoes
<1>7. CASE Admit(r)
  <2>1. GoesOn(r) /\ Alone(r)
    BY <1>7, AdmitDoes DEF GoesOn
  <2>2. CASE Granted(r)
    <3>1. LeasesInv'
      BY <1>7, <2>1, <2>2, AdmitDoes, GrantKeepsLeases
    <3>. QED BY <1>7, <2>1, <3>1, AdmitDoes, GoesOnKeepsMissions DEF OrchestratorInv, Alone
  <2>3. CASE NoLease(r) /\ UNCHANGED active
    BY <1>1, <1>7, <2>1, <2>3, AdmitDoes
  <2>. QED BY <1>7, <2>2, <2>3, AdmitDoes
<1>8. CASE CallWorker(r)
  <2>1. GoesOn(r) /\ Alone(r) /\ UNCHANGED agentVars
    BY <1>8, CallWorkerDoes DEF GoesOn
  <2>2. AgentsTyped'
    BY <2>1 DEF agentVars, OrchestratorInv, AgentsTyped, GoesOn
  <2>3. \A b \in AgentIds : Leases(b)' = Leases(b)
    BY <1>8, <2>1, CallWorkerDoes DEF Leases, Alone
  <2>4. LeasesInv'
    BY <2>1, <2>3 DEF OrchestratorInv, LeasesInv, agentVars
  <2>. QED BY <2>1, <2>2, <2>4, GoesOnKeepsMissions DEF OrchestratorInv, Alone
<1>9. CASE WorkFails(r) \/ WorkSucceeds(r)
  <2>1. GoesOn(r) /\ Alone(r) /\ AgentsTyped' /\ Released(r)
    BY <1>9, WorkFailsDoes, WorkSucceedsDoes DEF GoesOn
  <2>. QED BY <2>1, GoesOnKeepsMissions, ReleaseKeepsLeases DEF OrchestratorInv, Alone
<1>10. CASE Begin(r)
  BY <1>3, <1>10, BeginDoes, BeginKeepsMissions DEF Begin
<1>11. CASE Finish(r)
  BY <1>3, <1>11, FinishDoes, FinishKeepsMissions DEF Finish
<1>12. CASE Close(r)
  BY <1>3, <1>12, CloseKeepsMissions DEF Close
<1>13. CASE RecordDrop(r)
  BY <1>3, <1>13, RecordDropKeepsMissions DEF RecordDrop
<1>14. CASE DropMission(r)
  <2>1. CASE Released(r)
    BY <1>14, <2>1, DropMissionKeepsMissions, ReleaseKeepsLeases DEF OrchestratorInv, Alone
  <2>2. CASE NoLease(r) /\ UNCHANGED agentVars
    BY <1>3, <1>14, <2>2, DropMissionKeepsMissions DEF DropMission
  <2>. QED BY <1>14, <2>1, <2>2, DropMissionKeepsMissions
<1>. QED BY <1>4, <1>5, <1>6, <1>7, <1>8, <1>9, <1>10, <1>11, <1>12, <1>13, <1>14 DEF CallerStep

LEMMA OrchestratorStarts == Init => OrchestratorInv
<1>. SUFFICES ASSUME Init PROVE OrchestratorInv
  OBVIOUS
<1>1. AgentsTyped
  BY DEF Init, AgentsTyped
<1>2. CallersInv
  BY IdleIsFine DEF Init, CallersInv, LocalInv
<1>3. \A r \in Callers : run[r].pc = "idle"
  BY IdleIsFine DEF Init
<1>4. MissionSlotsExact
  BY <1>3, FS_EmptySet, LimitsAssumption DEF Init, MissionSlotsExact, Running
<1>5. MissionsInv
  BY <1>3, <1>4, FS_EmptySet, NoneAssumption DEF Init, MissionsInv, MissionState
<1>6. \A a \in AgentIds : Leases(a) = {}
  BY <1>3 DEF Leases, Leased
<1>7. LeasesInv
  BY <1>6, FS_EmptySet, LimitsAssumption DEF LeasesInv, Init
<1>. QED BY <1>1, <1>2, <1>5, <1>7 DEF OrchestratorInv

LEMMA OrchestratorNextKeeps == OrchestratorInv /\ [Next]_vars => OrchestratorInv'
  BY StepsKeep, SpawnAgentKeeps, OtherAgentStepsKeep DEF Next

LEMMA OrchestratorAlways == Spec => []OrchestratorInv
  BY OrchestratorStarts, OrchestratorNextKeeps, PTL DEF Spec

LEMMA HonestAndSettled ==
  ASSUME OrchestratorInv
  PROVE  TypeOK /\ MissionSlotsExact /\ SettledWhenIdle /\ CompletedHonestly
<1>1. TypeOK
  BY DEF OrchestratorInv, AgentsTyped, CallersInv, MissionsInv, TypeOK
<1>2. MissionSlotsExact /\ SettledWhenIdle
  BY DEF OrchestratorInv, MissionsInv, SettledWhenIdle
<1>3. ASSUME NEW r \in Callers, NEW p \in Phases,
             run[r].succeeded[p] > 0 \/ (run[r].phase = p /\ run[r].pc \in Leased),
             NEW d \in DependsOn[p]
      PROVE  run[r].outcomes[d] = "ok" /\ run[r].succeeded[d] = Tasks[d]
  <2>1. LocalInv(run[r]) /\ d \in Phases
    BY PhasesAssumption DEF OrchestratorInv, CallersInv
  <2>2. run[r].outcomes[d] = "ok"
    BY <1>3, <2>1 DEF LocalInv, Earned, Dispatching
  <2>. QED BY <2>1, <2>2 DEF LocalInv, Earned
<1>4. CompletedHonestly
  BY <1>3 DEF CompletedHonestly, OrchestratorInv, MissionsInv
<1>. QED BY <1>1, <1>2, <1>4

\* Whatever is dropped, retried, removed, respawned or shut down: a mission slot
\* is held exactly by the one caller that runs the mission, within
\* max_concurrent_missions; no mission is left Executing; phases have work only
\* when their dependencies succeeded and Completed means every task was done.
THEOREM MissionsStayHonest ==
  Spec => [](TypeOK /\ MissionSlotsExact /\ SettledWhenIdle /\ CompletedHonestly)
  BY OrchestratorAlways, HonestAndSettled, PTL

\* Where agents are spawned and removed only while no task holds a lease on
\* them, the task count of every registered agent is the number of its leases
\* as well: all of what the runs check.
THEOREM OrchestratorStaysSound ==
  ASSUME DrainFirst
  PROVE  Spec => []OrchestratorSound
<1>1. OrchestratorInv => OrchestratorSound
  BY HonestAndSettled DEF OrchestratorInv, LeasesInv, OrchestratorSound, BooksExact, CountsExact
<1>. QED BY <1>1, OrchestratorAlways, PTL

\* Under the same condition no agent has more than max_tasks_per_agent tasks at
\* once; without it the run orchestrator_respawn shows that it may.
THEOREM AgentsWithinLimit ==
  ASSUME DrainFirst
  PROVE  Spec => []AgentLimit
<1>1. OrchestratorInv => AgentLimit
  BY DEF OrchestratorInv, LeasesInv, AgentLimit
<1>. QED BY <1>1, OrchestratorAlways, PTL
=============================================================================
