----------------------------- MODULE Supervisor -----------------------------
(***************************************************************************)
(* The supervisor of daf-orchestrator (supervisor.rs) driven by the        *)
(* heartbeat monitor of the orchestrator (orchestrator.rs, spawn_agent,    *)
(* remove_agent, heartbeat, monitor_agents).  The wall clock is a counter  *)
(* that advances at any time; every call of Utc::now inside one            *)
(* handle_failure reads the same value.                                    *)
(*                                                                         *)
(* handle_failure runs under the supervisor mutex and is one step.  A pass *)
(* of monitor_agents is a step per agent it finds stale: other threads may *)
(* spawn, remove or beat between two of them.                              *)
(***************************************************************************)
EXTENDS Integers, Sequences, FiniteSets, SequencesExt

CONSTANTS
  AgentIds,
  Strategies,     \* the strategies a supervisor may be built with
  MaxRestarts,    \* RestartPolicy::max_restarts
  TimeWindow,     \* RestartPolicy::time_window
  StaleAfter,     \* 2 * heartbeat_interval_secs
  MaxTime         \* bound of the clock

ASSUME StrategiesAssumption == Strategies \subseteq {"one_for_one", "all_for_one", "rest_for_one"}
ASSUME AgentsAssumption == IsFiniteSet(AgentIds) /\ "none" \notin AgentIds
ASSUME PolicyAssumption == MaxRestarts \in Nat /\ TimeWindow \in Nat /\ StaleAfter \in Nat /\ MaxTime \in Nat

VARIABLES
  strategy,
  now,
  registered,   \* agents of the orchestrator's registry
  beat,         \* last_heartbeat of each
  agents,       \* supervised agents in registration order
  history,      \* restart_history: the time of each restart
  dead,         \* agents with a dead letter, since their last registration
  approved,     \* history: the agent monitor_agents last reported for restart, or "none"
  restarted     \* history: the times of all restarts there have been, in order

supervisorVars == <<strategy, now, registered, beat, agents, history, dead, approved, restarted>>

Times == 0..MaxTime

TypeOK ==
  /\ strategy \in Strategies
  /\ now \in Times
  /\ registered \subseteq AgentIds
  /\ beat \in [AgentIds -> Times]
  /\ agents \in Seq(AgentIds)
  /\ IsInjective(agents)
  /\ history \in Seq(Times)
  /\ dead \subseteq AgentIds
  /\ approved \in AgentIds \cup {"none"}
  /\ restarted \in Seq(Times)

SupervisorInit ==
  /\ strategy \in Strategies
  /\ now = 0
  /\ registered = {}
  /\ beat = [a \in AgentIds |-> 0]
  /\ agents = <<>>
  /\ history = <<>>
  /\ dead = {}
  /\ approved = "none"
  /\ restarted = <<>>

-----------------------------------------------------------------------------
(* supervisor.rs *)

\* Mutant: a record at the edge of the window is popped.
Prune_EdgeExpired(h) ==
  LET fresh == {i \in 1..Len(h) : h[i] > now - TimeWindow}
  IN IF fresh = {} THEN <<>> ELSE SubSeq(h, Min(fresh), Len(h))

\* The records of h after the leading expired ones are popped.
Prune(h) ==
  LET fresh == {i \in 1..Len(h) : h[i] >= now - TimeWindow}
  IN IF fresh = {} THEN <<>> ELSE SubSeq(h, Min(fresh), Len(h))

AgentsToRestart(failed) ==
  LET from == {i \in 1..Len(agents) : agents[i] = failed}
  IN CASE strategy = "all_for_one" -> agents
       [] strategy = "one_for_one" -> IF from = {} THEN <<>> ELSE <<failed>>
       [] strategy = "rest_for_one" ->
            IF from = {} THEN <<>> ELSE SubSeq(agents, CHOOSE i \in from : TRUE, Len(agents))

AddAgent(a) == agents' = IF Contains(agents, a) THEN agents ELSE Append(agents, a)

\* Every id but a is retained; add_agent has left it at one place at most.
RemoveAgent(a) ==
  LET at == {i \in 1..Len(agents) : agents[i] = a}
  IN agents' = IF at = {} THEN agents ELSE RemoveAt(agents, CHOOSE i \in at : TRUE)

\* Mutant: the dead agent stays under supervision.
Escalate_KeepsAgent(failed) ==
  /\ Len(Prune(history)) >= MaxRestarts
  /\ history' = Prune(history)
  /\ dead' = dead \cup {failed}
  /\ UNCHANGED <<agents, restarted>>

\* The budget is spent: a dead letter, and the agent leaves supervision.
Escalate(failed) ==
  /\ Len(Prune(history)) >= MaxRestarts
  /\ history' = Prune(history)
  /\ dead' = dead \cup {failed}
  /\ RemoveAgent(failed)
  /\ UNCHANGED restarted

\* One record per restarted agent; the budget was checked once.
RestartAgents(failed) ==
  LET records == [i \in DOMAIN AgentsToRestart(failed) |-> now]
  IN /\ Len(Prune(history)) < MaxRestarts
     /\ history' = Prune(history) \o records
     /\ restarted' = restarted \o records
     /\ UNCHANGED <<agents, dead>>

HandleFailure(failed) == Escalate(failed) \/ RestartAgents(failed)

-----------------------------------------------------------------------------
(* orchestrator.rs *)

\* An agent that is registered already keeps its place under supervision.
SpawnAgent(a) ==
  /\ registered' = registered \cup {a}
  /\ beat' = [beat EXCEPT ![a] = now]
  /\ AddAgent(a)
  /\ dead' = dead \ {a}
  /\ approved' = "none"
  /\ UNCHANGED <<strategy, now, history, restarted>>

Deregister(a) ==
  /\ a \in registered
  /\ registered' = registered \ {a}
  /\ RemoveAgent(a)
  /\ approved' = "none"
  /\ UNCHANGED <<strategy, now, beat, history, dead, restarted>>

Heartbeat(a) ==
  /\ a \in registered
  /\ beat' = [beat EXCEPT ![a] = now]
  /\ approved' = "none"
  /\ UNCHANGED <<strategy, now, registered, agents, history, dead, restarted>>

(***************************************************************************)
(* monitor_agents at a stale agent.  The status test never excludes one:   *)
(* the orchestrator sets no terminal status.  The agent is reported when   *)
(* handle_failure restarted anything.                                      *)
(***************************************************************************)
MonitorAgent(a) ==
  /\ a \in registered
  /\ now - beat[a] > StaleAfter
  /\ HandleFailure(a)
  /\ approved' = IF restarted' # restarted THEN a ELSE "none"
  /\ UNCHANGED <<strategy, now, registered, beat>>

\* Supervisor::handle_failure called by the application itself.
ReportFailure(a) ==
  /\ HandleFailure(a)
  /\ approved' = "none"
  /\ UNCHANGED <<strategy, now, registered, beat>>

Tick ==
  /\ now < MaxTime
  /\ now' = now + 1
  /\ approved' = "none"
  /\ UNCHANGED <<strategy, registered, beat, agents, history, dead, restarted>>

-----------------------------------------------------------------------------

SupervisorNext ==
  \/ \E a \in AgentIds : SpawnAgent(a) \/ Deregister(a) \/ Heartbeat(a)
  \/ \E a \in AgentIds : MonitorAgent(a) \/ ReportFailure(a)
  \/ Tick

SupervisorSpec == SupervisorInit /\ [][SupervisorNext]_supervisorVars

-----------------------------------------------------------------------------
(* Properties *)

\* Restarts, of all there have been, in the sliding window that ends now.
InWindow == Cardinality({i \in DOMAIN restarted : restarted[i] >= now - TimeWindow})

(***************************************************************************)
(* The restarts of any sliding window stay within the budget when each     *)
(* failure restarts one agent; a strategy that restarts several spends the *)
(* last unit of the budget on at most all of them.  Pruning only the front *)
(* of restart_history forgets no restart of the window.                    *)
(***************************************************************************)
OvershootBounded ==
  InWindow <= IF MaxRestarts = 0 THEN 0
              ELSE IF strategy = "one_for_one" THEN MaxRestarts
              ELSE MaxRestarts - 1 + Cardinality(AgentIds)

(***************************************************************************)
(* An agent declared permanently dead stays down: until it is spawned      *)
(* again the monitor never reports it for a restart, however long it stays *)
(* silent and however much budget returns (strategies that look the failed *)
(* agent up).                                                              *)
(***************************************************************************)
DeadStaysDown == strategy # "all_for_one" => approved \notin dead

(***************************************************************************)
(* The same for every strategy.                                            *)
(***************************************************************************)
DeadAlwaysStaysDown == approved \notin dead

(***************************************************************************)
(* handle_failure stays within its budget, up to one round of restarts,    *)
(* and gives up an agent for good.                                         *)
(***************************************************************************)
SupervisionSound == TypeOK /\ OvershootBounded /\ DeadStaysDown
=============================================================================
