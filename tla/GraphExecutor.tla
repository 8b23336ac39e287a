--------------------------- MODULE GraphExecutor ---------------------------
(***************************************************************************)
(* The wave executor of daf-graph (crates/daf-graph/src/executor.rs) with  *)
(* the parts of the graph it drives: edge conditions (edge.rs), readiness, *)
(* completion and skip propagation (dag.rs) and the choice of a wave       *)
(* (scheduler.rs).                                                         *)
(*                                                                         *)
(* A step is one stretch between two await points of execute or of a       *)
(* spawned task.  The end of a handler and the write of the node's final   *)
(* state are two steps: the task takes the graph lock in between, and a    *)
(* caller that drops execute may take it first.                            *)
(***************************************************************************)
EXTENDS Naturals, FiniteSets

CONSTANTS
  Nodes,
  Graphs,       \* the sets of edges execution may start with
  Limits,       \* the max_concurrency values; unlimited is |Nodes|
  Rank,         \* scheduling order: by priority, then by name
  MaxRetries,   \* retries of each node's task specification
  InitStates    \* states a node may have before the first execution

EdgeKinds == {"depends_on", "triggers", "blocks", "data_flow", "conditional"}
Conditions == {"always", "on_success", "on_failure", "on_output"}
Edge == [source : Nodes, target : Nodes, kind : EdgeKinds, condition : Conditions \cup {"none"}]

NodeStates == {"Pending", "Ready", "Running", "Succeeded", "Failed", "Skipped", "Cancelled"}
Terminal == {"Succeeded", "Failed", "Skipped", "Cancelled"}

ASSUME GraphsAssumption == Graphs \subseteq SUBSET Edge
\* add_edge refuses an edge that closes a cycle: some node of every set of
\* nodes has no predecessor in it.
ASSUME AcyclicAssumption ==
  /\ IsFiniteSet(Nodes)
  /\ \A g \in Graphs : \A S \in (SUBSET Nodes) \ {{}} :
       \E n \in S : \A e \in g : e.target = n => e.source \notin S
ASSUME LimitsAssumption == Limits \subseteq Nat
ASSUME RankAssumption == Rank \in [Nodes -> Nat]
ASSUME MaxRetriesAssumption == MaxRetries \in [Nodes -> Nat]
ASSUME InitStatesAssumption == InitStates \subseteq {"Pending", "Succeeded", "Failed"}

VARIABLES
  edges,      \* the graph
  limit,      \* max_concurrency
  state,      \* the state of each node
  exec,       \* where execute is: "idle", "plan", "spawn", "join" or "stop"
  result,     \* its result: "none", "ok", or the error; "dropped" if the caller went away
  wave,       \* nodes of the current wave not yet spawned
  task,       \* where the spawned task of each node is
  retries,    \* retries_remaining of each task
  orphans,    \* aborted tasks whose execute was dropped: nobody joins them
  cancelled,  \* the cancellation token
  attempts    \* history: handler calls made for each node

vars == <<edges, limit, state, exec, result, wave, task, retries, orphans, cancelled, attempts>>

\* A task that is about to write an outcome is at that outcome.
Outcomes == {"Succeeded", "Failed", "Cancelled"}
Permitted == {"attempt", "retry"} \cup Outcomes
TaskStates == {"none", "queued", "returned", "panicked"} \cup Permitted
Errors == {"cancelled", "timeout", "invalid", "unsupported"}

TypeOK ==
  /\ edges \in Graphs
  /\ limit \in Limits
  /\ state \in [Nodes -> NodeStates]
  /\ exec \in {"idle", "plan", "spawn", "join", "stop"}
  /\ result \in {"none", "ok", "dropped"} \cup Errors
  /\ wave \subseteq Nodes
  /\ task \in [Nodes -> TaskStates]
  /\ retries \in [Nodes -> Nat]
  /\ orphans \subseteq Nodes
  /\ cancelled \in BOOLEAN
  /\ attempts \in [Nodes -> Nat]

Init ==
  /\ edges \in Graphs
  /\ limit \in Limits
  /\ state \in [Nodes -> InitStates]
  /\ exec = "idle"
  /\ result = "none"
  /\ wave = {}
  /\ task = [n \in Nodes |-> "none"]
  /\ retries = [n \in Nodes |-> 0]
  /\ orphans = {}
  /\ cancelled = FALSE
  /\ attempts = [n \in Nodes |-> 0]

-----------------------------------------------------------------------------
(* edge.rs, dag.rs and scheduler.rs *)

EffectiveCondition(e) ==
  IF e.condition # "none" THEN e.condition
  ELSE IF e.kind \in {"depends_on", "data_flow"} THEN "on_success" ELSE "always"

EdgeSatisfied(e, st) ==
  \/ EffectiveCondition(e) = "always" /\ st[e.source] \in Terminal
  \/ EffectiveCondition(e) = "on_success" /\ st[e.source] = "Succeeded"
  \/ EffectiveCondition(e) = "on_failure" /\ st[e.source] = "Failed"

\* An edge whose source has ended in a way that will never satisfy it.
Impossible(e, st) == st[e.source] \in Terminal /\ ~EdgeSatisfied(e, st)

\* Mutant: one satisfied edge makes a node ready.
ReadyNodes_AnyEdge(st) ==
  {n \in Nodes : /\ st[n] = "Pending"
                 /\ \/ \A e \in edges : e.target # n
                    \/ \E e \in edges : e.target = n /\ EdgeSatisfied(e, st)}

ReadyNodes(st) ==
  {n \in Nodes : st[n] = "Pending" /\ \A e \in edges : e.target = n => EdgeSatisfied(e, st)}

Skip(st, S) == [n \in Nodes |-> IF n \in S THEN "Skipped" ELSE st[n]]

(***************************************************************************)
(* The nodes the loop of skip_impossible_nodes ends up skipping: the least *)
(* set that no further round would enlarge.                                *)
(***************************************************************************)
Pending(st) == {n \in Nodes : st[n] = "Pending"}

ClosedSkip(st, S) ==
  \A e \in edges : e.target \in Pending(st) /\ Impossible(e, Skip(st, S)) => e.target \in S

\* Mutant: every dependent of a failed node is skipped.
SkippedNodes_OnFailure(st) ==
  {n \in Pending(st) : \E e \in edges : e.target = n /\ st[e.source] = "Failed"}

\* Mutant: one round, without the cascade.
SkippedNodes_OneRound(st) ==
  {n \in Pending(st) : \E e \in edges : e.target = n /\ Impossible(e, st)}

SkippedNodes(st) ==
  {n \in Pending(st) : \A S \in SUBSET Pending(st) : ClosedSkip(st, S) => n \in S}

SkipImpossibleNodes(st) == Skip(st, SkippedNodes(st))

MarkComplete(st, n, outcome) == SkipImpossibleNodes([st EXCEPT ![n] = outcome])

\* Mutant: every ready node is in the wave.
IsWave_Unbounded(W, st) == W = ReadyNodes(st)

\* The first wave of a plan: the ready nodes of best rank, at most limit.
IsWave(W, st) ==
  LET ready == ReadyNodes(st)
  IN /\ W \subseteq ready
     /\ Cardinality(W) = IF Cardinality(ready) <= limit THEN Cardinality(ready) ELSE limit
     /\ \A n \in W, m \in ready \ W : Rank[n] <= Rank[m]

CancelRemaining(st) == [n \in Nodes |-> IF st[n] \in Terminal THEN st[n] ELSE "Cancelled"]

-----------------------------------------------------------------------------
(* execute and execute_inner *)

\* A graph with an output condition is refused before anything is touched.
Unsupported == \E e \in edges : EffectiveCondition(e) = "on_output"

Execute ==
  /\ exec = "idle"
  /\ \/ Unsupported /\ result' = "unsupported" /\ UNCHANGED exec
     \/ ~Unsupported /\ limit > 0 /\ result' = "none" /\ exec' = "plan"
     \/ ~Unsupported /\ limit = 0 /\ result' = "invalid" /\ exec' = "stop"
  /\ UNCHANGED <<edges, limit, state, wave, task, retries, orphans, cancelled, attempts>>

\* Leave execute_inner with a result; execute goes on to stop its tasks.
Stop(res) == exec' = "stop" /\ result' = res

\* Tasks of this execution; abort_all is called on them when it stops.
Owned == {n \in Nodes : task[n] # "none"} \ orphans
Aborted(n) == exec = "stop" \/ n \in orphans

(***************************************************************************)
(* The top of the loop: skip what has become impossible and take the next  *)
(* wave from the outcomes so far, or end if there is none.                 *)
(***************************************************************************)
PlanWave ==
  /\ exec = "plan"
  /\ LET st == SkipImpossibleNodes(state)
     IN \E W \in SUBSET Nodes :
          /\ IsWave(W, st)
          /\ \/ /\ W # {}
                /\ ~cancelled
                /\ state' = [n \in Nodes |-> IF n \in W THEN "Ready" ELSE st[n]]
                /\ wave' = W
                /\ exec' = "spawn"
                /\ UNCHANGED result
             \/ /\ W # {}
                /\ cancelled
                /\ state' = CancelRemaining(st)
                /\ Stop("cancelled")
                /\ UNCHANGED wave
             \/ /\ W = {}
                /\ state' = st
                /\ Stop(IF cancelled THEN "cancelled" ELSE "ok")
                /\ UNCHANGED wave
  /\ UNCHANGED <<edges, limit, task, retries, orphans, cancelled, attempts>>

\* After its on_node_start callback, a ready node is marked and spawned.
Spawn(n) ==
  /\ exec = "spawn"
  /\ n \in wave
  /\ \A m \in wave : Rank[n] <= Rank[m]
  /\ wave' = wave \ {n}
  /\ state' = [state EXCEPT ![n] = "Running"]
  /\ task' = [task EXCEPT ![n] = "queued"]
  /\ retries' = [retries EXCEPT ![n] = MaxRetries[n]]
  /\ UNCHANGED <<edges, limit, exec, result, orphans, cancelled, attempts>>

WaveSpawned ==
  /\ exec = "spawn"
  /\ wave = {}
  /\ exec' = "join"
  /\ UNCHANGED <<edges, limit, state, result, wave, task, retries, orphans, cancelled, attempts>>

\* Mutant: a panicked task is never joined.
Join_ReturnedOnly(n) ==
  /\ exec = "join"
  /\ task[n] = "returned"
  /\ task' = [task EXCEPT ![n] = "none"]
  /\ UNCHANGED <<edges, limit, state, exec, result, wave, retries, orphans, cancelled, attempts>>

\* join_next_with_id: a panicked task's node is failed here.
Join(n) ==
  /\ exec = "join"
  /\ task[n] \in {"returned", "panicked"}
  /\ state' = IF task[n] = "panicked" THEN MarkComplete(state, n, "Failed") ELSE state
  /\ task' = [task EXCEPT ![n] = "none"]
  /\ UNCHANGED <<edges, limit, exec, result, wave, retries, orphans, cancelled, attempts>>

WaveJoined ==
  /\ exec = "join"
  /\ Owned = {}
  /\ exec' = "plan"
  /\ UNCHANGED <<edges, limit, state, result, wave, task, retries, orphans, cancelled, attempts>>

\* The select or the timeout drops execute_inner at an await, or the loop's
\* own deadline check ends it.
Interrupt ==
  /\ exec \in {"plan", "spawn", "join"}
  /\ \/ cancelled /\ Stop("cancelled")
     \/ Stop("timeout")
  /\ wave' = {}
  /\ UNCHANGED <<edges, limit, state, task, retries, orphans, cancelled, attempts>>

\* After abort_all, join_next takes what has ended.
Drain(n) ==
  /\ exec = "stop"
  /\ task[n] \in {"returned", "panicked"}
  /\ task' = [task EXCEPT ![n] = "none"]
  /\ UNCHANGED <<edges, limit, state, exec, result, wave, retries, orphans, cancelled, attempts>>

\* Mutant: execute returns after abort_all without joining.
Return_NoJoin ==
  /\ exec = "stop"
  /\ state' = CancelRemaining(state)
  /\ exec' = "idle"
  /\ UNCHANGED <<edges, limit, result, wave, task, retries, orphans, cancelled, attempts>>

\* Every task has been joined: clean up and return.
Return ==
  /\ exec = "stop"
  /\ Owned = {}
  /\ state' = CancelRemaining(state)
  /\ exec' = "idle"
  /\ UNCHANGED <<edges, limit, result, wave, task, retries, orphans, cancelled, attempts>>

(***************************************************************************)
(* The caller drops the future of execute: the JoinSet aborts its tasks    *)
(* without waiting for them, then Cleanup marks the remaining nodes.       *)
(***************************************************************************)
CallerDrop ==
  /\ exec # "idle"
  /\ exec' = "idle"
  /\ result' = "dropped"
  /\ task' = [n \in Nodes |-> IF task[n] \in {"returned", "panicked"} THEN "none" ELSE task[n]]
  /\ orphans' = {n \in Nodes : task'[n] # "none"}
  /\ state' = CancelRemaining(state)
  /\ wave' = {}
  /\ UNCHANGED <<edges, limit, retries, cancelled, attempts>>

-----------------------------------------------------------------------------
(* A spawned task *)

\* A semaphore permit is free.
AcquirePermit(n) ==
  /\ task[n] = "queued"
  /\ ~Aborted(n)
  /\ Cardinality({m \in Owned : task[m] \in Permitted}) < limit
  /\ task' = [task EXCEPT ![n] = "attempt"]
  /\ attempts' = [attempts EXCEPT ![n] = @ + 1]
  /\ UNCHANGED <<edges, limit, state, exec, result, wave, retries, orphans, cancelled>>

\* The handler returns, fails or times out, or the token is seen; a failure
\* with retries left is tried again.
Attempt(n) ==
  /\ task[n] = "attempt"
  /\ \/ /\ task' = [task EXCEPT ![n] = "Succeeded"]
        /\ UNCHANGED retries
     \/ /\ retries[n] = 0
        /\ task' = [task EXCEPT ![n] = "Failed"]
        /\ UNCHANGED retries
     \/ /\ retries[n] > 0
        /\ retries' = [retries EXCEPT ![n] = @ - 1]
        /\ task' = [task EXCEPT ![n] = "retry"]
     \/ /\ cancelled
        /\ task' = [task EXCEPT ![n] = "Cancelled"]
        /\ UNCHANGED retries
  /\ UNCHANGED <<edges, limit, state, exec, result, wave, orphans, cancelled, attempts>>

\* The next attempt, after the yield.
Retry(n) ==
  /\ task[n] = "retry"
  /\ ~Aborted(n)
  /\ task' = [task EXCEPT ![n] = "attempt"]
  /\ attempts' = [attempts EXCEPT ![n] = @ + 1]
  /\ UNCHANGED <<edges, limit, state, exec, result, wave, retries, orphans, cancelled>>

\* The task ends; nobody joins one that outlived execute.
Ends(n, how) ==
  /\ task' = [task EXCEPT ![n] = IF n \in orphans THEN "none" ELSE how]
  /\ orphans' = orphans \ {n}

\* The handler panics and the task unwinds.
Panic(n) ==
  /\ task[n] = "attempt"
  /\ Ends(n, "panicked")
  /\ UNCHANGED <<edges, limit, state, exec, result, wave, retries, cancelled, attempts>>

\* Under the graph lock: write the outcome, unless the node was cancelled.
Finalize(n) ==
  /\ task[n] \in Outcomes
  /\ state' = IF state[n] = "Cancelled" THEN state ELSE MarkComplete(state, n, task[n])
  /\ Ends(n, "returned")
  /\ UNCHANGED <<edges, limit, exec, result, wave, retries, cancelled, attempts>>

\* Mutant: a task whose handler runs is not aborted.
TaskAborted_QueuedOnly(n) ==
  /\ Aborted(n)
  /\ task[n] = "queued"
  /\ task' = [task EXCEPT ![n] = "none"]
  /\ orphans' = orphans \ {n}
  /\ UNCHANGED <<edges, limit, state, exec, result, wave, retries, cancelled, attempts>>

\* An aborted task is dropped at an await; join_next sees it at once.
TaskAborted(n) ==
  /\ Aborted(n)
  /\ task[n] \in {"queued", "attempt", "retry"}
  /\ task' = [task EXCEPT ![n] = "none"]
  /\ orphans' = orphans \ {n}
  /\ UNCHANGED <<edges, limit, state, exec, result, wave, retries, cancelled, attempts>>

CancelToken ==
  /\ ~cancelled
  /\ cancelled' = TRUE
  /\ UNCHANGED <<edges, limit, state, exec, result, wave, task, retries, orphans, attempts>>

-----------------------------------------------------------------------------

TaskStep(n) == AcquirePermit(n) \/ Retry(n) \/ Finalize(n) \/ TaskAborted(n)

ExecutorStep ==
  \/ PlanWave \/ WaveSpawned \/ WaveJoined \/ Return
  \/ \E n \in Nodes : Spawn(n) \/ Join(n) \/ Drain(n)

Next ==
  \/ Execute \/ ExecutorStep \/ Interrupt \/ CallerDrop \/ CancelToken
  \/ \E n \in Nodes : TaskStep(n) \/ Attempt(n) \/ Panic(n)

Spec == Init /\ [][Next]_vars

\* The runtime polls execute and its tasks, and delivers a cancellation.
Fairness ==
  /\ WF_vars(ExecutorStep)
  /\ WF_vars(cancelled /\ Interrupt)
  /\ \A n \in Nodes : WF_vars(TaskStep(n))

FairSpec == Spec /\ Fairness

-----------------------------------------------------------------------------
(* Properties *)

(***************************************************************************)
(* No handler runs before its node's incoming edges are satisfied by the   *)
(* final states of their sources, and they stay satisfied: neither a       *)
(* transient failure nor a late write of an interrupted run undoes what a  *)
(* started node was promised.                                              *)
(***************************************************************************)
DependenciesRespected ==
  \A n \in Nodes :
    attempts[n] > 0 \/ task[n] # "none" \/ state[n] \in {"Ready", "Running"} =>
      \A e \in edges : e.target = n => EdgeSatisfied(e, state)

(***************************************************************************)
(* A node is skipped only for an incoming edge whose source ended without  *)
(* satisfying it, and a skipped node never runs.                           *)
(***************************************************************************)
SkippedJustified ==
  \A n \in Nodes : state[n] = "Skipped" =>
    /\ attempts[n] = 0
    /\ task[n] = "none"
    /\ \E e \in edges : e.target = n /\ Impossible(e, state)

(***************************************************************************)
(* execute returns Ok only when every node has a final state: replanning   *)
(* from actual outcomes strands no node.                                   *)
(***************************************************************************)
OkMeansComplete ==
  exec = "stop" /\ result = "ok" => \A n \in Nodes : state[n] \in Terminal

(***************************************************************************)
(* Once execute has returned, with any result, no task of it is left to    *)
(* run.  Only a caller that drops execute leaves tasks behind, and their   *)
(* nodes are final: whatever such a task still does is discarded.          *)
(***************************************************************************)
NoTaskOutlivesExecute ==
  /\ exec = "idle" => Owned = {}
  /\ \A n \in orphans : state[n] \in Terminal

(***************************************************************************)
(* No more tasks are alive than max_concurrency allows, and no handler is  *)
(* called more often than its retries allow.                               *)
(***************************************************************************)
BoundsRespected ==
  /\ Cardinality(Owned) <= limit
  /\ \A n \in Nodes : attempts[n] <= MaxRetries[n] + 1

(***************************************************************************)
(* A node's terminal state never changes: not by a task that finishes      *)
(* after its node was cancelled, nor by a later execution.                 *)
(***************************************************************************)
TerminalIsFinal ==
  [][\A n \in Nodes : state[n] \in Terminal => state'[n] = state[n]]_vars

(***************************************************************************)
(* A cancelled execution returns even if handlers never end.               *)
(***************************************************************************)
CancelStops == cancelled /\ exec # "idle" ~> exec = "idle"

\* Every handler call ends, by itself or by its node timeout.
HandlersEnd == \A n \in Nodes : WF_vars(Attempt(n) \/ Panic(n))

(***************************************************************************)
(* If every handler call ends, execute returns: panics, retries, skipped   *)
(* branches and truncated waves strand nothing.                            *)
(***************************************************************************)
ExecuteReturns == HandlersEnd => (exec # "idle" ~> exec = "idle")

(***************************************************************************)
(* How execute may leave a graph: Ok only when all of it is final, nothing *)
(* skipped without a reason, nothing run beyond its bounds.                *)
(***************************************************************************)
OutcomeSound == TypeOK /\ OkMeansComplete /\ SkippedJustified /\ BoundsRespected

(***************************************************************************)
(* execute comes to an end: at once when it is cancelled, and otherwise    *)
(* when its handlers do.                                                   *)
(***************************************************************************)
ExecutionEnds == CancelStops /\ ExecuteReturns
=============================================================================
