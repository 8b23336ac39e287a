----------------------------- MODULE GraphProofs ----------------------------
(***************************************************************************)
(* Safety of the wave executor for every set of nodes, every set of        *)
(* graphs, every concurrency limit and every number of retries.  The       *)
(* inductive invariant adds to the properties what the place of a task and *)
(* of execute says of the state of a node.                                 *)
(*                                                                         *)
(* And safety of the execution graph it runs, for all nodes, conditions,   *)
(* limits and durations: the graph that edits keep (GraphInv), and over it *)
(* walks (WalkInv), plans (PlanInv) and the critical path.                 *)
(***************************************************************************)
EXTENDS GraphExecutor, GraphDesign, FiniteSetTheorems, SequenceTheorems, NaturalsInduction, WellFoundedInduction, TLAPS

\* Tasks, waves and orphans against node states.
TaskInv ==
  /\ \A n \in Nodes :
       /\ state[n] \in {"Pending", "Ready", "Skipped"} => task[n] = "none" /\ attempts[n] = 0
       /\ n \in wave => state[n] = "Ready"
       /\ n \in orphans => state[n] = "Cancelled" /\ task[n] \notin {"none", "returned", "panicked"}
       /\ n \notin orphans /\ task[n] \notin {"none", "returned"} => state[n] = "Running"
       /\ exec \in {"idle", "plan"} /\ n \notin orphans => task[n] = "none"
  /\ exec # "spawn" => wave = {}

\* The inductive invariant.
IInv == TypeOK /\ TaskInv /\ DependenciesRespected /\ SkippedJustified

-----------------------------------------------------------------------------
(* skip_impossible_nodes *)

(***************************************************************************)
(* The least closed set is closed: one more round of the loop would skip   *)
(* nothing.                                                                *)
(***************************************************************************)
LEMMA SkipClosed ==
  ASSUME edges \subseteq Edge, NEW st \in [Nodes -> NodeStates]
  PROVE  ClosedSkip(st, SkippedNodes(st))
<1> DEFINE S == SkippedNodes(st)
<1> SUFFICES ASSUME NEW e \in edges, e.target \in Pending(st), Impossible(e, Skip(st, S)),
                    NEW T \in SUBSET Pending(st), ClosedSkip(st, T)
             PROVE  e.target \in T
  BY DEF ClosedSkip, SkippedNodes
<1>1. e.source \in Nodes
  BY DEF Edge
<1>2. Skip(st, T)[e.source] = Skip(st, S)[e.source]
  <2>1. CASE e.source \in S
    <3>1. e.source \in T
      BY <2>1 DEF SkippedNodes
    <3>2. QED
      BY <1>1, <2>1, <3>1 DEF Skip
  <2>2. CASE e.source \notin S
    <3>1. st[e.source] \in Terminal
      BY <1>1, <2>2 DEF Impossible, Skip
    <3>2. e.source \notin T
      BY <3>1 DEF Pending, Terminal
    <3>3. QED
      BY <1>1, <2>2, <3>2 DEF Skip
  <2>3. QED
    BY <2>1, <2>2
<1>3. Impossible(e, Skip(st, T))
  BY <1>2 DEF Impossible, EdgeSatisfied
<1>4. QED
  BY <1>3 DEF ClosedSkip

(***************************************************************************)
(* Every node skipped has an incoming edge that can no longer be           *)
(* satisfied: otherwise a smaller set would be closed.                     *)
(***************************************************************************)
LEMMA SkipJustified ==
  ASSUME edges \subseteq Edge, NEW st \in [Nodes -> NodeStates], NEW n \in SkippedNodes(st)
  PROVE  \E e \in edges : e.target = n /\ Impossible(e, SkipImpossibleNodes(st))
<1> DEFINE S == SkippedNodes(st)
           T == S \ {n}
<1> SUFFICES ASSUME \A e \in edges : e.target = n => ~Impossible(e, Skip(st, S))
             PROVE  FALSE
  BY DEF SkipImpossibleNodes
<1>1. ClosedSkip(st, S)
  BY SkipClosed
<1>2. S \subseteq Pending(st)
  BY DEF SkippedNodes
<1>3. ClosedSkip(st, T)
  <2> SUFFICES ASSUME NEW e \in edges, e.target \in Pending(st), Impossible(e, Skip(st, T))
               PROVE  e.target \in T
    BY DEF ClosedSkip
  <2>1. e.source \in Nodes
    BY DEF Edge
  <2>2. e.source # n
    <3>1. st[n] = "Pending" /\ n \in Nodes
      BY <1>2 DEF Pending
    <3>2. Skip(st, T)[n] = "Pending"
      BY <3>1 DEF Skip
    <3>3. QED
      BY <3>2 DEF Impossible, Terminal
  <2>3. Skip(st, T)[e.source] = Skip(st, S)[e.source]
    BY <2>1, <2>2 DEF Skip
  <2>4. Impossible(e, Skip(st, S))
    BY <2>3 DEF Impossible, EdgeSatisfied
  <2>5. e.target \in S
    BY <1>1, <2>4 DEF ClosedSkip
  <2>6. QED
    BY <2>4, <2>5
<1>4. n \in T
  BY <1>2, <1>3 DEF SkippedNodes
<1>5. QED
  BY <1>4

\* What one application of skip_impossible_nodes may do to the states.
Skips(st, st2) ==
  /\ st2 \in [Nodes -> NodeStates]
  /\ \A m \in Nodes :
       \/ st2[m] = st[m]
       \/ /\ st[m] = "Pending" /\ st2[m] = "Skipped"
          /\ \E e \in edges : e.target = m /\ Impossible(e, st2)

(***************************************************************************)
(* skip_impossible_nodes only turns pending nodes into skipped ones, each  *)
(* with a reason.                                                          *)
(***************************************************************************)
LEMMA SkipEffect ==
  ASSUME edges \subseteq Edge, NEW st \in [Nodes -> NodeStates]
  PROVE  Skips(st, SkipImpossibleNodes(st))
<1> DEFINE st2 == SkipImpossibleNodes(st)
<1>1. st2 \in [Nodes -> NodeStates]
  BY DEF SkipImpossibleNodes, Skip, NodeStates
<1>2. ASSUME NEW m \in Nodes, m \in SkippedNodes(st)
      PROVE  /\ st[m] = "Pending" /\ st2[m] = "Skipped"
             /\ \E e \in edges : e.target = m /\ Impossible(e, st2)
  BY <1>2, SkipJustified DEF SkipImpossibleNodes, Skip, SkippedNodes, Pending
<1>3. ASSUME NEW m \in Nodes, m \notin SkippedNodes(st) PROVE st2[m] = st[m]
  BY <1>3 DEF SkipImpossibleNodes, Skip
<1>4. QED
  BY <1>1, <1>2, <1>3 DEF Skips

-----------------------------------------------------------------------------
(* Preservation *)

Claimed(n) == attempts[n] > 0 \/ task[n] # "none" \/ state[n] \in {"Ready", "Running"}

(***************************************************************************)
(* The two dependency properties carry over a step that keeps terminal     *)
(* states, starts only nodes whose edges are satisfied and skips only with *)
(* a reason: a satisfied edge has a terminal source, so it stays           *)
(* satisfied.                                                              *)
(***************************************************************************)
LEMMA Preserve ==
  ASSUME IInv, edges' = edges, TaskInv',
         state' \in [Nodes -> NodeStates],
         \A n \in Nodes : state[n] \in Terminal => state'[n] = state[n],
         \A n \in Nodes : Claimed(n)' =>
            Claimed(n) \/ \A e \in edges : e.target = n => EdgeSatisfied(e, state'),
         \A n \in Nodes : state'[n] = "Skipped" =>
            state[n] = "Skipped" \/ \E e \in edges : e.target = n /\ Impossible(e, state')
  PROVE  DependenciesRespected' /\ SkippedJustified'
<1>1. edges \subseteq Edge
  BY GraphsAssumption DEF IInv, TypeOK
<1>2. \A e \in edges : e.source \in Nodes
  BY <1>1 DEF Edge
<1>3. \A e \in edges : EdgeSatisfied(e, state) => EdgeSatisfied(e, state')
  BY <1>2 DEF EdgeSatisfied, Terminal
<1>4. \A e \in edges : Impossible(e, state) => Impossible(e, state')
  BY <1>2 DEF Impossible, EdgeSatisfied
<1>5. DependenciesRespected'
  <2> SUFFICES ASSUME NEW n \in Nodes, Claimed(n)', NEW e \in edges, e.target = n
               PROVE  EdgeSatisfied(e, state')
    BY DEF DependenciesRespected, Claimed
  <2>1. QED
    BY <1>3 DEF IInv, DependenciesRespected, Claimed
<1>6. SkippedJustified'
  <2> SUFFICES ASSUME NEW n \in Nodes, state'[n] = "Skipped"
               PROVE  /\ attempts'[n] = 0 /\ task'[n] = "none"
                      /\ \E e \in edges : e.target = n /\ Impossible(e, state')
    BY DEF SkippedJustified
  <2>1. attempts'[n] = 0 /\ task'[n] = "none"
    BY DEF TaskInv
  <2>2. \E e \in edges : e.target = n /\ Impossible(e, state')
    BY <1>4 DEF IInv, SkippedJustified
  <2>3. QED
    BY <2>1, <2>2
<1>7. QED
  BY <1>5, <1>6

(***************************************************************************)
(* Every initial state satisfies the invariant.                            *)
(***************************************************************************)
LEMMA InitIInv == Init => IInv
<1> SUFFICES ASSUME Init PROVE IInv
  OBVIOUS
<1>1. \A n \in Nodes : state[n] \in {"Pending", "Succeeded", "Failed"}
  BY InitStatesAssumption DEF Init
<1>2. TypeOK
  BY InitStatesAssumption DEF Init, TypeOK, NodeStates, TaskStates
<1>3. TaskInv
  BY <1>1 DEF Init, TaskInv
<1>4. DependenciesRespected /\ SkippedJustified
  BY <1>1 DEF Init, DependenciesRespected, SkippedJustified
<1>5. QED
  BY <1>2, <1>3, <1>4 DEF IInv

(***************************************************************************)
(* A step that keeps the terminal states and the invariant.                *)
(***************************************************************************)
Good == IInv' /\ \A n \in Nodes : state[n] \in Terminal => state'[n] = state[n]

(***************************************************************************)
(* Steps that change no node state.                                        *)
(***************************************************************************)
LEMMA QuietStep ==
  ASSUME IInv, UNCHANGED <<edges, state>>, TypeOK', TaskInv',
         \A n \in Nodes : Claimed(n)' => Claimed(n)
  PROVE  Good
<1>1. DependenciesRespected' /\ SkippedJustified'
  BY Preserve DEF IInv, TypeOK
<1>2. QED
  BY <1>1 DEF IInv, Good

(***************************************************************************)
(* Starting, spawning the last node, joining the wave, interrupting, and   *)
(* setting the token.                                                      *)
(***************************************************************************)
LEMMA ControlStep ==
  ASSUME IInv, Execute \/ WaveSpawned \/ WaveJoined \/ Interrupt \/ CancelToken
  PROVE  Good
<1>1. UNCHANGED <<edges, limit, state, task, retries, orphans, attempts>>
  BY DEF Execute, WaveSpawned, WaveJoined, Interrupt, CancelToken
<1>2. /\ exec' \in {"idle", "plan", "spawn", "join", "stop"}
      /\ result' \in {"none", "ok", "dropped"} \cup Errors
      /\ cancelled' \in BOOLEAN
      /\ wave' \in {wave, {}}
  BY DEF Execute, WaveSpawned, WaveJoined, Interrupt, CancelToken, Stop, Errors, IInv, TypeOK
<1>3. TypeOK'
  BY <1>1, <1>2 DEF IInv, TypeOK
<1>4. TaskInv'
  <2>1. exec' # "spawn" => wave' = {}
    BY DEF Execute, WaveSpawned, WaveJoined, Interrupt, CancelToken, Stop, IInv, TaskInv
  <2>2. exec' \in {"idle", "plan"} => \A n \in Nodes : n \notin orphans => task[n] = "none"
    <3>1. CASE Execute \/ CancelToken
      BY <3>1 DEF Execute, CancelToken, IInv, TaskInv
    <3>2. CASE WaveSpawned \/ Interrupt
      BY <3>2 DEF WaveSpawned, Interrupt, Stop
    <3>3. CASE WaveJoined
      BY <3>3 DEF WaveJoined, Owned
    <3>4. QED
      BY <3>1, <3>2, <3>3
  <2>3. QED
    BY <1>1, <1>2, <2>1, <2>2 DEF IInv, TaskInv
<1>5. QED
  BY <1>1, <1>3, <1>4, QuietStep DEF Claimed

(***************************************************************************)
(* A planned wave consists of pending nodes whose edges are satisfied.     *)
(***************************************************************************)
LEMMA PlanStep == ASSUME IInv, PlanWave PROVE Good
<1> DEFINE st == SkipImpossibleNodes(state)
<1>1. edges \subseteq Edge /\ state \in [Nodes -> NodeStates]
  BY GraphsAssumption DEF IInv, TypeOK
<1>2. Skips(state, st)
  BY <1>1, SkipEffect
<1>3. UNCHANGED <<edges, limit, task, retries, orphans, cancelled, attempts>>
  BY DEF PlanWave
<1>4. PICK W \in SUBSET Nodes :
        /\ IsWave(W, st)
        /\ \/ /\ state' = [n \in Nodes |-> IF n \in W THEN "Ready" ELSE st[n]]
              /\ wave' = W /\ exec' = "spawn" /\ UNCHANGED result
           \/ /\ state' = CancelRemaining(st)
              /\ exec' = "stop" /\ result' = "cancelled" /\ wave' = wave
           \/ /\ state' = st
              /\ exec' = "stop" /\ result' \in {"cancelled", "ok"} /\ wave' = wave
  BY DEF PlanWave, Stop
<1> HIDE DEF st
<1>5. wave = {} /\ \A n \in Nodes : n \notin orphans => task[n] = "none"
  BY DEF PlanWave, IInv, TaskInv
<1>6. \A n \in Nodes : st[n] \in NodeStates /\ (state[n] \in Terminal => st[n] = state[n])
  BY <1>2 DEF Skips, Terminal
<1>7. W \subseteq ReadyNodes(st)
  BY <1>4 DEF IsWave
<1>8. \A n \in W : /\ n \in Nodes /\ st[n] = "Pending" /\ state[n] = "Pending"
                   /\ \A e \in edges : e.target = n => EdgeSatisfied(e, st)
  BY <1>2, <1>7 DEF ReadyNodes, Skips
<1>9. state' \in [Nodes -> NodeStates]
  BY <1>2, <1>4 DEF Skips, CancelRemaining, NodeStates, Terminal
<1>10. \A n \in Nodes : st[n] \in Terminal => state'[n] = st[n]
  BY <1>4, <1>8 DEF CancelRemaining, Terminal
<1>11. TypeOK'
  BY <1>3, <1>4, <1>5, <1>9 DEF IInv, TypeOK, Errors
<1>12. \A n \in Nodes :
         /\ state'[n] \in {"Pending", "Ready", "Skipped"} => state[n] \in {"Pending", "Ready", "Skipped"}
         /\ state[n] = "Running" => state'[n] \in {"Running", "Cancelled"}
         /\ n \in wave' => state'[n] = "Ready"
         /\ state'[n] = "Ready" => state[n] = "Ready" \/ n \in W
         /\ state'[n] = "Running" => state[n] = "Running"
         /\ state'[n] = "Skipped" => st[n] = "Skipped"
  BY <1>2, <1>4, <1>5, <1>8 DEF Skips, CancelRemaining, Terminal
<1>13. TaskInv'
  BY <1>3, <1>4, <1>5, <1>6, <1>10, <1>12 DEF IInv, TaskInv, Terminal
<1>14. \A e \in edges : e.source \in Nodes
  BY <1>1 DEF Edge
<1>15. \A n \in Nodes : Claimed(n)' =>
         Claimed(n) \/ \A e \in edges : e.target = n => EdgeSatisfied(e, state')
  <2>1. \A e \in edges : EdgeSatisfied(e, st) => EdgeSatisfied(e, state')
    BY <1>10, <1>14 DEF EdgeSatisfied, Terminal
  <2>2. QED
    BY <1>3, <1>8, <1>12, <2>1 DEF Claimed
<1>16. \A n \in Nodes : state'[n] = "Skipped" =>
         state[n] = "Skipped" \/ \E e \in edges : e.target = n /\ Impossible(e, state')
  <2>1. \A e \in edges : Impossible(e, st) => Impossible(e, state')
    BY <1>10, <1>14 DEF Impossible, EdgeSatisfied
  <2>2. QED
    BY <1>2, <1>12, <2>1 DEF Skips
<1>17. \A n \in Nodes : state[n] \in Terminal => state'[n] = state[n]
  BY <1>6, <1>10
<1>18. DependenciesRespected' /\ SkippedJustified'
  BY <1>3, <1>9, <1>13, <1>15, <1>16, <1>17, Preserve
<1>19. QED
  BY <1>11, <1>13, <1>17, <1>18 DEF IInv, Good

(***************************************************************************)
(* A node of the wave is Ready, so marking it Running overwrites nothing.  *)
(***************************************************************************)
LEMMA SpawnStep == ASSUME IInv, NEW n \in Nodes, Spawn(n) PROVE Good
<1>1. /\ n \in wave /\ state[n] = "Ready" /\ task[n] = "none" /\ exec = "spawn"
      /\ state' = [state EXCEPT ![n] = "Running"]
      /\ task' = [task EXCEPT ![n] = "queued"]
      /\ retries' = [retries EXCEPT ![n] = MaxRetries[n]]
      /\ wave' = wave \ {n}
      /\ UNCHANGED <<edges, limit, exec, result, orphans, cancelled, attempts>>
  BY DEF Spawn, IInv, TaskInv
<1>2. TypeOK'
  BY <1>1, MaxRetriesAssumption DEF IInv, TypeOK, NodeStates, TaskStates
<1>3. TaskInv'
  BY <1>1 DEF IInv, TypeOK, TaskInv
<1>4. \A m \in Nodes : Claimed(m)' => Claimed(m)
  BY <1>1 DEF Claimed, IInv, TypeOK
<1>5. \A m \in Nodes : /\ state[m] \in Terminal => state'[m] = state[m]
                       /\ state'[m] = "Skipped" => state[m] = "Skipped"
  BY <1>1 DEF IInv, TypeOK, Terminal
<1>6. DependenciesRespected' /\ SkippedJustified'
  BY <1>1, <1>2, <1>3, <1>4, <1>5, Preserve DEF TypeOK
<1>7. QED
  BY <1>2, <1>3, <1>5, <1>6 DEF IInv, Good

(***************************************************************************)
(* Completing a running node and skipping what it makes impossible.        *)
(***************************************************************************)
LEMMA CompleteStep ==
  ASSUME IInv, NEW n \in Nodes, NEW o \in Outcomes,
         state[n] = "Running", n \notin orphans, task[n] # "none", exec \notin {"idle", "plan"},
         state' = MarkComplete(state, n, o),
         \/ task' = [task EXCEPT ![n] = "none"]
         \/ task' = [task EXCEPT ![n] = "returned"],
         UNCHANGED <<edges, limit, exec, result, wave, retries, orphans, cancelled, attempts>>
  PROVE  Good
<1> DEFINE st == [state EXCEPT ![n] = o]
<1>1. edges \subseteq Edge /\ st \in [Nodes -> NodeStates]
  BY GraphsAssumption DEF IInv, TypeOK, Outcomes, NodeStates
<1>2. Skips(st, state')
  BY <1>1, SkipEffect DEF MarkComplete
<1>3. st[n] = o /\ \A m \in Nodes : m # n => st[m] = state[m]
  BY DEF IInv, TypeOK
<1> HIDE DEF st
<1>4. /\ state'[n] = o
      /\ \A m \in Nodes : m # n =>
           \/ state'[m] = state[m]
           \/ /\ state[m] = "Pending" /\ state'[m] = "Skipped"
              /\ \E e \in edges : e.target = m /\ Impossible(e, state')
  BY <1>2, <1>3 DEF Skips, Outcomes
<1>5. state' \in [Nodes -> NodeStates]
  BY <1>2 DEF Skips
<1>6. TypeOK'
  BY <1>5 DEF IInv, TypeOK, TaskStates
<1>7. TaskInv'
  <2>1. n \notin wave
    BY DEF IInv, TaskInv
  <2>2. \A m \in Nodes : m # n => task'[m] = task[m]
    BY DEF IInv, TypeOK
  <2>3. task'[n] \in {"none", "returned"}
    BY DEF IInv, TypeOK
  <2>4. QED
    BY <1>4, <2>1, <2>2, <2>3 DEF IInv, TaskInv, Outcomes
<1>8. \A m \in Nodes : Claimed(m)' => Claimed(m)
  BY <1>4 DEF Claimed, IInv, TypeOK, Outcomes
<1>9. \A m \in Nodes : state[m] \in Terminal => state'[m] = state[m]
  BY <1>4 DEF Terminal
<1>10. \A m \in Nodes : state'[m] = "Skipped" =>
         state[m] = "Skipped" \/ \E e \in edges : e.target = m /\ Impossible(e, state')
  BY <1>4 DEF Outcomes
<1>11. DependenciesRespected' /\ SkippedJustified'
  BY <1>5, <1>7, <1>8, <1>9, <1>10, Preserve
<1>12. QED
  BY <1>6, <1>7, <1>9, <1>11 DEF IInv, Good

(***************************************************************************)
(* Joining a task, alive or panicked, and draining after abort_all.        *)
(***************************************************************************)
LEMMA JoinStep == ASSUME IInv, NEW n \in Nodes, Join(n) \/ Drain(n) PROVE Good
<1>1. /\ task[n] \in {"returned", "panicked"} /\ task' = [task EXCEPT ![n] = "none"]
      /\ exec \notin {"idle", "plan"}
      /\ UNCHANGED <<edges, limit, exec, result, wave, retries, orphans, cancelled, attempts>>
  BY DEF Join, Drain
<1>2. n \notin orphans
  BY <1>1 DEF IInv, TaskInv
<1>3. CASE UNCHANGED state
  <2>1. TypeOK'
    BY <1>1, <1>3 DEF IInv, TypeOK, TaskStates
  <2>2. TaskInv'
    BY <1>1, <1>2, <1>3 DEF IInv, TypeOK, TaskInv
  <2>3. \A m \in Nodes : Claimed(m)' => Claimed(m)
    BY <1>1, <1>3 DEF Claimed, IInv, TypeOK
  <2>4. QED
    BY <1>1, <1>3, <2>1, <2>2, <2>3, QuietStep
<1>4. CASE state' = MarkComplete(state, n, "Failed") /\ task[n] = "panicked"
  <2>1. state[n] = "Running"
    BY <1>2, <1>4 DEF IInv, TaskInv
  <2>2. QED
    BY <1>1, <1>2, <1>4, <2>1, CompleteStep DEF Outcomes
<1>5. QED
  BY <1>3, <1>4 DEF Join, Drain

(***************************************************************************)
(* The final cleanup, on return and when the caller goes away.             *)
(***************************************************************************)
LEMMA CleanupStep == ASSUME IInv, Return \/ CallerDrop PROVE Good
<1>1. /\ UNCHANGED <<edges, limit, retries, cancelled, attempts>>
      /\ exec' = "idle" /\ state' = CancelRemaining(state)
      /\ result' \in {result, "dropped"} /\ wave' = {}
  BY DEF Return, CallerDrop, IInv, TaskInv
<1>2. \A n \in Nodes : /\ state[n] \in Terminal => state'[n] = state[n]
                       /\ state[n] \notin Terminal => state'[n] = "Cancelled"
  BY <1>1 DEF CancelRemaining
<1>3. state' \in [Nodes -> NodeStates]
  BY <1>1 DEF CancelRemaining, IInv, TypeOK, NodeStates
<1>4. /\ task' \in [Nodes -> TaskStates] /\ orphans' \subseteq Nodes
      /\ \A n \in Nodes : /\ task'[n] \in {task[n], "none"}
                          /\ n \notin orphans' => task'[n] = "none"
                          /\ n \in orphans' => /\ task'[n] \notin {"none", "returned", "panicked"}
                                               /\ task[n] = task'[n]
  <2>1. CASE Return
    BY <2>1 DEF Return, Owned, IInv, TypeOK, TaskInv
  <2>2. CASE CallerDrop
    BY <2>2 DEF CallerDrop, IInv, TypeOK, TaskStates
  <2>3. QED
    BY <2>1, <2>2
<1>5. TypeOK'
  BY <1>1, <1>3, <1>4 DEF IInv, TypeOK
<1>6. TaskInv'
  <2>1. \A n \in Nodes : n \in orphans' => state'[n] = "Cancelled"
    BY <1>2, <1>4 DEF IInv, TaskInv, Terminal
  <2>2. \A n \in Nodes : state'[n] \in {"Pending", "Ready", "Skipped"} =>
          state[n] = "Skipped" /\ task'[n] = "none" /\ attempts'[n] = 0
    BY <1>1, <1>2, <1>4 DEF IInv, TaskInv, Terminal
  <2>3. QED
    BY <1>1, <1>4, <2>1, <2>2 DEF TaskInv
<1>7. \A n \in Nodes : Claimed(n)' => Claimed(n)
  BY <1>1, <1>2, <1>4 DEF Claimed, Terminal
<1>8. DependenciesRespected' /\ SkippedJustified'
  BY <1>1, <1>2, <1>3, <1>6, <1>7, Preserve DEF Terminal
<1>9. QED
  BY <1>2, <1>5, <1>6, <1>8 DEF IInv, Good

(***************************************************************************)
(* Steps of a task before its outcome is written.                          *)
(***************************************************************************)
LEMMA TaskQuietStep ==
  ASSUME IInv, NEW n \in Nodes,
         AcquirePermit(n) \/ Attempt(n) \/ Retry(n) \/ Panic(n) \/ TaskAborted(n)
  PROVE  Good
<1>1. /\ UNCHANGED <<edges, limit, state, exec, result, wave, cancelled>>
      /\ task[n] \in {"queued", "attempt", "retry"}
      /\ retries' \in [Nodes -> Nat]
      /\ attempts' \in [Nodes -> Nat] /\ \A m \in Nodes : m # n => attempts'[m] = attempts[m]
  BY DEF AcquirePermit, Attempt, Retry, Panic, Ends, TaskAborted, IInv, TypeOK
<1>2. PICK w \in TaskStates :
        /\ task' = [task EXCEPT ![n] = w]
        /\ \/ orphans' = orphans /\ w \notin {"none", "returned", "panicked"}
           \/ orphans' = orphans \ {n} /\ w = "none"
           \/ orphans' = orphans /\ n \notin orphans /\ w = "panicked"
  <2>1. CASE AcquirePermit(n) \/ Attempt(n) \/ Retry(n)
    BY <2>1 DEF AcquirePermit, Attempt, Retry, TaskStates, Permitted, Outcomes
  <2>2. CASE Panic(n)
    BY <2>2 DEF Panic, Ends, TaskStates
  <2>3. CASE TaskAborted(n)
    BY <2>3 DEF TaskAborted, TaskStates
  <2>4. QED
    BY <2>1, <2>2, <2>3
<1>3. /\ task'[n] = w /\ \A m \in Nodes : m # n => task'[m] = task[m]
      /\ task' \in [Nodes -> TaskStates]
      /\ \A m \in Nodes : m # n => (m \in orphans' <=> m \in orphans)
      /\ orphans' \subseteq Nodes
  BY <1>2 DEF IInv, TypeOK
<1>4. /\ n \notin orphans => state[n] = "Running" /\ exec \notin {"idle", "plan"}
      /\ n \in orphans => state[n] = "Cancelled"
      /\ n \notin wave
  BY <1>1 DEF IInv, TaskInv
<1>5. TypeOK'
  BY <1>1, <1>3 DEF IInv, TypeOK
<1>6. TaskInv'
  <2>1. \A m \in Nodes : m # n =>
          /\ state'[m] \in {"Pending", "Ready", "Skipped"} => task'[m] = "none" /\ attempts'[m] = 0
          /\ m \in wave' => state'[m] = "Ready"
          /\ m \in orphans' => state'[m] = "Cancelled" /\ task'[m] \notin {"none", "returned", "panicked"}
          /\ m \notin orphans' /\ task'[m] \notin {"none", "returned"} => state'[m] = "Running"
          /\ exec' \in {"idle", "plan"} /\ m \notin orphans' => task'[m] = "none"
    BY <1>1, <1>3 DEF IInv, TaskInv
  <2>2. QED
    BY <1>1, <1>2, <1>3, <1>4, <2>1 DEF IInv, TaskInv
<1>7. \A m \in Nodes : Claimed(m)' => Claimed(m)
  BY <1>1, <1>3 DEF Claimed
<1>8. QED
  BY <1>1, <1>5, <1>6, <1>7, QuietStep

(***************************************************************************)
(* Writing the outcome: the node is Running, or it was cancelled under the *)
(* task and the outcome is discarded.                                      *)
(***************************************************************************)
LEMMA FinalizeStep == ASSUME IInv, NEW n \in Nodes, Finalize(n) PROVE Good
<1>1. /\ task[n] \in Outcomes
      /\ UNCHANGED <<edges, limit, exec, result, wave, retries, cancelled, attempts>>
  BY DEF Finalize
<1>2. CASE n \in orphans
  <2>1. /\ state[n] = "Cancelled" /\ UNCHANGED state /\ n \notin wave
        /\ task' = [task EXCEPT ![n] = "none"] /\ orphans' = orphans \ {n}
    BY <1>2 DEF Finalize, Ends, IInv, TaskInv
  <2>2. TypeOK'
    BY <1>1, <2>1 DEF IInv, TypeOK, TaskStates
  <2>3. TaskInv'
    BY <1>1, <1>2, <2>1 DEF IInv, TypeOK, TaskInv
  <2>4. \A m \in Nodes : Claimed(m)' => Claimed(m)
    BY <1>1, <2>1 DEF Claimed, IInv, TypeOK
  <2>5. QED
    BY <1>1, <2>1, <2>2, <2>3, <2>4, QuietStep
<1>3. CASE n \notin orphans
  <2>1. state[n] = "Running" /\ exec \notin {"idle", "plan"}
    BY <1>1, <1>3 DEF IInv, TaskInv, Outcomes
  <2>2. /\ state' = MarkComplete(state, n, task[n])
        /\ task' = [task EXCEPT ![n] = "returned"] /\ orphans' = orphans
    BY <1>3, <2>1 DEF Finalize, Ends, IInv, TypeOK
  <2>3. task[n] # "none"
    BY <1>1 DEF Outcomes
  <2>4. QED
    BY <1>1, <1>3, <2>1, <2>2, <2>3, CompleteStep
<1>4. QED
  BY <1>2, <1>3

-----------------------------------------------------------------------------
(***************************************************************************)
(* Every step preserves the invariant and the terminal states.             *)
(***************************************************************************)
LEMMA NextGood == ASSUME IInv, [Next]_vars PROVE Good
<1>1. CASE UNCHANGED vars
  <2>1. TypeOK'
    BY <1>1 DEF vars, IInv, TypeOK
  <2>2. TaskInv'
    BY <1>1 DEF vars, IInv, TaskInv
  <2>3. QED
    BY <1>1, <2>1, <2>2, QuietStep DEF vars, Claimed
<1>2. CASE Execute \/ Interrupt \/ CancelToken \/ WaveSpawned \/ WaveJoined
  BY <1>2, ControlStep
<1>3. CASE PlanWave
  BY <1>3, PlanStep
<1>4. CASE Return \/ CallerDrop
  BY <1>4, CleanupStep
<1>5. ASSUME NEW n \in Nodes, Spawn(n) \/ Join(n) \/ Drain(n) PROVE Good
  BY <1>5, SpawnStep, JoinStep
<1>6. ASSUME NEW n \in Nodes, TaskStep(n) \/ Attempt(n) \/ Panic(n) PROVE Good
  BY <1>6, TaskQuietStep, FinalizeStep DEF TaskStep
<1>7. QED
  BY <1>1, <1>2, <1>3, <1>4, <1>5, <1>6 DEF Next, ExecutorStep

(***************************************************************************)
(* The inductive invariant holds in every reachable state of the executor. *)
(***************************************************************************)
THEOREM InvariantHolds == Spec => []IInv
<1>1. IInv /\ [Next]_vars => IInv'
  BY NextGood DEF Good
<1>2. QED
  BY InitIInv, <1>1, PTL DEF Spec

(***************************************************************************)
(* Type correctness of the executor.                                       *)
(***************************************************************************)
THEOREM TypeCorrect == Spec => []TypeOK
<1>1. IInv => TypeOK
  BY DEF IInv
<1>2. QED
  BY <1>1, InvariantHolds, PTL

(***************************************************************************)
(* A handler runs only when its node's incoming edges are satisfied, and   *)
(* they stay satisfied.                                                    *)
(***************************************************************************)
THEOREM DependencyOrder == Spec => []DependenciesRespected
<1>1. IInv => DependenciesRespected
  BY DEF IInv
<1>2. QED
  BY <1>1, InvariantHolds, PTL

(***************************************************************************)
(* A skipped node never ran and has an incoming edge that can no longer be *)
(* satisfied.                                                              *)
(***************************************************************************)
THEOREM SkipsAreJustified == Spec => []SkippedJustified
<1>1. IInv => SkippedJustified
  BY DEF IInv
<1>2. QED
  BY <1>1, InvariantHolds, PTL

(***************************************************************************)
(* execute leaves no task of its own behind, and a task left by a dropped  *)
(* caller belongs to a cancelled node.                                     *)
(***************************************************************************)
THEOREM NoTaskLeft == Spec => []NoTaskOutlivesExecute
<1>1. IInv => NoTaskOutlivesExecute
  BY DEF IInv, TypeOK, TaskInv, NoTaskOutlivesExecute, Owned, Terminal
<1>2. QED
  BY <1>1, InvariantHolds, PTL

(***************************************************************************)
(* No step changes a terminal node state.                                  *)
(***************************************************************************)
THEOREM TerminalStatesAreFinal == Spec => TerminalIsFinal
<1>1. IInv /\ [Next]_vars => [\A n \in Nodes : state[n] \in Terminal => state'[n] = state[n]]_vars
  BY NextGood DEF Good
<1>2. QED
  BY <1>1, InvariantHolds, PTL DEF Spec, TerminalIsFinal

-----------------------------------------------------------------------------
(* What execute has in hand, and how it ends *)

\* Tasks alive and nodes about to be spawned were one wave.
InHand == Owned \cup wave

\* How often the handler of n was called, by the place of its task.
Tried(n) ==
  /\ attempts[n] <= MaxRetries[n] + 1
  /\ task[n] = "queued" => attempts[n] = 0 /\ retries[n] = MaxRetries[n]
  /\ task[n] = "attempt" => attempts[n] + retries[n] = MaxRetries[n] + 1
  /\ task[n] = "retry" => attempts[n] + retries[n] = MaxRetries[n]

HandInv == IsFiniteSet(InHand) /\ Cardinality(InHand) <= limit
TriedInv == \A n \in Nodes : Tried(n)

\* Until execute stops, a node that is Ready is in the wave and one that is
\* Running has a task that will write its outcome.
ProgressInv ==
  /\ exec \in {"plan", "spawn", "join"} => limit > 0
  /\ exec # "stop" => \A n \in Nodes :
       /\ state[n] = "Ready" => n \in wave
       /\ state[n] = "Running" => n \notin orphans /\ task[n] \notin {"none", "returned"}
  /\ OkMeansComplete

OutcomeInv == IInv /\ HandInv /\ TriedInv /\ ProgressInv

LEMMA ShrinkingHand ==
  ASSUME HandInv, InHand' \subseteq InHand, limit' = limit, limit \in Nat
  PROVE  HandInv'
<1>1. IsFiniteSet(InHand') /\ Cardinality(InHand') <= Cardinality(InHand)
  BY FS_Subset DEF HandInv
<1>2. Cardinality(InHand') \in Nat /\ Cardinality(InHand) \in Nat
  BY <1>1, FS_CardinalityType DEF HandInv
<1>. QED BY <1>1, <1>2 DEF HandInv

\* A wave is no larger than max_concurrency.
LEMMA WaveWithinLimit ==
  ASSUME NEW W \in SUBSET Nodes, NEW st, IsWave(W, st), limit \in Nat
  PROVE  IsFiniteSet(W) /\ Cardinality(W) <= limit
<1>1. IsFiniteSet(W) /\ IsFiniteSet(ReadyNodes(st))
  BY AcyclicAssumption, FS_Subset DEF ReadyNodes
<1>2. Cardinality(ReadyNodes(st)) \in Nat
  BY <1>1, FS_CardinalityType
<1>. QED BY <1>1, <1>2 DEF IsWave

(***************************************************************************)
(* When the planner has nothing to run although it may run something, all  *)
(* nodes are final: a pending node would have a pending predecessor, that  *)
(* one another, and the graph has no cycle.                                *)
(***************************************************************************)
LEMMA EmptyWaveMeansDone ==
  ASSUME edges \in Graphs, NEW st0 \in [Nodes -> NodeStates], limit \in Nat, limit > 0,
         IsWave({}, SkipImpossibleNodes(st0)),
         \A n \in Nodes : st0[n] \notin {"Ready", "Running"}
  PROVE  \A n \in Nodes : SkipImpossibleNodes(st0)[n] \in Terminal
<1>. DEFINE st == SkipImpossibleNodes(st0)
            P == Pending(st)
<1>1. edges \subseteq Edge
  BY GraphsAssumption
<1>2. Skips(st0, st) /\ st = Skip(st0, SkippedNodes(st0)) /\ ClosedSkip(st0, SkippedNodes(st0))
  BY <1>1, SkipEffect, SkipClosed DEF SkipImpossibleNodes
<1>3. ReadyNodes(st) = {}
  <2>1. IsFiniteSet(ReadyNodes(st))
    BY AcyclicAssumption, FS_Subset DEF ReadyNodes
  <2>2. Cardinality(ReadyNodes(st)) \in Nat /\ Cardinality({}) = 0
    BY <2>1, FS_CardinalityType, FS_EmptySet
  <2>3. Cardinality(ReadyNodes(st)) = 0
    BY <2>2 DEF IsWave
  <2>. QED BY <2>1, <2>3, FS_EmptySet
<1>. HIDE DEF st
<1>4. \A n \in Nodes : st[n] \in Terminal \/ st[n] = "Pending"
  BY <1>2 DEF Skips, NodeStates, Terminal
<1>5. ASSUME NEW n \in P
      PROVE  \E e \in edges : e.target = n /\ e.source \in P
  <2>1. n \in Nodes /\ st[n] = "Pending" /\ n \notin ReadyNodes(st)
    BY <1>3, <1>5 DEF Pending
  <2>2. PICK e \in edges : e.target = n /\ ~EdgeSatisfied(e, st)
    BY <2>1 DEF ReadyNodes
  <2>3. e.source \in Nodes
    BY <1>1 DEF Edge
  <2>4. n \in Pending(st0) /\ n \notin SkippedNodes(st0)
    BY <1>2, <2>1 DEF Skips, Pending, Skip
  <2>5. ~Impossible(e, st)
    BY <1>2, <2>2, <2>4 DEF ClosedSkip
  <2>. QED BY <1>4, <2>2, <2>3, <2>5 DEF Impossible, Pending
<1>6. P = {}
  <2>. SUFFICES ASSUME P # {} PROVE FALSE
    OBVIOUS
  <2>1. P \subseteq Nodes /\ P # {}
    BY DEF Pending
  <2>. HIDE DEF P
  <2>2. PICK n \in P : \A e \in edges : e.target = n => e.source \notin P
    <3>1. P \in (SUBSET Nodes) \ {{}}
      BY <2>1
    <3>. QED BY <3>1, AcyclicAssumption
  <2>. QED BY <1>5, <2>2
<1>. QED BY <1>4, <1>6 DEF Pending, st

LEMMA OutcomeStarts == Init => OutcomeInv
<1>. SUFFICES ASSUME Init PROVE OutcomeInv
  OBVIOUS
<1>1. InHand = {} /\ limit \in Nat
  BY LimitsAssumption DEF Init, InHand, Owned
<1>2. HandInv
  BY <1>1, FS_EmptySet DEF HandInv
<1>3. TriedInv /\ ProgressInv
  BY InitStatesAssumption, MaxRetriesAssumption DEF Init, TriedInv, Tried, ProgressInv, OkMeansComplete
<1>. QED BY <1>2, <1>3, InitIInv DEF OutcomeInv

LEMMA PlanKeepsOutcome ==
  ASSUME OutcomeInv, PlanWave
  PROVE  HandInv' /\ TriedInv' /\ ProgressInv'
<1>. DEFINE st == SkipImpossibleNodes(state)
<1>1. /\ edges \in Graphs /\ edges \subseteq Edge /\ state \in [Nodes -> NodeStates] /\ limit \in Nat
      /\ limit > 0 /\ wave = {}
  BY GraphsAssumption, LimitsAssumption DEF OutcomeInv, IInv, TypeOK, TaskInv, ProgressInv, PlanWave
<1>2. \A n \in Nodes : state[n] \notin {"Ready", "Running"}
  BY <1>1 DEF OutcomeInv, IInv, TaskInv, ProgressInv, PlanWave
<1>3. Skips(state, st)
  BY <1>1, SkipEffect
<1>4. PICK W \in SUBSET Nodes :
        /\ IsWave(W, st)
        /\ \/ /\ state' = [n \in Nodes |-> IF n \in W THEN "Ready" ELSE st[n]]
              /\ wave' = W /\ exec' = "spawn" /\ UNCHANGED result
           \/ /\ state' = CancelRemaining(st)
              /\ exec' = "stop" /\ result' = "cancelled" /\ wave' = wave
           \/ /\ state' = st /\ W = {}
              /\ exec' = "stop" /\ result' \in {"cancelled", "ok"} /\ wave' = wave
  BY DEF PlanWave, Stop
<1>5. UNCHANGED <<edges, limit, task, retries, orphans, cancelled, attempts>> /\ Owned' = Owned /\ Owned = {}
  BY DEF PlanWave, Owned, OutcomeInv, IInv, TaskInv
<1>6. HandInv'
  <2>1. InHand' \in {W, {}}
    BY <1>1, <1>4, <1>5 DEF InHand
  <2>. QED BY <1>1, <1>4, <1>5, <2>1, WaveWithinLimit, FS_EmptySet DEF HandInv
<1>7. TriedInv'
  BY <1>5 DEF OutcomeInv, TriedInv, Tried
<1>8. W = {} => \A n \in Nodes : st[n] \in Terminal
  BY <1>1, <1>2, <1>4, EmptyWaveMeansDone
<1>. HIDE DEF st
<1>9. ProgressInv'
  BY <1>1, <1>2, <1>3, <1>4, <1>5, <1>8 DEF ProgressInv, OkMeansComplete, Skips
<1>. QED BY <1>6, <1>7, <1>9

LEMMA ControlKeepsOutcome ==
  ASSUME OutcomeInv, Execute \/ WaveSpawned \/ WaveJoined \/ Interrupt \/ CancelToken \/ UNCHANGED vars
  PROVE  HandInv' /\ TriedInv' /\ ProgressInv'
<1>1. UNCHANGED <<edges, limit, state, task, retries, orphans, attempts>> /\ wave' \subseteq wave
  BY DEF Execute, WaveSpawned, WaveJoined, Interrupt, CancelToken, vars
<1>2. limit \in Nat
  BY LimitsAssumption DEF OutcomeInv, IInv, TypeOK
<1>3. HandInv'
  BY <1>1, <1>2, ShrinkingHand DEF OutcomeInv, InHand, Owned
<1>4. TriedInv'
  BY <1>1 DEF OutcomeInv, TriedInv, Tried
<1>5. exec' # "stop" => exec # "stop" /\ wave' = wave
  BY DEF Execute, WaveSpawned, WaveJoined, Interrupt, Stop, CancelToken, vars
<1>6. exec' \in {"plan", "spawn", "join"} => limit > 0
  BY <1>2 DEF Execute, WaveSpawned, WaveJoined, Interrupt, Stop, CancelToken, vars, OutcomeInv, ProgressInv
<1>7. OkMeansComplete'
  BY <1>1 DEF Execute, WaveSpawned, WaveJoined, Interrupt, Stop, CancelToken, vars, OutcomeInv, ProgressInv,
     OkMeansComplete
<1>8. ProgressInv'
  BY <1>1, <1>5, <1>6, <1>7 DEF OutcomeInv, ProgressInv
<1>. QED BY <1>3, <1>4, <1>8

LEMMA SpawnKeepsOutcome ==
  ASSUME OutcomeInv, NEW n \in Nodes, Spawn(n)
  PROVE  HandInv' /\ TriedInv' /\ ProgressInv'
<1>1. /\ n \in wave /\ n \notin orphans /\ state[n] = "Ready" /\ exec = "spawn" /\ attempts[n] = 0
      /\ state' = [state EXCEPT ![n] = "Running"]
      /\ task' = [task EXCEPT ![n] = "queued"]
      /\ retries' = [retries EXCEPT ![n] = MaxRetries[n]]
      /\ wave' = wave \ {n}
      /\ UNCHANGED <<edges, limit, exec, result, orphans, cancelled, attempts>>
  BY DEF Spawn, OutcomeInv, IInv, TaskInv
<1>2. /\ task'[n] = "queued" /\ state'[n] = "Running" /\ retries'[n] = MaxRetries[n]
      /\ \A m \in Nodes \ {n} : task'[m] = task[m] /\ state'[m] = state[m] /\ retries'[m] = retries[m]
      /\ limit \in Nat /\ MaxRetries[n] \in Nat
  BY <1>1, LimitsAssumption, MaxRetriesAssumption DEF OutcomeInv, IInv, TypeOK
<1>3. InHand' \subseteq InHand
  BY <1>1, <1>2 DEF InHand, Owned
<1>4. HandInv'
  BY <1>1, <1>2, <1>3, ShrinkingHand DEF OutcomeInv
<1>5. TriedInv'
  BY <1>1, <1>2 DEF OutcomeInv, TriedInv, Tried
<1>6. ProgressInv'
  BY <1>1, <1>2 DEF OutcomeInv, ProgressInv, OkMeansComplete
<1>. QED BY <1>4, <1>5, <1>6

\* Return and CallerDrop leave every node final.
LEMMA CleanupKeepsOutcome ==
  ASSUME OutcomeInv, Return \/ CallerDrop
  PROVE  HandInv' /\ TriedInv' /\ ProgressInv'
<1>1. /\ exec' = "idle" /\ state' = CancelRemaining(state) /\ wave' \subseteq wave
      /\ UNCHANGED <<limit, retries, attempts>> /\ limit \in Nat
  BY LimitsAssumption DEF Return, CallerDrop, OutcomeInv, IInv, TypeOK
<1>2. /\ Owned' \subseteq Owned
      /\ \A n \in Nodes : task'[n] \in {task[n], "none"}
  BY DEF Return, CallerDrop, Owned
<1>3. HandInv'
  BY <1>1, <1>2, ShrinkingHand DEF OutcomeInv, InHand
<1>4. TriedInv'
  BY <1>1, <1>2 DEF OutcomeInv, TriedInv, Tried
<1>5. ProgressInv'
  BY <1>1 DEF CancelRemaining, Terminal, ProgressInv, OkMeansComplete
<1>. QED BY <1>3, <1>4, <1>5

\* Steps of the task of n, and of execute on it: counting.
LEMMA TaskKeepsCounts ==
  ASSUME OutcomeInv, NEW n \in Nodes,
         \/ Join(n) \/ Drain(n)
         \/ TaskStep(n) \/ Attempt(n) \/ Panic(n)
  PROVE  HandInv' /\ TriedInv'
<1>1. /\ limit' = limit /\ limit \in Nat /\ wave' = wave /\ task[n] # "none"
      /\ task \in [Nodes -> TaskStates] /\ attempts \in [Nodes -> Nat] /\ retries \in [Nodes -> Nat]
      /\ MaxRetries[n] \in Nat
  BY LimitsAssumption, MaxRetriesAssumption DEF Join, Drain, TaskStep, AcquirePermit, Retry, Finalize,
     TaskAborted, Attempt, Panic, OutcomeInv, IInv, TypeOK, Outcomes
<1>2. PICK w : task' = [task EXCEPT ![n] = w]
  BY DEF Join, Drain, TaskStep, AcquirePermit, Retry, Finalize, TaskAborted, Attempt, Panic, Ends
<1>3. task'[n] = w /\ \A m \in Nodes \ {n} : task'[m] = task[m]
  BY <1>1, <1>2
<1>4. orphans' \subseteq orphans /\ orphans \ {n} \subseteq orphans' /\ (n \in orphans \ orphans' => w = "none")
  BY <1>1, <1>2 DEF Join, Drain, TaskStep, AcquirePermit, Retry, Finalize, TaskAborted, Attempt, Panic, Ends
<1>5. HandInv'
  <2>1. InHand' \subseteq InHand
    BY <1>1, <1>3, <1>4 DEF InHand, Owned
  <2>. QED BY <1>1, <2>1, ShrinkingHand DEF OutcomeInv
<1>6. \A m \in Nodes \ {n} : attempts'[m] = attempts[m] /\ retries'[m] = retries[m]
  BY <1>1 DEF Join, Drain, TaskStep, AcquirePermit, Retry, Finalize, TaskAborted, Attempt, Panic
<1>7. Tried(n)'
  <2>1. CASE AcquirePermit(n) \/ Retry(n)
    <3>1. /\ task'[n] = "attempt" /\ attempts'[n] = attempts[n] + 1 /\ retries' = retries
          /\ task[n] \in {"queued", "retry"}
      BY <1>1, <2>1 DEF AcquirePermit, Retry
    <3>. QED BY <1>1, <3>1 DEF OutcomeInv, TriedInv, Tried
  <2>2. CASE Attempt(n)
    <3>1. /\ task[n] = "attempt" /\ attempts' = attempts
          /\ \/ task'[n] \in Outcomes /\ retries' = retries
             \/ task'[n] = "retry" /\ retries[n] > 0 /\ retries'[n] = retries[n] - 1
      BY <1>1, <2>2 DEF Attempt, Outcomes
    <3>. QED BY <1>1, <3>1 DEF OutcomeInv, TriedInv, Tried, Outcomes
  <2>3. CASE Join(n) \/ Drain(n) \/ Finalize(n) \/ TaskAborted(n) \/ Panic(n)
    <3>1. task'[n] \in {"none", "returned", "panicked"} /\ attempts' = attempts
      BY <1>1, <2>3 DEF Join, Drain, Finalize, TaskAborted, Panic, Ends
    <3>. QED BY <3>1 DEF OutcomeInv, TriedInv, Tried
  <2>. QED BY <2>1, <2>2, <2>3 DEF TaskStep
<1>8. TriedInv'
  BY <1>3, <1>6, <1>7 DEF OutcomeInv, TriedInv, Tried
<1>. QED BY <1>5, <1>8

LEMMA TaskKeepsProgress ==
  ASSUME OutcomeInv, NEW n \in Nodes,
         \/ Join(n) \/ Drain(n)
         \/ TaskStep(n) \/ Attempt(n) \/ Panic(n)
  PROVE  ProgressInv'
<1>1. /\ UNCHANGED <<exec, limit, wave, result>>
      /\ edges \subseteq Edge /\ state \in [Nodes -> NodeStates] /\ task \in [Nodes -> TaskStates]
  BY GraphsAssumption DEF Join, Drain, TaskStep, AcquirePermit, Retry, Finalize, TaskAborted, Attempt, Panic,
     OutcomeInv, IInv, TypeOK
<1>2. Good
  BY JoinStep, TaskQuietStep, FinalizeStep DEF OutcomeInv, TaskStep
<1>3. OkMeansComplete'
  BY <1>1, <1>2 DEF Good, OutcomeInv, ProgressInv, OkMeansComplete
<1>4. /\ orphans' \subseteq orphans
      /\ \A m \in Nodes \ {n} : task'[m] = task[m]
  BY <1>1 DEF Join, Drain, TaskStep, AcquirePermit, Retry, Finalize, TaskAborted, Attempt, Panic, Ends
<1>5. \A m \in Nodes : state'[m] \in {"Ready", "Running"} => state'[m] = state[m]
  <2>1. ASSUME NEW o \in Outcomes, state' = MarkComplete(state, n, o)
        PROVE  \A m \in Nodes : state'[m] \in {"Ready", "Running"} => state'[m] = state[m]
    <3>. DEFINE st == [state EXCEPT ![n] = o]
    <3>1. st \in [Nodes -> NodeStates] /\ st[n] = o /\ \A m \in Nodes \ {n} : st[m] = state[m]
      BY <1>1, <2>1 DEF Outcomes, NodeStates
    <3>. HIDE DEF st
    <3>2. Skips(st, state')
      BY <1>1, <2>1, <3>1, SkipEffect DEF MarkComplete, st
    <3>. QED BY <3>1, <3>2 DEF Skips, Outcomes
  <2>2. state' = state \/ \E o \in Outcomes : state' = MarkComplete(state, n, o)
    BY DEF Join, Drain, TaskStep, AcquirePermit, Retry, Finalize, TaskAborted, Attempt, Panic, Outcomes
  <2>. QED BY <2>1, <2>2
<1>6. ASSUME exec # "stop", state'[n] = "Running"
      PROVE  n \notin orphans' /\ task'[n] \notin {"none", "returned"}
  <2>1. n \notin orphans /\ task[n] \notin {"none", "returned"} /\ state[n] = "Running"
    BY <1>5, <1>6 DEF OutcomeInv, ProgressInv
  <2>2. ~Drain(n) /\ ~TaskAborted(n)
    BY <1>6, <2>1 DEF Drain, TaskAborted, Aborted
  <2>3. ASSUME NEW o \in Outcomes, state' = MarkComplete(state, n, o)
        PROVE  FALSE
    <3>. DEFINE st == [state EXCEPT ![n] = o]
    <3>1. st \in [Nodes -> NodeStates] /\ st[n] = o
      BY <1>1, <2>3 DEF Outcomes, NodeStates
    <3>. HIDE DEF st
    <3>2. Skips(st, state')
      BY <1>1, <2>3, <3>1, SkipEffect DEF MarkComplete, st
    <3>. QED BY <1>6, <3>1, <3>2 DEF Skips, Outcomes
  <2>4. ~Join(n) /\ ~Finalize(n)
    BY <2>1, <2>3 DEF Join, Finalize, Outcomes
  <2>5. CASE AcquirePermit(n) \/ Retry(n) \/ Attempt(n)
    BY <1>1, <2>1, <2>5 DEF AcquirePermit, Retry, Attempt
  <2>6. CASE Panic(n)
    BY <1>1, <2>1, <2>6 DEF Panic, Ends
  <2>. QED BY <2>2, <2>4, <2>5, <2>6 DEF TaskStep
<1>. QED BY <1>1, <1>3, <1>4, <1>5, <1>6 DEF OutcomeInv, ProgressInv

LEMMA OutcomeNextKeeps == OutcomeInv /\ [Next]_vars => OutcomeInv'
<1>. SUFFICES ASSUME OutcomeInv, [Next]_vars PROVE OutcomeInv'
  OBVIOUS
<1>1. IInv'
  BY NextGood DEF OutcomeInv, Good
<1>2. HandInv' /\ TriedInv' /\ ProgressInv'
  BY PlanKeepsOutcome, ControlKeepsOutcome, SpawnKeepsOutcome, CleanupKeepsOutcome, TaskKeepsCounts,
     TaskKeepsProgress DEF Next, ExecutorStep
<1>. QED BY <1>1, <1>2 DEF OutcomeInv

(***************************************************************************)
(* However execute ends, nodes were skipped only with a reason and never   *)
(* more tasks alive than max_concurrency nor more handler calls than the   *)
(* retries allow; and it ends with Ok only when every node of the acyclic  *)
(* graph is final, from whatever states it began.                          *)
(***************************************************************************)
THEOREM OutcomesAreSound == Spec => []OutcomeSound
<1>1. OutcomeInv => OutcomeSound
  <2>. SUFFICES ASSUME OutcomeInv PROVE OutcomeSound
    OBVIOUS
  <2>1. IsFiniteSet(Owned) /\ Cardinality(Owned) <= Cardinality(InHand)
    BY FS_Subset DEF OutcomeInv, HandInv, InHand
  <2>2. Cardinality(Owned) \in Nat /\ Cardinality(InHand) \in Nat /\ limit \in Nat
    BY <2>1, FS_CardinalityType, LimitsAssumption DEF OutcomeInv, HandInv, IInv, TypeOK
  <2>3. BoundsRespected
    BY <2>1, <2>2 DEF OutcomeInv, HandInv, TriedInv, Tried, BoundsRespected
  <2>. QED BY <2>3 DEF OutcomeInv, ProgressInv, IInv, OutcomeSound
<1>2. Spec => []OutcomeInv
  BY OutcomeStarts, OutcomeNextKeeps, PTL DEF Spec
<1>. QED BY <1>1, <1>2, PTL

-----------------------------------------------------------------------------
(* Numbers and lists *)

\* A set of numbers has a least one.
LEMMA LeastKey ==
  ASSUME NEW T, T \subseteq Nat, T # {}
  PROVE  \E x \in T : \A y \in T : x <= y
<1>. DEFINE R == OpToRel(<, Nat)
<1>1. IsWellFoundedOn(R, Nat)
  BY NatLessThanWellFounded
<1>2. \A a, b \in Nat : <<a, b>> \in R <=> a < b
  BY Zenon DEF OpToRel
<1> HIDE DEF R
<1>3. PICK x \in T : \A y \in T : ~ (<<y, x>> \in R)
  BY <1>1, WFMin
<1>4. \A y \in T : ~(y < x)
  BY <1>2, <1>3
<1>5. \A y \in T : x <= y
  BY <1>4
<1> QED BY <1>5

\* A list without repetitions.
Distinct(s) == \A i, j \in DOMAIN s : s[i] = s[j] => i = j

LEMMA DistinctAppend ==
  ASSUME NEW s \in Seq(Nat), Distinct(s), NEW x \in Nat, x \notin ToSet(s)
  PROVE  /\ Append(s, x) \in Seq(Nat) /\ Distinct(Append(s, x)) /\ ToSet(Append(s, x)) = ToSet(s) \cup {x}
<1>1. PICK n \in Nat : n = Len(s) /\ DOMAIN s = 1..n
  OBVIOUS
<1>. DEFINE r == Append(s, x)
<1>2. r \in Seq(Nat) /\ DOMAIN r = 1..(n + 1) /\ r[n + 1] = x /\ \A i \in 1..n : r[i] = s[i]
  BY <1>1
<1>. HIDE DEF r
<1>3. \A i \in 1..(n + 1) : i \in 1..n \/ i = n + 1
  OBVIOUS
<1>4. n + 1 \in 1..(n + 1) /\ \A i \in 1..n : i \in 1..(n + 1)
  OBVIOUS
<1>5. \A i \in 1..n : s[i] # x
  BY <1>1 DEF ToSet
<1>6. Distinct(r)
  BY <1>1, <1>2, <1>3, <1>5 DEF Distinct
<1>7. ToSet(r) = ToSet(s) \cup {x}
  BY <1>1, <1>2, <1>3, <1>4 DEF ToSet
<1>. QED BY <1>2, <1>6, <1>7 DEF r

LEMMA DistinctTail ==
  ASSUME NEW s \in Seq(Nat), Distinct(s), s # <<>>
  PROVE  /\ Tail(s) \in Seq(Nat) /\ Distinct(Tail(s)) /\ ToSet(Tail(s)) = ToSet(s) \ {Head(s)}
         /\ Head(s) \in ToSet(s) /\ Head(s) \in Nat
<1>1. PICK n \in Nat : n = Len(s) /\ DOMAIN s = 1..n /\ n > 0
  OBVIOUS
<1>. DEFINE r == Tail(s)
<1>2. r \in Seq(Nat) /\ DOMAIN r = 1..(n - 1) /\ Head(s) = s[1] /\ \A i \in 1..(n - 1) : r[i] = s[i + 1]
  BY <1>1
<1>. HIDE DEF r
<1>3. 1 \in 1..n /\ \A i \in 1..(n - 1) : i + 1 \in 1..n /\ i + 1 # 1
  BY <1>1
<1>4. \A i, j \in 1..(n - 1) : i + 1 = j + 1 => i = j
  OBVIOUS
<1>5. Distinct(r)
  <2>1. ASSUME NEW i \in 1..(n - 1), NEW j \in 1..(n - 1), r[i] = r[j] PROVE i = j
    <3>1. s[i + 1] = s[j + 1] /\ i + 1 \in DOMAIN s /\ j + 1 \in DOMAIN s
      BY <1>1, <1>2, <1>3, <2>1
    <3>2. i + 1 = j + 1
      BY <3>1 DEF Distinct
    <3>. QED BY <3>2
  <2>. QED BY <1>2, <2>1 DEF Distinct
<1>6. ASSUME NEW y \in ToSet(r) PROVE y \in ToSet(s) /\ y # s[1]
  <2>1. PICK i \in 1..(n - 1) : y = s[i + 1]
    BY <1>2, <1>6 DEF ToSet
  <2>. QED BY <1>1, <1>3, <2>1 DEF ToSet, Distinct
<1>7. ASSUME NEW y \in ToSet(s), y # s[1] PROVE y \in ToSet(r)
  <2>1. PICK i \in 1..n : y = s[i] /\ i # 1
    BY <1>1, <1>7 DEF ToSet
  <2>2. i - 1 \in 1..(n - 1) /\ (i - 1) + 1 = i
    BY <2>1
  <2>. QED BY <1>2, <2>1, <2>2 DEF ToSet
<1>8. ToSet(r) = ToSet(s) \ {s[1]}
  BY <1>6, <1>7
<1>9. s[1] \in ToSet(s) /\ s[1] \in Nat
  BY <1>1, <1>3 DEF ToSet
<1>. QED BY <1>2, <1>5, <1>8, <1>9 DEF r

-----------------------------------------------------------------------------
(* The execution graph while it is edited *)

\* What holds of zero and, with a number, of the next one, holds of all.
LEMMA NumberSteps ==
  ASSUME NEW S, 0 \in S, \A n \in Nat : n \in S => n + 1 \in S
  PROVE  \A n \in Nat : n \in S
<1>. DEFINE missing == {n \in Nat : n \notin S}
<1>1. SUFFICES ASSUME missing # {} PROVE FALSE
  OBVIOUS
<1>2. PICK m \in missing : \A k \in missing : m <= k
  BY <1>1, LeastKey
<1>3. m # 0 /\ m - 1 \in Nat /\ (m - 1) + 1 = m /\ ~(m <= m - 1)
  BY <1>2
<1>4. m - 1 \in S
  BY <1>2, <1>3
<1>. QED BY <1>2, <1>3, <1>4

\* One more round of neighbours.
Spread(T, next) == T \cup UNION {next[j] : j \in T}

\* The rounds of a search from i.
SearchOf(f, i, next, n) ==
  /\ f = [k \in 0..n |-> f[k]]
  /\ \A k \in 0..n : f[k] = IF k = 0 THEN {i} ELSE Spread(f[k - 1], next)

LEMMA SearchExists ==
  ASSUME Len(slots) \in Nat, NEW i, NEW next
  PROVE  \E f : SearchOf(f, i, next, Len(slots)) /\ Reach(i, next) = f[Len(slots)]
<1>1. PICK len \in Nat : len = Len(slots)
  OBVIOUS
<1>. DEFINE S == {n \in Nat : \E f : SearchOf(f, i, next, n)}
<1>2. 0 \in S
  <2>. DEFINE f == [k \in 0..0 |-> {i}]
  <2>1. SearchOf(f, i, next, 0)
    BY DEF SearchOf
  <2>. QED BY <2>1
<1>3. ASSUME NEW n \in Nat, n \in S PROVE n + 1 \in S
  <2>1. PICK f : SearchOf(f, i, next, n)
    BY <1>3
  <2>. DEFINE x == Spread(f[n], next)
              g == [k \in 0..(n + 1) |-> IF k = n + 1 THEN x ELSE f[k]]
  <2>2. /\ \A k \in 0..n : g[k] = f[k] /\ k # n + 1 /\ k \in 0..(n + 1)
        /\ g[n + 1] = Spread(g[n], next)
        /\ \A k \in 0..(n + 1) : k # n + 1 => k \in 0..n
    OBVIOUS
  <2>3. g = [k \in 0..(n + 1) |-> g[k]]
    OBVIOUS
  <2>. HIDE DEF g
  <2>4. ASSUME NEW k \in 0..(n + 1)
        PROVE  g[k] = IF k = 0 THEN {i} ELSE Spread(g[k - 1], next)
    <3>1. CASE k = n + 1
      <4>1. k # 0 /\ k - 1 = n
        BY <3>1
      <4>. QED BY <2>2, <3>1, <4>1
    <3>2. CASE k # n + 1
      <4>1. k \in 0..n /\ (k # 0 => k - 1 \in 0..n)
        BY <3>2
      <4>2. f[k] = IF k = 0 THEN {i} ELSE Spread(f[k - 1], next)
        BY <2>1, <4>1 DEF SearchOf
      <4>. QED BY <2>2, <4>1, <4>2
    <3>. QED BY <3>1, <3>2
  <2>5. SearchOf(g, i, next, n + 1)
    BY <2>3, <2>4 DEF SearchOf
  <2>. QED BY <2>5
<1>. HIDE DEF S
<1>4. len \in S
  BY <1>2, <1>3, NumberSteps
<1>5. PICK f : SearchOf(f, i, next, len)
  BY <1>4 DEF S
<1>. DEFINE P(h) == h = [k \in 0..len |-> IF k = 0 THEN {i} ELSE h[k - 1] \cup UNION {next[j] : j \in h[k - 1]}]
            h0 == CHOOSE h : P(h)
<1>6. P(f)
  BY <1>5 DEF SearchOf, Spread
<1>7. Reach(i, next) = h0[len]
  BY <1>1 DEF Reach
<1>8. P(h0)
  BY <1>6
<1>9. SearchOf(h0, i, next, len)
  <2>. HIDE DEF h0
  <2>. QED BY <1>8 DEF SearchOf, Spread
<1>. QED BY <1>1, <1>7, <1>9

Settled(T, next) == \A j \in T : next[j] \subseteq T

(***************************************************************************)
(* What Reach computes, with as many rounds as there are places, is the    *)
(* least set with i that no neighbour leads out of.                        *)
(***************************************************************************)
LEMMA ReachLeast ==
  ASSUME slots \in Seq(NodeIds), NEW i \in Places, NEW next \in [Places -> SUBSET Places]
  PROVE  /\ i \in Reach(i, next) /\ Reach(i, next) \subseteq Places /\ Settled(Reach(i, next), next)
         /\ \A T : i \in T /\ Settled(T, next) => Reach(i, next) \subseteq T
<1>1. PICK n \in Nat : n = Len(slots) /\ Places = 1..n
  BY DEF Places
<1>2. PICK f : SearchOf(f, i, next, n) /\ Reach(i, next) = f[n]
  BY <1>1, SearchExists
<1>3. f[0] = {i}
  <2>1. 0 \in 0..n
    OBVIOUS
  <2>. QED BY <1>2, <2>1 DEF SearchOf
<1>4. ASSUME NEW k \in Nat, k + 1 <= n PROVE f[k + 1] = Spread(f[k], next)
  <2>1. k + 1 \in 0..n /\ k + 1 # 0 /\ (k + 1) - 1 = k
    BY <1>4
  <2>. QED BY <1>2, <2>1 DEF SearchOf
<1>5. \A k \in Nat : k <= n => i \in f[k] /\ f[k] \subseteq Places
  <2>. DEFINE S == {k \in Nat : k <= n => i \in f[k] /\ f[k] \subseteq Places}
  <2>1. 0 \in S
    BY <1>3
  <2>2. ASSUME NEW k \in Nat, k \in S PROVE k + 1 \in S
    <3>1. k + 1 <= n => k <= n
      OBVIOUS
    <3>. QED BY <1>4, <2>2, <3>1 DEF Spread
  <2>. HIDE DEF S
  <2>3. \A k \in Nat : k \in S
    BY <2>1, <2>2, NumberSteps
  <2>. QED BY <2>3 DEF S
<1>6. ASSUME NEW T, i \in T, Settled(T, next) PROVE \A k \in Nat : k <= n => f[k] \subseteq T
  <2>. DEFINE S == {k \in Nat : k <= n => f[k] \subseteq T}
  <2>1. 0 \in S
    BY <1>3, <1>6
  <2>2. ASSUME NEW k \in Nat, k \in S PROVE k + 1 \in S
    <3>1. k + 1 <= n => k <= n
      OBVIOUS
    <3>. QED BY <1>4, <1>6, <2>2, <3>1 DEF Spread, Settled
  <2>. HIDE DEF S
  <2>3. \A k \in Nat : k \in S
    BY <2>1, <2>2, NumberSteps
  <2>. QED BY <2>3 DEF S
<1>7. IsFiniteSet(Places) /\ Cardinality(Places) = n
  <2>1. IsFiniteSet(1..n) /\ Cardinality(1..n) = IF 1 > n THEN 0 ELSE n - 1 + 1
    BY FS_Interval
  <2>2. Cardinality(1..n) = n
    BY <2>1
  <2>. HIDE DEF Places
  <2>. QED BY <1>1, <2>1, <2>2
<1>8. \A k \in Nat : k <= n => IsFiniteSet(f[k]) /\ Cardinality(f[k]) \in Nat /\ Cardinality(f[k]) <= n
  BY <1>5, <1>7, FS_Subset, FS_CardinalityType
<1>9. \A k \in Nat : k <= n => Cardinality(f[k]) > k \/ Settled(f[k], next)
  <2>. DEFINE S == {k \in Nat : k <= n => Cardinality(f[k]) > k \/ Settled(f[k], next)}
  <2>1. 0 \in S
    <3>1. Cardinality(f[0]) = 1
      BY <1>3, FS_Singleton
    <3>. QED BY <3>1
  <2>2. ASSUME NEW k \in Nat, k \in S PROVE k + 1 \in S
    <3>1. SUFFICES ASSUME k + 1 <= n PROVE Cardinality(f[k + 1]) > k + 1 \/ Settled(f[k + 1], next)
      OBVIOUS
    <3>2. k <= n /\ f[k + 1] = Spread(f[k], next) /\ k + 1 \in Nat
      BY <1>4, <3>1
    <3>3. CASE Settled(f[k], next)
      <4>1. f[k + 1] = f[k]
        BY <3>2, <3>3 DEF Spread, Settled
      <4>. QED BY <3>3, <4>1
    <3>4. CASE ~Settled(f[k], next) /\ Cardinality(f[k]) > k
      <4>1. f[k] \subseteq f[k + 1] /\ f[k] # f[k + 1]
        BY <3>2, <3>4 DEF Spread, Settled
      <4>2. PICK m \in Nat : m = Cardinality(f[k]) /\ m > k
        BY <1>8, <3>2, <3>4
      <4>3. PICK p \in Nat : p = Cardinality(f[k + 1])
        BY <1>8, <3>1, <3>2
      <4>4. IsFiniteSet(f[k + 1]) /\ f[k] \in SUBSET f[k + 1]
        BY <1>8, <3>1, <3>2, <4>1
      <4>5. m <= p /\ m # p
        BY <4>1, <4>2, <4>3, <4>4, FS_Subset
      <4>. QED BY <4>2, <4>3, <4>5
    <3>. QED BY <2>2, <3>2, <3>3, <3>4
  <2>. HIDE DEF S
  <2>3. \A k \in Nat : k \in S
    BY <2>1, <2>2, NumberSteps
  <2>. QED BY <2>3 DEF S
<1>10. Settled(f[n], next)
  <2>1. PICK c \in Nat : c = Cardinality(f[n]) /\ c <= n
    BY <1>8
  <2>. QED BY <1>9, <2>1
<1>. QED BY <1>2, <1>5, <1>6, <1>10

Linked(A, x, y) == \E a \in A : a.from = x /\ a.to = y

\* Of any places some have a first one: there is no cycle.
NoCycle(A, P) == \A S \in SUBSET P : S # {} => \E x \in S : \A y \in S : ~Linked(A, y, x)

(***************************************************************************)
(* A graph with nodes sl, edges A, dependencies dp and index ix: the index *)
(* and the places are inverse to each other, a node's dependencies are     *)
(* where its edges come from, and no edges form a cycle.                   *)
(***************************************************************************)
Indexed(sl, ix) ==
  /\ DOMAIN ix = {sl[i] : i \in DOMAIN sl}
  /\ \A n \in DOMAIN ix : ix[n] \in DOMAIN sl /\ sl[ix[n]] = n
  /\ \A i \in DOMAIN sl : ix[sl[i]] = i

GraphKept(sl, A, dp, ix) ==
  /\ sl \in Seq(NodeIds) /\ dp \in Seq(SUBSET NodeIds) /\ Len(dp) = Len(sl)
  /\ A \subseteq [from : DOMAIN sl, to : DOMAIN sl, cond : Conds]
  /\ Indexed(sl, ix)
  /\ \A i \in DOMAIN sl : dp[i] = {sl[j] : j \in {k \in DOMAIN sl : Linked(A, k, i)}}
  /\ NoCycle(A, DOMAIN sl)

GraphInv == GraphKept(slots, arcs, deps, indexMap)

LEMMA Arrows ==
  ASSUME GraphInv
  PROVE  /\ slots \in Seq(NodeIds) /\ Forward \in [Places -> SUBSET Places] /\ Neighbors \in [Places -> SUBSET Places]
         /\ \A i, j \in Places : /\ j \in Forward[i] <=> Linked(arcs, i, j)
                                 /\ j \in Neighbors[i] <=> Linked(arcs, i, j) \/ Linked(arcs, j, i)
         /\ \A i \in Places : /\ Successors(i) = {j \in Places : Linked(arcs, i, j)}
                              /\ Predecessors(i) = {j \in Places : Linked(arcs, j, i)}
<1>1. slots \in Seq(NodeIds) /\ arcs \subseteq [from : Places, to : Places, cond : Conds]
  BY DEF GraphInv, GraphKept, Places
<1>2. \A a \in arcs : a.from \in Places /\ a.to \in Places
  BY <1>1
<1>3. ASSUME NEW i \in Places
      PROVE  /\ Successors(i) = {j \in Places : Linked(arcs, i, j)}
             /\ Predecessors(i) = {j \in Places : Linked(arcs, j, i)}
  BY <1>2 DEF Successors, Predecessors, Into, OutOf, Linked
<1>. QED BY <1>1, <1>3 DEF Forward, Neighbors

\* A search from the end of an edge does not come back to its source.
LEMMA NoWayBack ==
  ASSUME GraphInv, NEW i \in Places, NEW j \in Places, Linked(arcs, i, j)
  PROVE  i \notin Reach(j, Forward)
<1>. DEFINE R(x) == Reach(x, Forward)
<1>1. /\ slots \in Seq(NodeIds) /\ Forward \in [Places -> SUBSET Places]
      /\ \A x, y \in Places : y \in Forward[x] <=> Linked(arcs, x, y)
  BY Arrows
<1>2. \A x \in Places : /\ x \in R(x) /\ R(x) \subseteq Places /\ Settled(R(x), Forward)
                        /\ \A T : x \in T /\ Settled(T, Forward) => R(x) \subseteq T
  BY <1>1, ReachLeast
<1>. HIDE DEF R
<1>3. SUFFICES ASSUME i \in R(j) PROVE FALSE
  BY DEF R
<1>. DEFINE S == {x \in R(j) : i \in R(x)}
<1>4. S \in SUBSET Places /\ j \in S /\ i \in S
  BY <1>2, <1>3
<1>5. ASSUME NEW x \in S PROVE \E y \in S : Linked(arcs, y, x)
  <2>1. CASE x = j
    BY <1>4, <2>1
  <2>2. CASE x # j
    <3>. DEFINE T == R(j) \ {x}
    <3>1. ~(R(j) \subseteq T) /\ j \in T
      BY <1>2, <1>5, <2>2
    <3>2. PICK y \in T : ~(Forward[y] \subseteq T)
      BY <1>2, <3>1 DEF Settled
    <3>3. y \in R(j) /\ y \in Places /\ x \in Places /\ x \in Forward[y]
      BY <1>2, <1>4, <1>5, <3>2 DEF Settled
    <3>4. R(x) \subseteq R(y)
      <4>1. x \in R(y)
        BY <1>2, <3>3 DEF Settled
      <4>. QED BY <1>2, <3>3, <4>1
    <3>. QED BY <1>1, <1>5, <3>3, <3>4
  <2>. QED BY <2>1, <2>2
<1>6. NoCycle(arcs, Places)
  BY DEF GraphInv, GraphKept, Places
<1>. HIDE DEF S
<1>. QED BY <1>4, <1>5, <1>6 DEF NoCycle

LEMMA GraphInvFaithful == GraphInv => IndexFaithful
<1>. SUFFICES ASSUME GraphInv PROVE IndexFaithful
  OBVIOUS
<1>1. /\ DOMAIN indexMap = Range(slots)
      /\ \A n \in DOMAIN indexMap : indexMap[n] \in Places /\ slots[indexMap[n]] = n
  BY DEF GraphInv, GraphKept, Indexed, Places, Range
<1>2. ASSUME NEW i \in Places
      PROVE  /\ deps[i] = {slots[j] : j \in Predecessors(i)}
             /\ \A j \in Successors(i) : i \notin Reach(j, Forward)
  <2>1. Predecessors(i) = {k \in Places : Linked(arcs, k, i)} /\ Successors(i) = {j \in Places : Linked(arcs, i, j)}
    BY Arrows
  <2>2. deps[i] = {slots[j] : j \in {k \in Places : Linked(arcs, k, i)}}
    BY DEF GraphInv, GraphKept, Places
  <2>. QED BY <2>1, <2>2, NoWayBack
<1>. QED BY <1>1, <1>2 DEF IndexFaithful

LEMMA AddNodeKeeps == ASSUME GraphInv, NEW n \in NodeIds, AddNode(n) PROVE GraphInv'
<1>1. PICK m \in Nat : m = Len(slots) /\ DOMAIN slots = 1..m
  BY DEF GraphInv, GraphKept
<1>. DEFINE sl == Append(slots, n)
            dp == Append(deps, {})
            ix == Put(indexMap, n, m + 1)
<1>2. /\ slots \in Seq(NodeIds) /\ deps \in Seq(SUBSET NodeIds) /\ Len(deps) = m
      /\ arcs \subseteq [from : 1..m, to : 1..m, cond : Conds]
      /\ DOMAIN indexMap = {slots[i] : i \in 1..m} /\ n \notin DOMAIN indexMap
      /\ \A x \in DOMAIN indexMap : indexMap[x] \in 1..m /\ slots[indexMap[x]] = x
      /\ \A i \in 1..m : indexMap[slots[i]] = i
      /\ \A i \in 1..m : deps[i] = {slots[j] : j \in {k \in 1..m : Linked(arcs, k, i)}}
      /\ NoCycle(arcs, 1..m)
  <2>1. GraphKept(slots, arcs, deps, indexMap) /\ n \notin DOMAIN indexMap
    BY DEF GraphInv, AddNode
  <2>. QED BY <1>1, <2>1 DEF GraphKept, Indexed
<1>3. slots' = sl /\ deps' = dp /\ indexMap' = ix /\ arcs' = arcs
  BY <1>1 DEF AddNode
<1>4. /\ sl \in Seq(NodeIds) /\ DOMAIN sl = 1..(m + 1) /\ Len(sl) = m + 1 /\ sl[m + 1] = n
      /\ \A i \in 1..m : sl[i] = slots[i]
  BY <1>1, <1>2
<1>5. /\ dp \in Seq(SUBSET NodeIds) /\ Len(dp) = m + 1 /\ dp[m + 1] = {} /\ \A i \in 1..m : dp[i] = deps[i]
  BY <1>2
<1>6. /\ DOMAIN ix = DOMAIN indexMap \cup {n} /\ ix[n] = m + 1 /\ \A x \in DOMAIN indexMap : ix[x] = indexMap[x]
  BY <1>2 DEF Put
<1>. HIDE DEF sl, dp, ix
<1>7. /\ \A i \in 1..m : i \in 1..(m + 1) /\ i # m + 1 
      /\ m + 1 \in 1..(m + 1) /\ \A i \in 1..(m + 1) : i \in 1..m \/ i = m + 1
  OBVIOUS
<1>8. \A x, y : Linked(arcs, x, y) => x \in 1..m /\ y \in 1..m
  BY <1>2 DEF Linked
<1>9. arcs \subseteq [from : 1..(m + 1), to : 1..(m + 1), cond : Conds]
  BY <1>2, <1>7
<1>10. Indexed(sl, ix)
  <2>1. DOMAIN ix = {sl[i] : i \in 1..(m + 1)}
    <3>1. {sl[i] : i \in 1..(m + 1)} = {sl[i] : i \in 1..m} \cup {sl[m + 1]}
      BY <1>7
    <3>2. {sl[i] : i \in 1..m} = {slots[i] : i \in 1..m}
      BY <1>4
    <3>. QED BY <1>2, <1>4, <1>6, <3>1, <3>2
  <2>2. ASSUME NEW x \in DOMAIN ix PROVE ix[x] \in 1..(m + 1) /\ sl[ix[x]] = x
    <3>1. CASE x = n
      BY <1>4, <1>6, <1>7, <3>1
    <3>2. CASE x \in DOMAIN indexMap
      <4>1. ix[x] = indexMap[x] /\ indexMap[x] \in 1..m
        BY <1>2, <1>6, <3>2
      <4>. QED BY <1>2, <1>4, <1>7, <3>2, <4>1
    <3>. QED BY <1>6, <2>2, <3>1, <3>2
  <2>3. ASSUME NEW i \in 1..(m + 1) PROVE ix[sl[i]] = i
    BY <1>2, <1>4, <1>6, <1>7, <2>3
  <2>. QED BY <1>4, <2>1, <2>2, <2>3 DEF Indexed
<1>11. ASSUME NEW i \in 1..(m + 1)
       PROVE  dp[i] = {sl[j] : j \in {k \in 1..(m + 1) : Linked(arcs, k, i)}}
  <2>1. {k \in 1..(m + 1) : Linked(arcs, k, i)} = {k \in 1..m : Linked(arcs, k, i)}
    BY <1>7, <1>8
  <2>2. CASE i = m + 1
    <3>1. {k \in 1..m : Linked(arcs, k, i)} = {}
      BY <1>7, <1>8, <2>2
    <3>. QED BY <1>5, <2>1, <2>2, <3>1
  <2>3. CASE i \in 1..m
    <3>. DEFINE X == {k \in 1..m : Linked(arcs, k, i)}
    <3>1. X \subseteq 1..m /\ dp[i] = {slots[j] : j \in X} /\ {k \in 1..(m + 1) : Linked(arcs, k, i)} = X
      BY <1>2, <1>5, <2>1, <2>3
    <3>. HIDE DEF X
    <3>2. {slots[j] : j \in X} = {sl[j] : j \in X}
      BY <1>4, <3>1
    <3>. QED BY <3>1, <3>2
  <2>. QED BY <1>7, <2>2, <2>3
<1>12. NoCycle(arcs, 1..(m + 1))
  <2>. SUFFICES ASSUME NEW S \in SUBSET (1..(m + 1)), S # {} PROVE \E x \in S : \A y \in S : ~Linked(arcs, y, x)
    BY DEF NoCycle
  <2>1. CASE m + 1 \in S
    BY <1>7, <1>8, <2>1
  <2>2. CASE m + 1 \notin S
    <3>1. S \in SUBSET (1..m)
      BY <1>7, <2>2
    <3>. QED BY <1>2, <3>1 DEF NoCycle
  <2>. QED BY <2>1, <2>2
<1>13. GraphKept(sl, arcs, dp, ix)
  BY <1>4, <1>5, <1>9, <1>10, <1>11, <1>12 DEF GraphKept
<1>. QED BY <1>3, <1>13 DEF GraphInv

LEMMA AddEdgeKeeps ==
  ASSUME GraphInv, NEW m \in NodeIds, NEW n \in NodeIds, NEW c \in Conds, AddEdge(m, n, c)
  PROVE  GraphInv'
<1>. DEFINE i == indexMap[m]
            j == indexMap[n]
            e == [from |-> i, to |-> j, cond |-> c]
            A == arcs \cup {e}
            dp == [deps EXCEPT ![j] = @ \cup {slots[i]}]
            R == Reach(j, Forward)
<1>1. /\ slots \in Seq(NodeIds) /\ deps \in Seq(SUBSET NodeIds) /\ Len(deps) = Len(slots)
      /\ arcs \subseteq [from : Places, to : Places, cond : Conds] /\ Indexed(slots, indexMap)
      /\ \A k \in Places : deps[k] = {slots[p] : p \in {q \in Places : Linked(arcs, q, k)}}
      /\ NoCycle(arcs, Places) /\ DOMAIN deps = Places
  BY DEF GraphInv, GraphKept, Places
<1>2. /\ i \in Places /\ j \in Places /\ i \notin R
      /\ slots' = slots /\ indexMap' = indexMap /\ arcs' = A /\ deps' = dp
  BY <1>1 DEF AddEdge, Indexed, Places
<1>3. /\ j \in R /\ Settled(R, Forward) /\ \A x, y \in Places : y \in Forward[x] <=> Linked(arcs, x, y)
  BY <1>2, Arrows, ReachLeast
<1>. HIDE DEF R, i, j
<1>4. \A x, y : Linked(A, x, y) <=> Linked(arcs, x, y) \/ (x = i /\ y = j)
  <2>1. e.from = i /\ e.to = j
    OBVIOUS
  <2>2. \A a : a \in A <=> a \in arcs \/ a = e
    OBVIOUS
  <2>. HIDE DEF e, A
  <2>. QED BY <2>1, <2>2 DEF Linked
<1>5. slots[i] \in NodeIds
  BY <1>1, <1>2 DEF Places
<1>6. /\ dp \in Seq(SUBSET NodeIds) /\ Len(dp) = Len(slots) /\ dp[j] = deps[j] \cup {slots[i]}
      /\ \A k \in Places : k # j => dp[k] = deps[k]
  BY <1>1, <1>2, <1>5
<1>7. A \subseteq [from : Places, to : Places, cond : Conds]
  BY <1>1, <1>2
<1>. HIDE DEF A, dp
<1>8. \A k \in Places : dp[k] = {slots[p] : p \in {q \in Places : Linked(A, q, k)}}
  BY <1>1, <1>2, <1>4, <1>6
<1>9. NoCycle(A, Places)
  <2>. SUFFICES ASSUME NEW S \in SUBSET Places, S # {} PROVE \E x \in S : \A y \in S : ~Linked(A, y, x)
    BY DEF NoCycle
  <2>1. CASE i \in S
    <3>1. PICK x \in S \ R : \A y \in S \ R : ~Linked(arcs, y, x)
      BY <1>1, <1>2, <2>1 DEF NoCycle
    <3>2. ASSUME NEW y \in S \cap R PROVE ~Linked(arcs, y, x)
      BY <1>3, <3>1, <3>2 DEF Settled
    <3>. QED BY <1>3, <1>4, <3>1, <3>2
  <2>2. CASE i \notin S
    BY <1>1, <1>4, <2>2 DEF NoCycle
  <2>. QED BY <2>1, <2>2
<1>10. GraphKept(slots, A, dp, indexMap)
  BY <1>1, <1>6, <1>7, <1>8, <1>9 DEF GraphKept, Places
<1>. QED BY <1>2, <1>10 DEF GraphInv

(***************************************************************************)
(* A part of the graph, with place g[k] of the old one now at place k and  *)
(* the edges and dependencies among what is left, is a graph again.        *)
(***************************************************************************)
LEMMA PartKept ==
  ASSUME GraphInv, NEW m \in Nat, NEW g \in [1..m -> Places], \A h, k \in 1..m : g[h] = g[k] => h = k,
         NEW sl \in Seq(NodeIds), Len(sl) = m, \A k \in 1..m : sl[k] = slots[g[k]],
         NEW A, A \subseteq [from : 1..m, to : 1..m, cond : Conds],
         \A h, k \in 1..m : Linked(A, h, k) <=> Linked(arcs, g[h], g[k]),
         NEW dp \in Seq(SUBSET NodeIds), Len(dp) = m,
         \A k \in 1..m : \A x : x \in dp[k] <=> \E h \in 1..m : Linked(arcs, g[h], g[k]) /\ x = slots[g[h]],
         NEW ix, Indexed(sl, ix)
  PROVE  GraphKept(sl, A, dp, ix)
<1>1. DOMAIN sl = 1..m
  OBVIOUS
<1>2. ASSUME NEW k \in 1..m PROVE dp[k] = {sl[j] : j \in {h \in 1..m : Linked(A, h, k)}}
  OBVIOUS
<1>3. NoCycle(A, 1..m)
  <2>. SUFFICES ASSUME NEW S \in SUBSET (1..m), S # {} PROVE \E x \in S : \A y \in S : ~Linked(A, y, x)
    BY DEF NoCycle
  <2>. DEFINE T == {g[k] : k \in S}
  <2>0. NoCycle(arcs, Places)
    BY DEF GraphInv, GraphKept, Places
  <2>1. T \in SUBSET Places /\ T # {}
    OBVIOUS
  <2>2. PICK y \in T : \A z \in T : ~Linked(arcs, z, y)
    BY <2>0, <2>1 DEF NoCycle
  <2>3. PICK x \in S : y = g[x]
    BY <2>2
  <2>4. \A z \in S : ~Linked(arcs, g[z], g[x])
    BY <2>2, <2>3
  <2>. QED BY <2>3, <2>4
<1>. QED BY <1>1, <1>2, <1>3 DEF GraphKept

LEMMA Vacating ==
  ASSUME NEW V, NEW f \in Seq(V), NEW last \in Nat, last = Len(f), NEW i \in 1..last
  PROVE  /\ Vacated(f, i) \in Seq(V) /\ Len(Vacated(f, i)) = last - 1
         /\ \A k \in 1..(last - 1) : (k = i => Vacated(f, i)[k] = f[last]) /\ (k # i => Vacated(f, i)[k] = f[k])
<1>. DEFINE e == IF i = last THEN f ELSE [f EXCEPT ![i] = f[last]]
<1>1. f[last] \in V /\ last \in 1..last
  OBVIOUS
<1>2. e \in Seq(V) /\ Len(e) = last /\ \A k \in 1..(last - 1) : e[k] = IF k = i THEN f[last] ELSE f[k]
  BY <1>1
<1>3. Vacated(f, i) = SubSeq(e, 1, last - 1)
  BY DEF Vacated
<1>. HIDE DEF e
<1>4. PICK r \in Nat : r = last - 1
  BY <1>1
<1>5. SubSeq(e, 1, r) \in Seq(V) /\ Len(SubSeq(e, 1, r)) = r /\ \A k \in 1..r : SubSeq(e, 1, r)[k] = e[k]
  BY <1>2, <1>4
<1>. QED BY <1>2, <1>3, <1>4, <1>5

LEMMA Redirected ==
  ASSUME NEW P, NEW a \in [from : P, to : P, cond : Conds], NEW x, NEW y
  PROVE  LET e == [a EXCEPT !.from = x, !.to = y]
         IN /\ e.from = x /\ e.to = y
            /\ \A Q : x \in Q /\ y \in Q => e \in [from : Q, to : Q, cond : Conds]
  OBVIOUS

LEMMA RemoveNodeKeeps == ASSUME GraphInv, NEW n \in NodeIds, RemoveNode(n) PROVE GraphInv'
<1>. DEFINE i == indexMap[n]
            cleaned == [j \in Places |-> IF j \in Successors(i) THEN deps[j] \ {n} ELSE deps[j]]
            sl == Vacated(slots, i)
            dp == Vacated(cleaned, i)
            Re(a) == [a EXCEPT !.from = Moved(@, i), !.to = Moved(@, i)]
            left == arcs \ (Into(i) \cup OutOf(i))
            A == {Re(a) : a \in left}
            ix == Reindexed(Drop(indexMap, n), i)
<1>1. slots' = sl /\ deps' = dp /\ arcs' = A /\ indexMap' = ix /\ n \in DOMAIN indexMap
  BY DEF RemoveNode
<1>2. PICK last \in Nat : last = Len(slots) /\ Places = 1..last /\ DOMAIN slots = 1..last
  BY DEF GraphInv, GraphKept, Places
<1>3. /\ slots \in Seq(NodeIds) /\ deps \in Seq(SUBSET NodeIds) /\ DOMAIN deps = 1..last
      /\ arcs \subseteq [from : 1..last, to : 1..last, cond : Conds]
      /\ DOMAIN indexMap = {slots[j] : j \in 1..last}
      /\ \A x \in DOMAIN indexMap : indexMap[x] \in 1..last /\ slots[indexMap[x]] = x
      /\ \A j \in 1..last : indexMap[slots[j]] = j
      /\ \A j \in 1..last : deps[j] = {slots[k] : k \in {p \in 1..last : Linked(arcs, p, j)}}
  <2>1. GraphKept(slots, arcs, deps, indexMap)
    BY DEF GraphInv
  <2>. QED BY <1>2, <2>1 DEF GraphKept, Indexed
<1>4. i \in 1..last /\ slots[i] = n
  BY <1>1, <1>3
<1>5. PICK m \in Nat : m = last - 1 /\ last = m + 1
  BY <1>4
<1>6. \A j \in 1..last : Successors(i) = {k \in 1..last : Linked(arcs, i, k)}
  BY <1>2, <1>4, Arrows
<1>7. cleaned \in Seq(SUBSET NodeIds) /\ Len(cleaned) = last /\ DOMAIN cleaned = 1..last
  <2>1. cleaned \in [1..last -> SUBSET NodeIds]
    BY <1>2, <1>3
  <2>. HIDE DEF cleaned
  <2>. QED BY <2>1
<1>. DEFINE g == [k \in 1..m |-> IF k = i THEN last ELSE k]
<1>8. /\ g \in [1..m -> Places] /\ \A h, k \in 1..m : g[h] = g[k] => h = k
      /\ \A k \in 1..m : g[k] # i
      /\ \A j \in 1..last : j # i => \E k \in 1..m : g[k] = j
  BY <1>2, <1>4, <1>5
<1>9. /\ sl \in Seq(NodeIds) /\ Len(sl) = m /\ \A k \in 1..m : sl[k] = slots[g[k]]
  <2>. HIDE DEF i
  <2>1. /\ sl \in Seq(NodeIds) /\ Len(sl) = last - 1
        /\ \A k \in 1..(last - 1) : (k = i => sl[k] = slots[last]) /\ (k # i => sl[k] = slots[k])
    <3>1. slots \in Seq(NodeIds) /\ last = Len(slots) /\ i \in 1..last
      BY <1>2, <1>3, <1>4
    <3>. QED BY <3>1, Vacating
  <2>. HIDE DEF sl
  <2>. QED BY <1>5, <2>1
<1>10. /\ dp \in Seq(SUBSET NodeIds) /\ Len(dp) = m /\ \A k \in 1..m : dp[k] = cleaned[g[k]]
  <2>. HIDE DEF cleaned, i
  <2>1. /\ dp \in Seq(SUBSET NodeIds) /\ Len(dp) = last - 1
        /\ \A k \in 1..(last - 1) : (k = i => dp[k] = cleaned[last]) /\ (k # i => dp[k] = cleaned[k])
    <3>. DEFINE V == SUBSET NodeIds
    <3>1. cleaned \in Seq(V) /\ last = Len(cleaned) /\ i \in 1..last
      BY <1>4, <1>7
    <3>. HIDE DEF V
    <3>2. /\ dp \in Seq(V) /\ Len(dp) = last - 1
          /\ \A k \in 1..(last - 1) : (k = i => dp[k] = cleaned[last]) /\ (k # i => dp[k] = cleaned[k])
      BY <3>1, Vacating
    <3>. QED BY <3>2 DEF V
  <2>. HIDE DEF dp
  <2>. QED BY <1>5, <2>1
<1>11. \A j \in 1..last : \A x : x \in cleaned[j] <=> \E k \in 1..last : Linked(arcs, k, j) /\ k # i /\ x = slots[k]
  BY <1>2, <1>3, <1>4, <1>6
<1>. HIDE DEF sl, dp, cleaned, g
<1>12. ASSUME NEW k \in 1..m, NEW x
       PROVE  x \in dp[k] <=> \E h \in 1..m : Linked(arcs, g[h], g[k]) /\ x = slots[g[h]]
  <2>1. g[k] \in 1..last /\ (x \in dp[k] <=> x \in cleaned[g[k]])
    BY <1>2, <1>8, <1>10
  <2>2. x \in dp[k] <=> \E j \in 1..last : Linked(arcs, j, g[k]) /\ j # i /\ x = slots[j]
    BY <1>11, <2>1
  <2>. QED BY <1>2, <1>8, <2>2
<1>13. \A a \in left : a \in arcs /\ a.from \in 1..last /\ a.to \in 1..last /\ a.cond \in Conds /\ a.from # i /\ a.to # i
  BY <1>3 DEF Into, OutOf
<1>14. \A a \in arcs : a.from # i /\ a.to # i => a \in left
  BY DEF Into, OutOf
<1>15. ASSUME NEW a \in left
       PROVE  /\ Re(a).from = Moved(a.from, i) /\ Re(a).to = Moved(a.to, i)
              /\ \A Q : Moved(a.from, i) \in Q /\ Moved(a.to, i) \in Q => Re(a) \in [from : Q, to : Q, cond : Conds]
  <2>1. a \in [from : 1..last, to : 1..last, cond : Conds]
    BY <1>3, <1>13
  <2>. QED BY <2>1, Redirected
<1>16. \A j \in 1..last : j # i => Moved(j, i) \in 1..m /\ g[Moved(j, i)] = j
  BY <1>2, <1>4, <1>5 DEF Moved, g
<1>17. \A k \in 1..m : Moved(g[k], i) = k
  BY <1>2, <1>4, <1>5 DEF Moved, g
<1>. HIDE DEF Re, left
<1>18. A \subseteq [from : 1..m, to : 1..m, cond : Conds]
  BY <1>13, <1>15, <1>16
<1>19. ASSUME NEW h \in 1..m, NEW k \in 1..m PROVE Linked(A, h, k) <=> Linked(arcs, g[h], g[k])
  <2>1. ASSUME Linked(A, h, k) PROVE Linked(arcs, g[h], g[k])
    <3>1. PICK a \in left : Re(a).from = h /\ Re(a).to = k
      BY <2>1 DEF Linked
    <3>2. Moved(a.from, i) = h /\ Moved(a.to, i) = k
      BY <1>15, <3>1
    <3>3. a \in arcs /\ a.from = g[h] /\ a.to = g[k]
      BY <1>13, <1>16, <3>2
    <3>. QED BY <3>3 DEF Linked
  <2>2. ASSUME Linked(arcs, g[h], g[k]) PROVE Linked(A, h, k)
    <3>1. PICK a \in arcs : a.from = g[h] /\ a.to = g[k]
      BY <2>2 DEF Linked
    <3>2. a \in left
      BY <1>8, <1>14, <3>1
    <3>3. Re(a).from = h /\ Re(a).to = k /\ Re(a) \in A
      BY <1>15, <1>17, <3>1, <3>2
    <3>. QED BY <3>3 DEF Linked
  <2>. QED BY <2>1, <2>2
<1>20. Indexed(sl, ix)
  <2>1. /\ DOMAIN ix = {slots[j] : j \in {k \in 1..last : k # i}}
        /\ \A j \in 1..last : j # i => ix[slots[j]] = Moved(j, i)
    <3>. DEFINE d == Drop(indexMap, n)
    <3>1. /\ DOMAIN d = {slots[j] : j \in {k \in 1..last : k # i}}
          /\ \A j \in 1..last : j # i => slots[j] \in DOMAIN d /\ d[slots[j]] = j
      BY <1>3, <1>4 DEF Drop
    <3>. HIDE DEF d
    <3>2. CASE i = last
      <4>1. ix = d
        BY <1>2, <3>2 DEF Reindexed, d
      <4>. QED BY <1>2, <3>1, <3>2, <4>1 DEF Moved
    <3>3. CASE i < last
      <4>1. ix = Put(d, slots[last], i)
        BY <1>2, <3>3 DEF Reindexed, d
      <4>2. slots[last] \in DOMAIN d /\ last \in 1..last
        BY <1>4, <3>1, <3>3
      <4>3. DOMAIN ix = DOMAIN d /\ ix[slots[last]] = i /\ \A x \in DOMAIN d : x # slots[last] => ix[x] = d[x]
        BY <4>1, <4>2 DEF Put
      <4>4. \A j \in 1..last : j # last => slots[j] # slots[last]
        BY <1>3, <4>2
      <4>. HIDE DEF ix
      <4>. QED BY <1>2, <3>1, <4>2, <4>3, <4>4 DEF Moved
    <3>. QED BY <1>4, <3>2, <3>3
  <2>. HIDE DEF ix
  <2>2. DOMAIN sl = 1..m
    BY <1>9
  <2>3. \A k \in 1..m : g[k] \in 1..last /\ g[k] # i
    BY <1>2, <1>8
  <2>4. ASSUME NEW k \in 1..m PROVE sl[k] \in DOMAIN ix /\ ix[sl[k]] = k
    BY <1>9, <1>17, <2>1, <2>3
  <2>5. ASSUME NEW x \in DOMAIN ix PROVE \E k \in 1..m : sl[k] = x /\ ix[x] = k
    BY <1>8, <1>9, <1>17, <2>1
  <2>. QED BY <2>2, <2>4, <2>5 DEF Indexed
<1>. HIDE DEF ix, A, i
<1>21. GraphKept(sl, A, dp, ix)
  BY <1>8, <1>9, <1>10, <1>12, <1>18, <1>19, <1>20, PartKept
<1>. QED BY <1>1, <1>21 DEF GraphInv

\* A list of a finite set's members, each once, has all of them.
LEMMA OrderHasAll ==
  ASSUME NEW S, IsFiniteSet(S), NEW order \in SetToSeqs(S)
  PROVE  \E m \in Nat : /\ m = Cardinality(S) /\ order \in [1..m -> S]
                        /\ \A h, k \in 1..m : order[h] = order[k] => h = k
                        /\ \A x \in S : \E k \in 1..m : order[k] = x
<1>1. PICK m \in Nat : m = Cardinality(S)
  BY FS_CardinalityType
<1>2. order \in [1..m -> S] /\ \A h, k \in 1..m : h # k => order[h] # order[k]
  BY <1>1 DEF SetToSeqs
<1>3. Cardinality(1..m) = m
  <2>1. Cardinality(1..m) = IF 1 > m THEN 0 ELSE m - 1 + 1
    BY FS_Interval
  <2>. QED BY <2>1
<1>4. order \in Injection(1..m, S)
  BY <1>2 DEF Injection, IsInjective
<1>5. order \in Surjection(1..m, S)
  BY <1>1, <1>3, <1>4, FS_Injection
<1>. QED BY <1>1, <1>2, <1>5 DEF Surjection

LEMMA SubgraphKeeps == ASSUME GraphInv, NEW n \in NodeIds, Subgraph(n) PROVE GraphInv'
<1>. DEFINE i == indexMap[n]
            part == Component(i)
<1>1. PICK order \in SetToSeqs(part) : Rebuilt(part, order)
  BY DEF Subgraph
<1>2. PICK last \in Nat : last = Len(slots) /\ Places = 1..last
  BY DEF GraphInv, GraphKept, Places
<1>3. /\ slots \in Seq(NodeIds) /\ deps \in Seq(SUBSET NodeIds) /\ DOMAIN deps = Places
      /\ arcs \subseteq [from : Places, to : Places, cond : Conds]
      /\ DOMAIN indexMap = {slots[j] : j \in Places} /\ n \in DOMAIN indexMap
      /\ \A x \in DOMAIN indexMap : indexMap[x] \in Places
      /\ \A j \in Places : indexMap[slots[j]] = j
      /\ \A j \in Places : deps[j] = {slots[k] : k \in {p \in Places : Linked(arcs, p, j)}}
  <2>1. n \in DOMAIN indexMap
    BY DEF Subgraph
  <2>. QED BY <2>1 DEF GraphInv, GraphKept, Indexed, Places
<1>4. part \subseteq Places /\ \A j \in part, k \in Places : Linked(arcs, k, j) => k \in part
  <2>1. i \in Places
    BY <1>3
  <2>2. part \subseteq Places /\ Settled(part, Neighbors)
    BY <2>1, Arrows, ReachLeast DEF Component
  <2>. HIDE DEF part
  <2>. QED BY <2>2, Arrows DEF Settled
<1>. HIDE DEF part
<1>5. IsFiniteSet(part)
  <2>1. IsFiniteSet(1..last)
    BY FS_Interval
  <2>. HIDE DEF Places
  <2>. QED BY <1>2, <1>4, <2>1, FS_Subset
<1>6. PICK m \in Nat : /\ order \in [1..m -> part] /\ \A h, k \in 1..m : order[h] = order[k] => h = k
                       /\ \A x \in part : \E k \in 1..m : order[k] = x
  BY <1>1, <1>5, OrderHasAll
<1>. DEFINE place == [j \in part |-> CHOOSE k \in DOMAIN order : order[k] = j]
            left == {a \in arcs : {a.from, a.to} \subseteq part}
            Re(a) == [a EXCEPT !.from = place[@], !.to = place[@]]
            sl == [k \in 1..m |-> slots[order[k]]]
            dp == [k \in 1..m |-> deps[order[k]]]
            A == {Re(a) : a \in left}
            ix == [x \in {slots[j] : j \in part} |-> CHOOSE k \in DOMAIN order : slots[order[k]] = x]
<1>7. slots' = sl /\ deps' = dp /\ arcs' = A /\ indexMap' = ix
  BY <1>1, <1>6 DEF Rebuilt
<1>8. order \in [1..m -> Places]
  BY <1>4, <1>6
<1>9. /\ sl \in Seq(NodeIds) /\ Len(sl) = m /\ DOMAIN sl = 1..m /\ \A k \in 1..m : sl[k] = slots[order[k]]
  <2>1. sl \in [1..m -> NodeIds]
    BY <1>3, <1>8 DEF Places
  <2>. QED BY <2>1
<1>10. /\ dp \in Seq(SUBSET NodeIds) /\ Len(dp) = m /\ \A k \in 1..m : dp[k] = deps[order[k]]
  <2>1. dp \in [1..m -> SUBSET NodeIds]
    BY <1>3, <1>8 DEF Places
  <2>. QED BY <2>1
<1>11. ASSUME NEW j \in part PROVE place[j] \in 1..m /\ order[place[j]] = j
  BY <1>6
<1>12. \A k \in 1..m : place[order[k]] = k
  BY <1>6, <1>11
<1>13. ASSUME NEW x \in DOMAIN ix PROVE ix[x] \in 1..m /\ slots[order[ix[x]]] = x
  BY <1>6
<1>14. DOMAIN ix = {slots[j] : j \in part}
  OBVIOUS
<1>. HIDE DEF sl, dp, place, ix
<1>15. Indexed(sl, ix)
  <2>1. DOMAIN ix = {sl[k] : k \in 1..m}
    BY <1>6, <1>9, <1>14
  <2>2. ASSUME NEW k \in 1..m PROVE ix[sl[k]] = k
    <3>1. sl[k] \in DOMAIN ix /\ sl[k] = slots[order[k]]
      BY <1>9, <2>1
    <3>2. ix[sl[k]] \in 1..m /\ slots[order[ix[sl[k]]]] = slots[order[k]]
      BY <1>13, <3>1
    <3>3. order[ix[sl[k]]] = order[k]
      BY <1>3, <1>8, <3>2
    <3>. QED BY <1>6, <3>2, <3>3
  <2>. QED BY <1>9, <1>13, <2>1, <2>2 DEF Indexed
<1>16. ASSUME NEW k \in 1..m, NEW x
       PROVE  x \in dp[k] <=> \E h \in 1..m : Linked(arcs, order[h], order[k]) /\ x = slots[order[h]]
  <2>1. order[k] \in part /\ order[k] \in Places
    BY <1>6, <1>8
  <2>2. x \in dp[k] <=> \E j \in Places : Linked(arcs, j, order[k]) /\ x = slots[j]
    BY <1>3, <1>10, <2>1
  <2>. QED BY <1>4, <1>6, <1>8, <2>1, <2>2
<1>17. ASSUME NEW a \in left
       PROVE  /\ a \in arcs /\ a.from \in part /\ a.to \in part /\ a.cond \in Conds
              /\ Re(a).from = place[a.from] /\ Re(a).to = place[a.to]
              /\ \A Q : place[a.from] \in Q /\ place[a.to] \in Q => Re(a) \in [from : Q, to : Q, cond : Conds]
  <2>1. a \in [from : Places, to : Places, cond : Conds]
    BY <1>3
  <2>2. /\ Re(a).from = place[a.from] /\ Re(a).to = place[a.to]
        /\ \A Q : place[a.from] \in Q /\ place[a.to] \in Q => Re(a) \in [from : Q, to : Q, cond : Conds]
    BY <2>1, Redirected
  <2>. QED BY <2>1, <2>2
<1>18. \A a \in arcs : a.from \in part /\ a.to \in part => a \in left
  OBVIOUS
<1>. HIDE DEF Re, left
<1>19. A \subseteq [from : 1..m, to : 1..m, cond : Conds]
  BY <1>11, <1>17
<1>20. ASSUME NEW h \in 1..m, NEW k \in 1..m PROVE Linked(A, h, k) <=> Linked(arcs, order[h], order[k])
  <2>1. ASSUME Linked(A, h, k) PROVE Linked(arcs, order[h], order[k])
    <3>1. PICK a \in left : Re(a).from = h /\ Re(a).to = k
      BY <2>1 DEF Linked
    <3>2. place[a.from] = h /\ place[a.to] = k
      BY <1>17, <3>1
    <3>3. a \in arcs /\ a.from = order[h] /\ a.to = order[k]
      BY <1>11, <1>17, <3>2
    <3>. QED BY <3>3 DEF Linked
  <2>2. ASSUME Linked(arcs, order[h], order[k]) PROVE Linked(A, h, k)
    <3>1. PICK a \in arcs : a.from = order[h] /\ a.to = order[k]
      BY <2>2 DEF Linked
    <3>2. a \in left
      BY <1>6, <1>18, <3>1
    <3>3. Re(a).from = h /\ Re(a).to = k /\ Re(a) \in A
      BY <1>12, <1>17, <3>1, <3>2
    <3>. QED BY <3>3 DEF Linked
  <2>. QED BY <2>1, <2>2
<1>. HIDE DEF A
<1>21. GraphKept(sl, A, dp, ix)
  BY <1>6, <1>8, <1>9, <1>10, <1>15, <1>16, <1>19, <1>20, PartKept
<1>. QED BY <1>7, <1>21 DEF GraphInv

LEMMA GraphStarts == ASSUME DesignInit PROVE GraphInv
<1>1. slots = <<>> /\ arcs = {} /\ deps = <<>> /\ indexMap = EmptyMap
  BY DEF DesignInit
<1>2. <<>> \in Seq(NodeIds) /\ <<>> \in Seq(SUBSET NodeIds) /\ DOMAIN <<>> = {} /\ DOMAIN EmptyMap = {}
  BY DEF EmptyMap
<1>3. NoCycle({}, {}) /\ Indexed(<<>>, EmptyMap)
  BY <1>2 DEF NoCycle, Indexed
<1>. QED BY <1>1, <1>2, <1>3 DEF GraphInv, GraphKept

LEMMA GraphInvStep ==
  ASSUME GraphInv, [BuildNext \/ ShrinkNext \/ PlanNext \/ WalkNext]_designVars
  PROVE  GraphInv'
<1>1. CASE BuildNext
  BY <1>1, AddNodeKeeps, AddEdgeKeeps DEF BuildNext
<1>2. CASE ShrinkNext
  BY <1>2, RemoveNodeKeeps, SubgraphKeeps DEF ShrinkNext
<1>3. CASE PlanNext \/ WalkNext \/ UNCHANGED designVars
  <2>1. UNCHANGED <<slots, arcs, deps, indexMap>>
    BY <1>3 DEF PlanNext, WalkNext, CompleteNode, PlanBegins, PlanNextWave, WalkBegins, BreadthFirst, DepthFirst, designVars
  <2>. QED BY <2>1 DEF GraphInv
<1>. QED BY <1>1, <1>2, <1>3

-----------------------------------------------------------------------------
(* Walks *)

LEMMA DistinctJoin ==
  ASSUME NEW s \in Seq(Nat), NEW r \in Seq(Nat)
  PROVE  /\ s \o r \in Seq(Nat) /\ ToSet(s \o r) = ToSet(s) \cup ToSet(r)
         /\ Distinct(s) /\ Distinct(r) /\ ToSet(s) \cap ToSet(r) = {} => Distinct(s \o r)
<1>1. PICK m \in Nat, n \in Nat : m = Len(s) /\ n = Len(r) /\ DOMAIN s = 1..m /\ DOMAIN r = 1..n
  OBVIOUS
<1>. DEFINE q == s \o r
<1>2. /\ q \in Seq(Nat) /\ DOMAIN q = 1..(m + n)
      /\ \A i \in 1..m : q[i] = s[i]
      /\ \A i \in 1..(m + n) : i \notin 1..m => q[i] = r[i - m]
  BY <1>1
<1>3. \A i \in 1..n : q[m + i] = r[i] /\ m + i \in 1..(m + n)
  BY <1>1
<1>4. /\ \A i \in 1..m : i \in 1..(m + n)
      /\ \A i \in 1..(m + n) : i \notin 1..m => i - m \in 1..n
  OBVIOUS
<1>. HIDE DEF q
<1>5. ToSet(q) = ToSet(s) \cup ToSet(r)
  <2>1. ToSet(q) = {q[i] : i \in 1..(m + n)} /\ ToSet(s) = {s[i] : i \in 1..m} /\ ToSet(r) = {r[i] : i \in 1..n}
    BY <1>1, <1>2 DEF ToSet
  <2>2. ASSUME NEW x \in ToSet(q) PROVE x \in ToSet(s) \cup ToSet(r)
    BY <1>2, <1>4, <2>1
  <2>3. ToSet(s) \subseteq ToSet(q)
    BY <1>2, <1>4, <2>1
  <2>4. ToSet(r) \subseteq ToSet(q)
    BY <1>3, <2>1
  <2>. QED BY <2>2, <2>3, <2>4
<1>6. ASSUME Distinct(s), Distinct(r), ToSet(s) \cap ToSet(r) = {} PROVE Distinct(q)
  <2>1. \A i \in 1..m, j \in 1..n : s[i] # r[j]
    BY <1>1, <1>6 DEF ToSet
  <2>2. ASSUME NEW i \in 1..(m + n), NEW j \in 1..(m + n), q[i] = q[j] PROVE i = j
    <3>1. CASE i \in 1..m /\ j \in 1..m
      BY <1>1, <1>2, <1>6, <2>2, <3>1 DEF Distinct
    <3>2. CASE i \notin 1..m /\ j \notin 1..m
      <4>1. r[i - m] = r[j - m] /\ i - m \in 1..n /\ j - m \in 1..n
        BY <1>2, <1>4, <2>2, <3>2
      <4>2. i - m = j - m
        BY <1>1, <1>6, <4>1 DEF Distinct
      <4>. QED BY <4>2
    <3>3. CASE i \in 1..m /\ j \notin 1..m
      BY <1>2, <1>4, <2>1, <2>2, <3>3
    <3>4. CASE i \notin 1..m /\ j \in 1..m
      BY <1>2, <1>4, <2>1, <2>2, <3>4
    <3>. QED BY <3>1, <3>2, <3>3, <3>4
  <2>. QED BY <1>2, <2>2 DEF Distinct
<1>. QED BY <1>2, <1>5, <1>6 DEF q

LEMMA PoppedLast ==
  ASSUME NEW s \in Seq(Nat), s # <<>>
  PROVE  Front(s) \in Seq(Nat) /\ ToSet(s) = ToSet(Front(s)) \cup {Last(s)}
<1>1. PICK n \in Nat : n = Len(s) /\ n > 0 /\ DOMAIN s = 1..n
  OBVIOUS
<1>2. PICK m \in Nat : m = n - 1 /\ n = m + 1
  BY <1>1
<1>. DEFINE r == Front(s)
<1>3. r = SubSeq(s, 1, m) /\ Last(s) = s[n]
  BY <1>1, <1>2 DEF Front, Last
<1>4. r \in Seq(Nat) /\ DOMAIN r = 1..m /\ \A i \in 1..m : r[i] = s[i]
  BY <1>1, <1>2, <1>3
<1>5. (\A i \in 1..n : i \in 1..m \/ i = n) /\ n \in 1..n /\ \A i \in 1..m : i \in 1..n
  BY <1>1, <1>2
<1>. HIDE DEF r
<1>6. ToSet(s) = ToSet(r) \cup {s[n]}
  BY <1>1, <1>4, <1>5 DEF ToSet
<1>. QED BY <1>3, <1>4, <1>6 DEF r

\* A set of places that the edges A do not lead out of.
Shut(T, A, P) == \A x \in T, y \in P : Linked(A, x, y) => y \in T

(***************************************************************************)
(* A walk over edges A between places P: what it marked or has to visit is *)
(* in every set it cannot leave, what an edge leads to from a place it     *)
(* returned is marked or waits, and it returned no place twice.            *)
(***************************************************************************)
WalkKept(w, P, A) ==
  /\ w \in [kind : {"bfs", "dfs"}, roots : SUBSET P, todo : Seq(Nat), visited : SUBSET P, out : Seq(Nat)]
  /\ ToSet(w.todo) \subseteq P /\ Distinct(w.out)
  /\ w.roots \subseteq w.visited \cup ToSet(w.todo)
  /\ \A T \in SUBSET P : w.roots \subseteq T /\ Shut(T, A, P) => w.visited \cup ToSet(w.todo) \subseteq T
  /\ \A x \in ToSet(w.out), y \in P : Linked(A, x, y) => y \in w.visited \cup ToSet(w.todo)
  /\ w.kind = "bfs" => /\ w.visited = ToSet(w.out) \cup ToSet(w.todo)
                       /\ ToSet(w.out) \cap ToSet(w.todo) = {} /\ Distinct(w.todo)
  /\ w.kind = "dfs" => w.visited = ToSet(w.out)

WalkInv == walk # NoWalk => WalkKept(walk, Places, arcs)

\* The places in a list of a set of them.
LEMMA PlacesListed ==
  ASSUME GraphInv, NEW S \in SUBSET Places, NEW order \in SetToSeqs(S)
  PROVE  order \in Seq(Nat) /\ Distinct(order) /\ ToSet(order) = S
<1>1. PICK last \in Nat : Places = 1..last
  BY DEF GraphInv, GraphKept, Places
<1>2. S \subseteq Nat /\ IsFiniteSet(S)
  <2>1. IsFiniteSet(1..last) /\ 1..last \subseteq Nat
    BY FS_Interval
  <2>. HIDE DEF Places
  <2>. QED BY <1>1, <2>1, FS_Subset
<1>3. PICK m \in Nat : /\ order \in [1..m -> S] /\ \A h, k \in 1..m : order[h] = order[k] => h = k
                       /\ \A x \in S : \E k \in 1..m : order[k] = x
  BY <1>2, OrderHasAll
<1>4. order \in [1..m -> Nat] /\ DOMAIN order = 1..m
  BY <1>2, <1>3
<1>5. order \in Seq(Nat)
  BY <1>4
<1>6. Distinct(order)
  BY <1>3, <1>4 DEF Distinct
<1>7. ToSet(order) = {order[k] : k \in 1..m}
  BY <1>4 DEF ToSet
<1>8. {order[k] : k \in 1..m} = S
  BY <1>3
<1>. QED BY <1>5, <1>6, <1>7, <1>8

LEMMA WalkStarts ==
  ASSUME GraphInv, NEW kind \in {"bfs", "dfs"}, NEW roots \in SUBSET Places, WalkBegins(kind, roots)
  PROVE  WalkKept(walk', Places, arcs)
<1>1. PICK order \in SetToSeqs(roots) : walk' = Walks(kind, roots, order, IF kind = "bfs" THEN roots ELSE {})
  BY DEF WalkBegins
<1>2. order \in Seq(Nat) /\ Distinct(order) /\ ToSet(order) = roots
  BY <1>1, PlacesListed
<1>3. /\ walk'.kind = kind /\ walk'.roots = roots /\ walk'.todo = order /\ walk'.out = <<>>
      /\ walk'.visited = IF kind = "bfs" THEN roots ELSE {}
      /\ walk' \in [kind : {"bfs", "dfs"}, roots : SUBSET Places, todo : Seq(Nat), visited : SUBSET Places, out : Seq(Nat)]
  BY <1>1, <1>2 DEF Walks
<1>4. ToSet(<<>>) = {} /\ Distinct(<<>>)
  BY DEF ToSet, Distinct
<1>. QED BY <1>2, <1>3, <1>4 DEF WalkKept

LEMMA BreadthKeeps ==
  ASSUME GraphInv, WalkInv, BreadthFirst
  PROVE  WalkKept(walk', Places, arcs)
<1>. DEFINE i == Head(walk.todo)
            fresh == Successors(i) \ walk.visited
            w == walk
<1>1. w.kind = "bfs" /\ w.todo # <<>> /\ w # NoWalk
  BY DEF BreadthFirst, NoWalk
<1>2. WalkKept(w, Places, arcs)
  BY <1>1 DEF WalkInv
<1>3. /\ Tail(w.todo) \in Seq(Nat) /\ Distinct(Tail(w.todo)) /\ ToSet(Tail(w.todo)) = ToSet(w.todo) \ {i}
      /\ i \in ToSet(w.todo) /\ i \in Nat
  BY <1>1, <1>2, DistinctTail DEF WalkKept
<1>4. i \in Places
  BY <1>2, <1>3 DEF WalkKept
<1>. HIDE DEF i
<1>5. fresh \in SUBSET Places /\ \A y \in Places : Linked(arcs, i, y) => y \in fresh \/ y \in w.visited
  BY <1>4, Arrows
<1>6. \A y \in fresh : y \notin w.visited /\ Linked(arcs, i, y)
  BY <1>4, Arrows
<1>7. PICK order \in SetToSeqs(fresh) :
        w' = [w EXCEPT !.todo = Tail(w.todo) \o order, !.visited = w.visited \cup fresh, !.out = Append(w.out, i)]
  BY DEF BreadthFirst, i
<1>. HIDE DEF fresh
<1>8. order \in Seq(Nat) /\ Distinct(order) /\ ToSet(order) = fresh
  BY <1>5, <1>7, PlacesListed
<1>9. /\ w \in [kind : {"bfs", "dfs"}, roots : SUBSET Places, todo : Seq(Nat), visited : SUBSET Places, out : Seq(Nat)]
      /\ ToSet(w.todo) \subseteq Places /\ Distinct(w.out)
      /\ w.roots \subseteq w.visited \cup ToSet(w.todo)
      /\ \A T \in SUBSET Places : w.roots \subseteq T /\ Shut(T, arcs, Places) => w.visited \cup ToSet(w.todo) \subseteq T
      /\ \A x \in ToSet(w.out), y \in Places : Linked(arcs, x, y) => y \in w.visited \cup ToSet(w.todo)
      /\ w.visited = ToSet(w.out) \cup ToSet(w.todo) /\ ToSet(w.out) \cap ToSet(w.todo) = {}
  BY <1>1, <1>2 DEF WalkKept
<1>. DEFINE todo2 == Tail(w.todo) \o order
            out2 == Append(w.out, i)
<1>10. todo2 \in Seq(Nat) /\ ToSet(todo2) = (ToSet(w.todo) \ {i}) \cup fresh /\ Distinct(todo2)
  BY <1>3, <1>6, <1>8, <1>9, DistinctJoin
<1>11. out2 \in Seq(Nat) /\ Distinct(out2) /\ ToSet(out2) = ToSet(w.out) \cup {i}
  BY <1>3, <1>9, DistinctAppend
<1>. HIDE DEF todo2, out2
<1>12. /\ w'.kind = "bfs" /\ w'.roots = w.roots /\ w'.todo = todo2 /\ w'.out = out2
       /\ w'.visited = w.visited \cup fresh
       /\ w' \in [kind : {"bfs", "dfs"}, roots : SUBSET Places, todo : Seq(Nat), visited : SUBSET Places, out : Seq(Nat)]
  BY <1>1, <1>5, <1>7, <1>9, <1>10, <1>11 DEF todo2, out2
<1>13. w'.visited = ToSet(out2) \cup ToSet(todo2) /\ ToSet(out2) \cap ToSet(todo2) = {}
  BY <1>3, <1>6, <1>9, <1>10, <1>11, <1>12
<1>14. ASSUME NEW T \in SUBSET Places, w.roots \subseteq T, Shut(T, arcs, Places)
       PROVE  w'.visited \cup ToSet(todo2) \subseteq T
  <2>1. w.visited \cup ToSet(w.todo) \subseteq T
    BY <1>9, <1>14
  <2>2. fresh \subseteq T
    BY <1>3, <1>5, <1>6, <1>14, <2>1 DEF Shut
  <2>. QED BY <1>10, <1>12, <2>1, <2>2
<1>15. ASSUME NEW x \in ToSet(out2), NEW y \in Places, Linked(arcs, x, y) PROVE y \in w'.visited
  BY <1>5, <1>9, <1>11, <1>12, <1>15
<1>16. ToSet(todo2) \subseteq Places /\ w.roots \subseteq w'.visited
  BY <1>5, <1>9, <1>10, <1>12
<1>. HIDE DEF w
<1>. QED BY <1>10, <1>11, <1>12, <1>13, <1>14, <1>15, <1>16 DEF WalkKept, w

LEMMA DepthKeeps ==
  ASSUME GraphInv, WalkInv, DepthFirst
  PROVE  WalkKept(walk', Places, arcs)
<1>. DEFINE i == Last(walk.todo)
            fresh == Successors(i) \ (walk.visited \cup {i})
            w == walk
<1>1. w.kind = "dfs" /\ w.todo # <<>> /\ w # NoWalk
  <2>1. walk.kind = "dfs" /\ walk.todo # <<>>
    BY DEF DepthFirst
  <2>2. NoWalk.kind = "none"
    BY DEF NoWalk
  <2>. QED BY <2>1, <2>2
<1>2. WalkKept(w, Places, arcs)
  BY <1>1 DEF WalkInv
<1>3. /\ w \in [kind : {"bfs", "dfs"}, roots : SUBSET Places, todo : Seq(Nat), visited : SUBSET Places, out : Seq(Nat)]
      /\ ToSet(w.todo) \subseteq Places /\ Distinct(w.out)
      /\ w.roots \subseteq w.visited \cup ToSet(w.todo)
      /\ \A T \in SUBSET Places : w.roots \subseteq T /\ Shut(T, arcs, Places) => w.visited \cup ToSet(w.todo) \subseteq T
      /\ \A x \in ToSet(w.out), y \in Places : Linked(arcs, x, y) => y \in w.visited \cup ToSet(w.todo)
      /\ w.visited = ToSet(w.out)
  BY <1>1, <1>2 DEF WalkKept
<1>4. Front(w.todo) \in Seq(Nat) /\ ToSet(w.todo) = ToSet(Front(w.todo)) \cup {i}
  BY <1>1, <1>3, PoppedLast
<1>5. i \in Places /\ i \in Nat
  <2>1. Places \subseteq Nat
    BY DEF GraphInv, GraphKept, Places
  <2>. QED BY <1>3, <1>4, <2>1
<1>6. /\ i \in w.visited => w' = [w EXCEPT !.todo = Front(w.todo)]
      /\ i \notin w.visited => \E order \in SetToSeqs(fresh) :
           w' = [w EXCEPT !.todo = Front(w.todo) \o order, !.visited = w.visited \cup {i}, !.out = Append(w.out, i)]
  BY DEF DepthFirst, SeenBefore
<1>. HIDE DEF i
<1>7. CASE i \in w.visited
  <2>1. /\ w'.kind = "dfs" /\ w'.roots = w.roots /\ w'.todo = Front(w.todo) /\ w'.out = w.out /\ w'.visited = w.visited
        /\ w' \in [kind : {"bfs", "dfs"}, roots : SUBSET Places, todo : Seq(Nat), visited : SUBSET Places, out : Seq(Nat)]
    BY <1>1, <1>3, <1>4, <1>6, <1>7
  <2>2. w.visited \cup ToSet(Front(w.todo)) = w.visited \cup ToSet(w.todo)
    BY <1>4, <1>7
  <2>3. ToSet(Front(w.todo)) \subseteq Places
    BY <1>3, <1>4
  <2>. HIDE DEF w
  <2>. QED BY <1>3, <2>1, <2>2, <2>3 DEF WalkKept, w
<1>8. CASE i \notin w.visited
  <2>1. PICK order \in SetToSeqs(fresh) :
          w' = [w EXCEPT !.todo = Front(w.todo) \o order, !.visited = w.visited \cup {i}, !.out = Append(w.out, i)]
    BY <1>6, <1>8
  <2>2. /\ fresh \in SUBSET Places /\ \A y \in fresh : Linked(arcs, i, y)
        /\ \A y \in Places : Linked(arcs, i, y) => y \in fresh \cup w.visited \cup {i}
    BY <1>5, Arrows
  <2>. HIDE DEF fresh
  <2>3. order \in Seq(Nat) /\ ToSet(order) = fresh
    BY <2>1, <2>2, PlacesListed
  <2>. DEFINE todo2 == Front(w.todo) \o order
              out2 == Append(w.out, i)
  <2>4. todo2 \in Seq(Nat) /\ ToSet(todo2) = ToSet(Front(w.todo)) \cup fresh
    BY <1>4, <2>3, DistinctJoin
  <2>5. out2 \in Seq(Nat) /\ Distinct(out2) /\ ToSet(out2) = ToSet(w.out) \cup {i}
    BY <1>3, <1>5, <1>8, DistinctAppend
  <2>. HIDE DEF todo2, out2
  <2>6. /\ w'.kind = "dfs" /\ w'.roots = w.roots /\ w'.todo = todo2 /\ w'.out = out2 /\ w'.visited = w.visited \cup {i}
        /\ w' \in [kind : {"bfs", "dfs"}, roots : SUBSET Places, todo : Seq(Nat), visited : SUBSET Places, out : Seq(Nat)]
    BY <1>1, <1>3, <1>5, <2>1, <2>4, <2>5 DEF todo2, out2
  <2>7. w'.visited \cup ToSet(todo2) = w.visited \cup ToSet(w.todo) \cup fresh
    BY <1>4, <2>4, <2>6
  <2>8. ASSUME NEW T \in SUBSET Places, w.roots \subseteq T, Shut(T, arcs, Places)
        PROVE  w'.visited \cup ToSet(todo2) \subseteq T
    <3>1. w.visited \cup ToSet(w.todo) \subseteq T
      BY <1>3, <2>8
    <3>2. fresh \subseteq T
      BY <1>4, <2>2, <2>8, <3>1 DEF Shut
    <3>. QED BY <2>7, <3>1, <3>2
  <2>9. ASSUME NEW x \in ToSet(out2), NEW y \in Places, Linked(arcs, x, y) PROVE y \in w'.visited \cup ToSet(todo2)
    BY <1>3, <1>4, <2>2, <2>5, <2>7, <2>9
  <2>10. ToSet(todo2) \subseteq Places /\ w.roots \subseteq w'.visited \cup ToSet(todo2) /\ w'.visited = ToSet(out2)
    BY <1>3, <1>4, <2>2, <2>4, <2>5, <2>6, <2>7
  <2>. HIDE DEF w
  <2>. QED BY <2>4, <2>5, <2>6, <2>8, <2>9, <2>10 DEF WalkKept, w
<1>. QED BY <1>7, <1>8

LEMMA WalkInvStep ==
  ASSUME GraphInv, WalkInv, [BuildNext \/ ShrinkNext \/ PlanNext \/ WalkNext]_designVars
  PROVE  WalkInv'
<1>1. CASE walk' = NoWalk
  BY <1>1 DEF WalkInv
<1>2. CASE walk' # NoWalk
  <2>1. \/ UNCHANGED <<slots, arcs, walk>>
        \/ UNCHANGED <<slots, arcs>> /\ WalkNext
    BY <1>2 DEF BuildNext, ShrinkNext, AddNode, AddEdge, RemoveNode, Subgraph, Rebuilt, Unobserved,
                PlanNext, CompleteNode, PlanBegins, PlanNextWave, WalkNext, WalkBegins, BreadthFirst, DepthFirst, designVars
  <2>2. UNCHANGED <<slots, arcs>> /\ Places' = Places
    BY <2>1 DEF Places
  <2>3. CASE UNCHANGED walk
    BY <1>2, <2>2, <2>3 DEF WalkInv
  <2>4. CASE WalkNext
    <3>1. WalkKept(walk', Places, arcs)
      BY <2>4, WalkStarts, BreadthKeeps, DepthKeeps DEF WalkNext
    <3>. QED BY <2>2, <3>1 DEF WalkInv
  <2>. QED BY <2>1, <2>3, <2>4
<1>. QED BY <1>1, <1>2

LEMMA WalkInvVisits == GraphInv /\ WalkInv => WalkVisitsReachable
<1>. SUFFICES ASSUME GraphInv, WalkInv, walk # NoWalk, walk.todo = <<>>
              PROVE  /\ IsInjective(walk.out)
                     /\ Range(walk.out) = UNION {Descendants(i) \cup {i} : i \in walk.roots}
  BY DEF WalkVisitsReachable
<1>. DEFINE V == walk.visited
            R(x) == Reach(x, Forward)
            T == UNION {R(x) : x \in walk.roots}
<1>1. ToSet(<<>>) = {}
  BY DEF ToSet
<1>2. /\ walk.roots \subseteq Places /\ V \subseteq Places /\ Distinct(walk.out) /\ walk.roots \subseteq V /\ V = ToSet(walk.out)
      /\ \A S \in SUBSET Places : walk.roots \subseteq S /\ Shut(S, arcs, Places) => V \subseteq S
      /\ \A x \in V, y \in Places : Linked(arcs, x, y) => y \in V
  BY <1>1 DEF WalkInv, WalkKept
<1>3. /\ slots \in Seq(NodeIds) /\ Forward \in [Places -> SUBSET Places]
      /\ \A x, y \in Places : y \in Forward[x] <=> Linked(arcs, x, y)
  BY Arrows
<1>4. \A x \in Places : /\ x \in R(x) /\ R(x) \subseteq Places /\ Settled(R(x), Forward)
                        /\ \A S : x \in S /\ Settled(S, Forward) => R(x) \subseteq S
  BY <1>3, ReachLeast
<1>5. ASSUME NEW x \in walk.roots PROVE Descendants(x) \cup {x} = R(x)
  BY <1>2, <1>4 DEF Descendants
<1>. HIDE DEF R, V
<1>6. Settled(V, Forward)
  BY <1>2, <1>3 DEF Settled
<1>7. T \subseteq V
  BY <1>2, <1>4, <1>6
<1>8. T \in SUBSET Places /\ walk.roots \subseteq T
  BY <1>2, <1>4
<1>9. Shut(T, arcs, Places)
  <2>. SUFFICES ASSUME NEW x \in T, NEW y \in Places, Linked(arcs, x, y) PROVE y \in T
    BY DEF Shut
  <2>1. PICK r \in walk.roots : x \in R(r)
    OBVIOUS
  <2>2. y \in R(r)
    BY <1>2, <1>3, <1>4, <2>1 DEF Settled
  <2>. QED BY <2>2
<1>10. V \subseteq T
  BY <1>2, <1>8, <1>9
<1>11. UNION {Descendants(x) \cup {x} : x \in walk.roots} = T
  BY <1>5
<1>. HIDE DEF T
<1>12. Range(walk.out) = ToSet(walk.out)
  BY DEF Range, ToSet
<1>13. IsInjective(walk.out)
  BY <1>2 DEF IsInjective, Distinct
<1>. QED BY <1>2, <1>7, <1>10, <1>11, <1>12, <1>13

-----------------------------------------------------------------------------
(* Plans *)

\* What a recursion over 1..n computes, each time from the value before it.
Iterates(n, D, b, F) == \E f \in [0..n -> D] : f[0] = b /\ \A k \in 1..n : f[k] = F[k][f[k - 1]]

LEMMA Iterated ==
  ASSUME NEW n \in Nat, NEW D, NEW b \in D, NEW F \in [1..n -> [D -> D]]
  PROVE  Iterates(n, D, b, F)
<1>. DEFINE Upto(f, m) == f[0] = b /\ \A k \in 1..m : f[k] = F[k][f[k - 1]]
            S == {m \in Nat : m <= n => \E f \in [0..m -> D] : Upto(f, m)}
<1>1. 0 \in S
  <2>. DEFINE f == [k \in 0..0 |-> b]
  <2>1. f \in [0..0 -> D] /\ Upto(f, 0)
    OBVIOUS
  <2>. QED BY <2>1
<1>2. ASSUME NEW m \in Nat, m \in S PROVE m + 1 \in S
  <2>. SUFFICES ASSUME m + 1 <= n PROVE \E f \in [0..(m + 1) -> D] : Upto(f, m + 1)
    OBVIOUS
  <2>1. PICK f \in [0..m -> D] : Upto(f, m)
    BY <1>2
  <2>2. m + 1 \in 1..n /\ m \in 0..m
    OBVIOUS
  <2>. DEFINE x == F[m + 1][f[m]]
              g == [k \in 0..(m + 1) |-> IF k = m + 1 THEN x ELSE f[k]]
  <2>3. x \in D
    BY <2>2
  <2>. HIDE DEF x
  <2>4. g \in [0..(m + 1) -> D] /\ g[m + 1] = x /\ \A k \in 0..m : g[k] = f[k]
    BY <2>3
  <2>. HIDE DEF g
  <2>5. ASSUME NEW k \in 1..(m + 1) PROVE g[k] = F[k][g[k - 1]]
    <3>1. CASE k = m + 1
      <4>1. k - 1 = m
        BY <3>1
      <4>. QED BY <2>2, <2>4, <3>1, <4>1 DEF x
    <3>2. CASE k # m + 1
      <4>1. k \in 1..m /\ k \in 0..m /\ k - 1 \in 0..m
        BY <3>2
      <4>. QED BY <2>1, <2>4, <4>1
    <3>. QED BY <3>1, <3>2
  <2>6. 0 \in 0..m
    OBVIOUS
  <2>7. Upto(g, m + 1)
    BY <2>1, <2>4, <2>5, <2>6
  <2>. QED BY <2>4, <2>7
<1>. HIDE DEF S
<1>3. n \in S
  BY <1>1, <1>2, NumberSteps
<1>. QED BY <1>3 DEF S, Iterates

PlanStates == {"Pending"} \cup Ended

\* A round, and so any number of them, only makes pending nodes skipped.
OnlySkips(st, r) == \A i \in DOMAIN st : r[i] = st[i] \/ (st[i] = "Pending" /\ r[i] = "Skipped")

LEMMA SkippingOnly ==
  ASSUME NEW n \in Nat, NEW st \in [1..n -> PlanStates]
  PROVE  SkippedIn(st) \in [1..n -> PlanStates] /\ OnlySkips(st, SkippedIn(st))
<1>. DEFINE D == [1..n -> PlanStates]
<1>1. \A s \in D : SkipRound(s) \in D /\ OnlySkips(s, SkipRound(s))
  BY DEF SkipRound, OnlySkips, PlanStates, Ended
<1>. HIDE DEF D
<1>2. PICK F \in [1..n -> [D -> D]] : \A k \in 1..n, s \in D : F[k][s] = SkipRound(s)
  <2>1. [k \in 1..n |-> [s \in D |-> SkipRound(s)]] \in [1..n -> [D -> D]]
    BY <1>1
  <2>. QED BY <2>1
<1>3. st \in D
  BY DEF D
<1>4. PICK f \in [0..n -> D] : f[0] = st /\ \A k \in 1..n : f[k] = F[k][f[k - 1]]
  <2>1. Iterates(n, D, st, F)
    BY <1>2, <1>3, Iterated
  <2>. QED BY <2>1 DEF Iterates
<1>5. Len(st) = n
  <2>1. st \in Seq(PlanStates)
    OBVIOUS
  <2>. QED BY <2>1
<1>. DEFINE P(h) == h = [k \in 0..n |-> IF k = 0 THEN st ELSE SkipRound(h[k - 1])]
            h0 == CHOOSE h : P(h)
<1>6. P(f)
  <2>1. ASSUME NEW k \in 0..n PROVE f[k] = IF k = 0 THEN st ELSE SkipRound(f[k - 1])
    <3>1. CASE k = 0
      BY <1>4, <3>1
    <3>2. CASE k # 0
      <4>1. k \in 1..n /\ k - 1 \in 0..n
        BY <3>2
      <4>. QED BY <1>2, <1>4, <3>2, <4>1
    <3>. QED BY <3>1, <3>2
  <2>2. f = [k \in 0..n |-> f[k]]
    OBVIOUS
  <2>. QED BY <2>1, <2>2
<1>7. SkippedIn(st) = h0[n]
  BY <1>5 DEF SkippedIn
<1>8. P(h0)
  BY <1>6
<1>9. 0 \in 0..n /\ n \in 0..n
  OBVIOUS
<1>10. h0[0] = st /\ \A k \in Nat : k + 1 <= n => h0[k + 1] = SkipRound(h0[k])
  <2>. HIDE DEF h0
  <2>1. h0[0] = st
    BY <1>8, <1>9
  <2>2. ASSUME NEW k \in Nat, k + 1 <= n PROVE h0[k + 1] = SkipRound(h0[k])
    <3>1. k + 1 \in 0..n /\ k + 1 # 0 /\ (k + 1) - 1 = k
      BY <2>2
    <3>. QED BY <1>8, <3>1
  <2>. QED BY <2>1, <2>2
<1>. HIDE DEF P, h0
<1>. DEFINE S == {k \in Nat : k <= n => h0[k] \in D /\ OnlySkips(st, h0[k])}
<1>11. 0 \in S
  BY <1>3, <1>10 DEF OnlySkips
<1>12. ASSUME NEW k \in Nat, k \in S PROVE k + 1 \in S
  <2>. SUFFICES ASSUME k + 1 <= n PROVE h0[k + 1] \in D /\ OnlySkips(st, h0[k + 1])
    OBVIOUS
  <2>1. h0[k] \in D /\ OnlySkips(st, h0[k]) /\ h0[k + 1] = SkipRound(h0[k])
    BY <1>10, <1>12
  <2>2. h0[k + 1] \in D /\ OnlySkips(h0[k], h0[k + 1])
    BY <1>1, <2>1
  <2>. QED BY <1>3, <2>1, <2>2 DEF OnlySkips, D
<1>. HIDE DEF S
<1>13. n \in S
  BY <1>11, <1>12, NumberSteps
<1>. QED BY <1>7, <1>13 DEF S, D

ReadyOver(A, st) == {i \in DOMAIN st : st[i] = "Pending" /\ \A a \in A : a.to = i => Fires(a, st)}

(***************************************************************************)
(* A plan p over places P and edges A, of a graph in states st: what the   *)
(* simulation changed was pending and is skipped or in a wave, a node is   *)
(* in one wave at most, and what its edges come from had ended before it.  *)
(***************************************************************************)
PlanKept(p, st, P, A) ==
  /\ p \in [phase : {"planning", "planned"}, sim : [P -> PlanStates], waves : Seq(SUBSET P)]
  /\ \A k \in DOMAIN p.waves : p.waves[k] # {} /\ Cardinality(p.waves[k]) <= WaveLimit
  /\ p.phase = "planned" => ReadyOver(A, p.sim) = {}
  /\ \A i \in P : \/ p.sim[i] = st[i]
                  \/ /\ st[i] = "Pending"
                     /\ p.sim[i] = "Skipped" \/ (p.sim[i] = "Succeeded" /\ \E k \in DOMAIN p.waves : i \in p.waves[k])
  /\ \A k \in DOMAIN p.waves : \A i \in p.waves[k] : st[i] = "Pending" /\ p.sim[i] = "Succeeded"
  /\ \A h, k \in DOMAIN p.waves : h # k => p.waves[h] \cap p.waves[k] = {}
  /\ \A k \in DOMAIN p.waves : \A i \in p.waves[k] : \A j \in P : Linked(A, j, i) =>
       st[j] \in Ended \/ p.sim[j] = "Skipped" \/ \E h \in 1..(k - 1) : j \in p.waves[h]

PlanInv == /\ states \in [Places -> PlanStates]
           /\ plan # NoPlan => PlanKept(plan, states, Places, arcs)

\* Distinct places are no more than there are.
LEMMA PlacesFew ==
  ASSUME NEW n \in Nat, NEW m \in Nat, NEW c \in [1..m -> 1..n], \A h, k \in 1..m : c[h] = c[k] => h = k
  PROVE  m <= n
<1>1. c \in Injection(1..m, 1..n)
  BY DEF Injection, IsInjective
<1>2. /\ IsFiniteSet(1..n) /\ Cardinality(1..n) = IF 1 > n THEN 0 ELSE n - 1 + 1
      /\ Cardinality(1..m) = IF 1 > m THEN 0 ELSE m - 1 + 1
  BY FS_Interval
<1>3. Cardinality(1..n) = n /\ Cardinality(1..m) = m
  BY <1>2
<1>4. Cardinality(1..m) <= Cardinality(1..n)
  BY <1>1, <1>2, FS_Injection
<1>. QED BY <1>3, <1>4

\* There are no more waves than nodes.
LEMMA WavesFew ==
  ASSUME NEW n \in Nat, NEW ws \in Seq(SUBSET (1..n)), \A k \in DOMAIN ws : ws[k] # {},
         \A h, k \in DOMAIN ws : h # k => ws[h] \cap ws[k] = {}
  PROVE  Len(ws) <= n
<1>1. PICK m \in Nat : m = Len(ws) /\ DOMAIN ws = 1..m
  OBVIOUS
<1>. DEFINE c == [k \in 1..m |-> CHOOSE x : x \in ws[k]]
<1>2. \A k \in 1..m : c[k] \in ws[k] /\ ws[k] \subseteq 1..n
  BY <1>1
<1>3. c \in [1..m -> 1..n]
  BY <1>2
<1>. HIDE DEF c
<1>4. \A h, k \in 1..m : c[h] = c[k] => h = k
  BY <1>1, <1>2
<1>. QED BY <1>1, <1>3, <1>4, PlacesFew

\* What comes first of those that are ready is something and within the limit.
LEMMA FirstWithinLimit ==
  ASSUME GraphInv, NEW ready \in SUBSET Places, ready # {}
  PROVE  FirstOf(ready) # {} /\ Cardinality(FirstOf(ready)) <= WaveLimit /\ FirstOf(ready) \subseteq ready
<1>. DEFINE w(i) == Weight[slots[i]]
            below(i) == {j \in ready : w(j) < w(i)}
            first == FirstOf(ready)
<1>1. PICK n \in Nat : Places = 1..n
  BY DEF GraphInv, GraphKept, Places
<1>2. \A i \in Places : slots[i] \in NodeIds /\ indexMap[slots[i]] = i
  BY DEF GraphInv, GraphKept, Indexed, Places
<1>3. \A i, j \in Places : w(i) \in Nat /\ (w(i) = w(j) => i = j)
  BY <1>2, DesignAssumption DEF IsInjective
<1>4. IsFiniteSet(ready)
  <2>1. IsFiniteSet(1..n)
    BY FS_Interval
  <2>. HIDE DEF Places
  <2>. QED BY <1>1, <2>1, FS_Subset
<1>. HIDE DEF w
<1>5. first = {i \in ready : Cardinality(below(i)) < WaveLimit}
  BY DEF FirstOf, w
<1>. HIDE DEF first
<1>6. \A i \in ready : below(i) \in SUBSET ready /\ IsFiniteSet(below(i)) /\ Cardinality(below(i)) \in Nat
  BY <1>4, FS_Subset, FS_CardinalityType
<1>7. WaveLimit \in Nat /\ WaveLimit > 0
  BY DesignAssumption
<1>8. first # {}
  <2>. DEFINE T == {w(i) : i \in ready}
  <2>1. T \subseteq Nat /\ T # {}
    BY <1>3
  <2>2. PICK m \in T : \A y \in T : m <= y
    BY <2>1, LeastKey
  <2>3. PICK i \in ready : w(i) = m
    BY <2>2
  <2>4. below(i) = {}
    <3>1. ASSUME NEW j \in ready PROVE ~(w(j) < w(i))
      BY <1>3, <2>2, <2>3
    <3>. QED BY <3>1
  <2>5. Cardinality(below(i)) = 0
    BY <2>4, FS_EmptySet
  <2>. QED BY <1>5, <1>7, <2>5
<1>9. ASSUME NEW i \in ready, NEW j \in ready, w(i) < w(j) PROVE Cardinality(below(i)) < Cardinality(below(j))
  <2>1. below(i) \in SUBSET below(j) /\ i \in below(j) /\ i \notin below(i)
    BY <1>3, <1>9
  <2>2. PICK a \in Nat, b \in Nat : a = Cardinality(below(i)) /\ b = Cardinality(below(j))
    BY <1>6
  <2>3. IsFiniteSet(below(j))
    BY <1>6
  <2>. HIDE DEF below
  <2>4. a <= b /\ a # b
    BY <2>1, <2>2, <2>3, FS_Subset
  <2>. QED BY <2>2, <2>4
<1>. DEFINE f == [i \in first |-> Cardinality(below(i))]
            r == 0..(WaveLimit - 1)
<1>10. \A i \in first : i \in ready /\ i \in Places /\ Cardinality(below(i)) \in Nat /\ Cardinality(below(i)) < WaveLimit
  BY <1>5, <1>6
<1>. HIDE DEF below
<1>11. f \in [first -> r]
  BY <1>7, <1>10
<1>12. ASSUME NEW i \in first, NEW j \in first, f[i] = f[j] PROVE i = j
  <2>1. Cardinality(below(i)) = Cardinality(below(j)) /\ w(i) \in Nat /\ w(j) \in Nat
    BY <1>3, <1>10, <1>12
  <2>2. ~(w(i) < w(j)) /\ ~(w(j) < w(i))
    BY <1>9, <1>10, <2>1
  <2>3. w(i) = w(j)
    BY <2>1, <2>2
  <2>. QED BY <1>3, <1>10, <2>3
<1>. HIDE DEF f
<1>13. f \in Injection(first, r)
  BY <1>11, <1>12 DEF Injection, IsInjective
<1>14. IsFiniteSet(r) /\ Cardinality(r) = IF 0 > WaveLimit - 1 THEN 0 ELSE (WaveLimit - 1) - 0 + 1
  <2>1. PICK z \in Int : z = WaveLimit - 1
    BY <1>7
  <2>2. IsFiniteSet(0..z) /\ Cardinality(0..z) = IF 0 > z THEN 0 ELSE z - 0 + 1
    BY FS_Interval
  <2>. QED BY <2>1, <2>2
<1>15. Cardinality(r) = WaveLimit
  BY <1>7, <1>14
<1>. HIDE DEF r
<1>16. Cardinality(first) <= WaveLimit
  BY <1>13, <1>14, <1>15, FS_Injection
<1>. QED BY <1>5, <1>8, <1>16 DEF first

\* Nodes that end, and the rounds of skipping that follow.
EndsAs(r, st, done, as) ==
  /\ \A i \in done : r[i] = as
  /\ \A i \in DOMAIN st \ done : r[i] = st[i] \/ (st[i] = "Pending" /\ r[i] = "Skipped")

LEMMA CompletedSkips ==
  ASSUME NEW n \in Nat, NEW st \in [1..n -> PlanStates], NEW done \in SUBSET (1..n), NEW as \in Ended
  PROVE  Completed(st, done, as) \in [1..n -> PlanStates] /\ EndsAs(Completed(st, done, as), st, done, as)
<1>. DEFINE r == [i \in 1..n |-> IF i \in done THEN as ELSE st[i]]
<1>1. r \in [1..n -> PlanStates]
  BY DEF PlanStates
<1>2. Completed(st, done, as) = SkippedIn(r)
  BY DEF Completed
<1>3. (\A i \in done : r[i] = as /\ r[i] # "Pending") /\ \A i \in (1..n) \ done : r[i] = st[i]
  BY DEF Ended
<1>. HIDE DEF r
<1>4. SkippedIn(r) \in [1..n -> PlanStates] /\ OnlySkips(r, SkippedIn(r))
  BY <1>1, SkippingOnly
<1>5. DOMAIN r = 1..n
  BY <1>1
<1>. QED BY <1>2, <1>3, <1>4, <1>5 DEF OnlySkips, EndsAs

\* Edges into ready nodes come from nodes that have ended.
LEMMA FiresAfter ==
  ASSUME GraphInv, NEW st \in [Places -> PlanStates], NEW i \in ReadyOver(arcs, st), NEW j \in Places, Linked(arcs, j, i)
  PROVE  st[j] \in Ended
<1>1. PICK a \in arcs : a.from = j /\ a.to = i
  BY DEF Linked
<1>2. Fires(a, st) /\ a.cond \in {"Always", "OnSuccess", "OnFailure", "OnOutput"}
  BY <1>1, DesignAssumption DEF ReadyOver, GraphInv, GraphKept
<1>. QED BY <1>1, <1>2 DEF Fires, Ended

LEMMA WavePlanned == ASSUME GraphInv, PlanInv, PlanNextWave PROVE PlanInv'
<1>. DEFINE ready == ReadyIn(plan.sim)
            chosen == FirstOf(ready)
            waves == Append(plan.waves, chosen)
            sim == Completed(plan.sim, chosen, "Succeeded")
<1>1. UNCHANGED <<slots, arcs, states>> /\ plan.phase = "planning"
  BY DEF PlanNextWave
<1>2. PICK n \in Nat : Places = 1..n /\ Len(slots) = n
  BY DEF GraphInv, GraphKept, Places
<1>3. Places' = 1..n
  BY <1>1, <1>2 DEF Places
<1>4. /\ states \in [1..n -> PlanStates] /\ PlanKept(plan, states, 1..n, arcs)
  <2>1. plan # NoPlan
    BY <1>1 DEF NoPlan
  <2>. QED BY <1>2, <2>1 DEF PlanInv
<1>5. ready = ReadyOver(arcs, plan.sim)
  BY DEF ReadyIn, ReadyOver, Into
<1>6. SUFFICES PlanKept(plan', states, 1..n, arcs)
  BY <1>1, <1>3, <1>4 DEF PlanInv
<1>7. CASE ready = {}
  <2>1. plan' = [plan EXCEPT !.phase = "planned"]
    BY <1>7 DEF PlanNextWave
  <2>2. plan \in [phase : {"planning", "planned"}, sim : [1..n -> PlanStates], waves : Seq(SUBSET (1..n))]
    BY <1>4 DEF PlanKept
  <2>. HIDE DEF ready
  <2>3. /\ plan' \in [phase : {"planning", "planned"}, sim : [1..n -> PlanStates], waves : Seq(SUBSET (1..n))]
        /\ plan'.sim = plan.sim /\ plan'.waves = plan.waves
    BY <2>1, <2>2
  <2>. QED BY <1>4, <1>5, <1>7, <2>3 DEF PlanKept
<1>8. CASE ready # {}
  <2>1. PICK s \in [1..n -> PlanStates], ws \in Seq(SUBSET (1..n)), m \in Nat :
          s = plan.sim /\ ws = plan.waves /\ m = Len(ws)
    BY <1>4 DEF PlanKept
  <2>2. /\ plan'.phase = IF Len(waves) > n THEN "planned" ELSE "planning"
        /\ plan'.sim = sim /\ plan'.waves = waves
        /\ plan' = [phase |-> plan'.phase, sim |-> sim, waves |-> waves]
    BY <1>2, <1>8 DEF PlanNextWave, PlannedWave
  <2>3. ready \in SUBSET (1..n) /\ \A i \in ready : s[i] = "Pending"
    BY <1>5, <2>1 DEF ReadyOver
  <2>. HIDE DEF ready
  <2>4. chosen # {} /\ Cardinality(chosen) <= WaveLimit /\ chosen \subseteq ready
    BY <1>2, <1>8, <2>3, FirstWithinLimit
  <2>. HIDE DEF chosen
  <2>5. /\ sim \in [1..n -> PlanStates] /\ \A i \in chosen : sim[i] = "Succeeded"
        /\ \A i \in (1..n) \ chosen : sim[i] = s[i] \/ (s[i] = "Pending" /\ sim[i] = "Skipped")
    <3>1. chosen \in SUBSET (1..n) /\ "Succeeded" \in Ended
      BY <2>3, <2>4 DEF Ended
    <3>2. sim = Completed(s, chosen, "Succeeded")
      BY <2>1
    <3>. HIDE DEF sim
    <3>3. PICK d \in SUBSET (1..n), as \in Ended : d = chosen /\ as = "Succeeded"
      BY <3>1
    <3>4. Completed(s, d, as) \in [1..n -> PlanStates] /\ EndsAs(Completed(s, d, as), s, d, as)
      BY CompletedSkips
    <3>5. sim \in [1..n -> PlanStates] /\ EndsAs(sim, s, chosen, "Succeeded") /\ DOMAIN s = 1..n
      BY <3>2, <3>3, <3>4
    <3>. QED BY <3>5 DEF EndsAs
  <2>. HIDE DEF sim
  <2>6. /\ waves \in Seq(SUBSET (1..n)) /\ Len(waves) = m + 1 /\ DOMAIN waves = 1..(m + 1) /\ DOMAIN ws = 1..m
        /\ waves[m + 1] = chosen /\ \A k \in 1..m : waves[k] = ws[k]
    BY <2>1, <2>3, <2>4
  <2>. HIDE DEF waves
  <2>7. /\ \A k \in 1..m : ws[k] # {} /\ Cardinality(ws[k]) <= WaveLimit
        /\ \A i \in 1..n : \/ s[i] = states[i]
                           \/ /\ states[i] = "Pending"
                              /\ s[i] = "Skipped" \/ (s[i] = "Succeeded" /\ \E k \in 1..m : i \in ws[k])
        /\ \A k \in 1..m : \A i \in ws[k] : states[i] = "Pending" /\ s[i] = "Succeeded"
        /\ \A h, k \in 1..m : h # k => ws[h] \cap ws[k] = {}
        /\ \A k \in 1..m : \A i \in ws[k] : \A j \in 1..n : Linked(arcs, j, i) =>
             states[j] \in Ended \/ s[j] = "Skipped" \/ \E h \in 1..(k - 1) : j \in ws[h]
    <3>1. plan.sim = s /\ plan.waves = ws /\ DOMAIN plan.waves = 1..m
      BY <2>1, <2>6
    <3>2. \A k \in 1..m : ws[k] # {} /\ Cardinality(ws[k]) <= WaveLimit
      BY <1>4, <3>1 DEF PlanKept
    <3>3. \A i \in 1..n : \/ s[i] = states[i]
                         \/ /\ states[i] = "Pending"
                            /\ s[i] = "Skipped" \/ (s[i] = "Succeeded" /\ \E k \in 1..m : i \in ws[k])
      BY <1>4, <3>1 DEF PlanKept
    <3>4. \A k \in 1..m : \A i \in ws[k] : states[i] = "Pending" /\ s[i] = "Succeeded"
      BY <1>4, <3>1 DEF PlanKept
    <3>5. \A h, k \in 1..m : h # k => ws[h] \cap ws[k] = {}
      BY <1>4, <3>1 DEF PlanKept
    <3>6. \A k \in 1..m : \A i \in ws[k] : \A j \in 1..n : Linked(arcs, j, i) =>
            states[j] \in Ended \/ s[j] = "Skipped" \/ \E h \in 1..(k - 1) : j \in ws[h]
      BY <1>4, <3>1 DEF PlanKept
    <3>. QED BY <3>2, <3>3, <3>4, <3>5, <3>6
  <2>8. \A k \in 1..(m + 1) : waves[k] # {} /\ Cardinality(waves[k]) <= WaveLimit
    BY <2>4, <2>6, <2>7
  <2>9. \A i \in chosen : i \in 1..n /\ s[i] = "Pending" /\ states[i] = "Pending"
    BY <2>3, <2>4, <2>7
  <2>10. \A k \in 1..m : \A i \in ws[k] : i \in 1..n /\ i \notin chosen /\ sim[i] = "Succeeded"
    <3>1. \A k \in 1..m : ws[k] \subseteq 1..n
      BY <2>1, <2>6
    <3>. QED BY <2>5, <2>7, <2>9, <3>1
  <2>11. \A h, k \in 1..(m + 1) : h # k => waves[h] \cap waves[k] = {}
    BY <2>6, <2>7, <2>10
  <2>12. \A k \in 1..(m + 1) : \A i \in waves[k] : states[i] = "Pending" /\ sim[i] = "Succeeded"
    BY <2>5, <2>6, <2>7, <2>9, <2>10
  <2>13. ASSUME NEW i \in 1..n
         PROVE  \/ sim[i] = states[i]
                \/ /\ states[i] = "Pending"
                   /\ sim[i] = "Skipped" \/ (sim[i] = "Succeeded" /\ \E k \in 1..(m + 1) : i \in waves[k])
    <3>1. CASE i \in chosen
      <4>1. m + 1 \in 1..(m + 1)
        OBVIOUS
      <4>. QED BY <2>5, <2>6, <2>9, <3>1, <4>1
    <3>2. CASE i \notin chosen
      <4>1. \A k \in 1..m : k \in 1..(m + 1) /\ waves[k] = ws[k]
        BY <2>6
      <4>. QED BY <2>5, <2>7, <3>2, <4>1
    <3>. QED BY <3>1, <3>2
  <2>14. ASSUME NEW k \in 1..(m + 1), NEW i \in waves[k], NEW j \in 1..n, Linked(arcs, j, i)
         PROVE  states[j] \in Ended \/ sim[j] = "Skipped" \/ \E h \in 1..(k - 1) : j \in waves[h]
    <3>1. s[j] = "Skipped" => sim[j] = "Skipped"
      BY <2>5, <2>9
    <3>2. CASE k \in 1..m
      <4>1. \A h \in 1..(k - 1) : waves[h] = ws[h]
        BY <2>6, <3>2
      <4>. QED BY <2>6, <2>7, <2>14, <3>1, <3>2, <4>1
    <3>3. CASE k = m + 1
      <4>1. i \in ReadyOver(arcs, s)
        BY <1>5, <2>1, <2>4, <2>6, <2>14, <3>3
      <4>2. s[j] \in Ended
        BY <1>2, <2>14, <4>1, FiresAfter
      <4>3. k - 1 = m
        BY <3>3
      <4>. QED BY <2>6, <2>7, <3>1, <4>2, <4>3
    <3>. QED BY <3>2, <3>3
  <2>15. m + 1 <= n
    <3>1. /\ waves \in Seq(SUBSET (1..n)) /\ \A k \in DOMAIN waves : waves[k] # {}
          /\ \A h, k \in DOMAIN waves : h # k => waves[h] \cap waves[k] = {}
      BY <2>6, <2>8, <2>11
    <3>2. Len(waves) <= n
      BY <3>1, WavesFew
    <3>. QED BY <2>6, <3>2
  <2>16. plan'.phase = "planning"
    BY <2>2, <2>6, <2>15
  <2>17. plan' \in [phase : {"planning", "planned"}, sim : [1..n -> PlanStates], waves : Seq(SUBSET (1..n))]
    BY <2>2, <2>5, <2>6, <2>16
  <2>18. plan'.sim = sim /\ plan'.waves = waves /\ DOMAIN plan'.waves = 1..(m + 1) /\ plan'.phase # "planned"
    BY <2>2, <2>6, <2>16
  <2>19. \A k \in 1..(m + 1) : \A i \in waves[k] : \A j \in 1..n : Linked(arcs, j, i) =>
           states[j] \in Ended \/ sim[j] = "Skipped" \/ \E h \in 1..(k - 1) : j \in waves[h]
    BY <2>14
  <2>. QED BY <2>8, <2>11, <2>12, <2>13, <2>17, <2>18, <2>19 DEF PlanKept
<1>. QED BY <1>7, <1>8

\* Every node keeps a state, whatever is added, removed or completed.
LEMMA StatesKept ==
  ASSUME GraphInv, PlanInv, BuildNext \/ ShrinkNext \/ PlanNext
  PROVE  states' \in [Places' -> PlanStates]
<1>1. PICK n \in Nat : Places = 1..n /\ Len(slots) = n /\ slots \in [1..n -> NodeIds] /\ slots \in Seq(NodeIds)
  BY DEF GraphInv, GraphKept, Places
<1>2. states \in [1..n -> PlanStates]
  BY <1>1 DEF PlanInv
<1>3. states \in Seq(PlanStates) /\ Len(states) = n
  BY <1>2
<1>4. ASSUME NEW x, AddNode(x) PROVE states' \in [Places' -> PlanStates]
  <2>1. slots' = Append(slots, x) /\ states' = Append(states, "Pending")
    BY <1>4 DEF AddNode
  <2>2. DOMAIN Append(slots, x) = 1..(n + 1)
    BY <1>1
  <2>3. "Pending" \in PlanStates
    BY DEF PlanStates
  <2>4. Append(states, "Pending") \in [1..(n + 1) -> PlanStates]
    <3>1. Append(states, "Pending") \in Seq(PlanStates) /\ Len(Append(states, "Pending")) = n + 1
      BY <1>3, <2>3, AppendProperties
    <3>2. Append(states, "Pending") \in [1..Len(Append(states, "Pending")) -> PlanStates]
      BY <3>1, LenProperties
    <3>. QED BY <3>1, <3>2
  <2>. QED BY <2>1, <2>2, <2>3, <2>4 DEF Places
<1>5. ASSUME NEW x \in NodeIds, RemoveNode(x) PROVE states' \in [Places' -> PlanStates]
  <2>1. PICK i \in 1..n : i = indexMap[x]
    BY <1>1, <1>5 DEF RemoveNode, GraphInv, GraphKept, Indexed, Places
  <2>2. slots' = Vacated(slots, i) /\ states' = Vacated(states, i)
    BY <1>5, <2>1 DEF RemoveNode
  <2>3. Vacated(slots, i) \in Seq(NodeIds) /\ Len(Vacated(slots, i)) = n - 1
    BY <1>1, Vacating
  <2>4. Vacated(states, i) \in Seq(PlanStates) /\ Len(Vacated(states, i)) = n - 1
    BY <1>3, Vacating
  <2>. QED BY <2>2, <2>3, <2>4 DEF Places
<1>6. ASSUME NEW x \in NodeIds, Subgraph(x) PROVE states' \in [Places' -> PlanStates]
  <2>. DEFINE i == indexMap[x]
              part == Component(i)
  <2>1. PICK order \in SetToSeqs(part) : Rebuilt(part, order)
    BY <1>6 DEF Subgraph
  <2>2. i \in Places
    BY <1>6 DEF Subgraph, GraphInv, GraphKept, Indexed, Places
  <2>3. part \subseteq Places
    BY <2>2, Arrows, ReachLeast DEF Component
  <2>. HIDE DEF part
  <2>4. \A k \in DOMAIN order : order[k] \in Places
    BY <2>1, <2>3 DEF SetToSeqs
  <2>5. DOMAIN slots' = DOMAIN order /\ states' = [k \in DOMAIN order |-> states[order[k]]]
    BY <2>1 DEF Rebuilt
  <2>. HIDE DEF Places
  <2>6. states' \in [DOMAIN order -> PlanStates]
    BY <1>1, <1>2, <2>4, <2>5
  <2>. QED BY <2>5, <2>6 DEF Places
<1>7. ASSUME NEW i \in Places, NEW as \in Ended, CompleteNode(i, as) PROVE states' \in [Places' -> PlanStates]
  <2>1. states' = Completed(states, {i}, as) /\ Places' = 1..n
    BY <1>1, <1>7 DEF CompleteNode, Places
  <2>2. PICK d \in SUBSET (1..n) : d = {i}
    BY <1>1
  <2>3. Completed(states, d, as) \in [1..n -> PlanStates]
    BY <1>2, CompletedSkips
  <2>. QED BY <2>1, <2>2, <2>3
<1>8. CASE BuildNext
  <2>1. ASSUME NEW x, NEW y, NEW c, AddEdge(x, y, c) PROVE UNCHANGED <<slots, states>>
    BY <2>1 DEF AddEdge
  <2>2. CASE UNCHANGED <<slots, states>>
    BY <1>1, <1>2, <2>2 DEF Places
  <2>. QED BY <1>4, <1>8, <2>1, <2>2 DEF BuildNext
<1>9. CASE ShrinkNext
  BY <1>5, <1>6, <1>9 DEF ShrinkNext
<1>10. CASE PlanNext
  <2>1. "Succeeded" \in Ended /\ "Failed" \in Ended
    BY DEF Ended
  <2>2. CASE PlanBegins \/ PlanNextWave
    <3>1. UNCHANGED <<slots, states>>
      BY <2>2 DEF PlanBegins, PlanNextWave
    <3>. QED BY <1>1, <1>2, <3>1 DEF Places
  <2>. QED BY <1>7, <1>10, <2>1, <2>2 DEF PlanNext
<1>. QED BY <1>8, <1>9, <1>10

LEMMA PlanStarts == ASSUME GraphInv, PlanInv, PlanBegins PROVE PlanInv'
<1>1. /\ UNCHANGED <<slots, arcs, states>> /\ Places' = Places /\ states \in [Places -> PlanStates]
      /\ plan' = [phase |-> "planning", sim |-> states, waves |-> <<>>]
  BY DEF PlanBegins, Places, PlanInv
<1>2. plan'.phase = "planning" /\ plan'.sim = states /\ plan'.waves = <<>> /\ DOMAIN plan'.waves = {}
  BY <1>1
<1>. DEFINE V == SUBSET Places
<1>3. <<>> \in Seq(V)
  OBVIOUS
<1>. HIDE DEF Places
<1>4. plan' \in [phase : {"planning", "planned"}, sim : [Places -> PlanStates], waves : Seq(SUBSET Places)]
  BY <1>1, <1>3
<1>5. PlanKept(plan', states, Places, arcs)
  BY <1>2, <1>4 DEF PlanKept
<1>. QED BY <1>1, <1>5 DEF PlanInv

LEMMA PlanInvStep ==
  ASSUME GraphInv, PlanInv, [BuildNext \/ ShrinkNext \/ PlanNext \/ WalkNext]_designVars
  PROVE  PlanInv'
<1>1. CASE PlanBegins
  BY <1>1, PlanStarts
<1>2. CASE PlanNextWave
  BY <1>2, WavePlanned
<1>3. CASE UNCHANGED <<slots, arcs, states, plan>>
  <2>1. Places' = Places
    BY <1>3 DEF Places
  <2>. QED BY <1>3, <2>1 DEF PlanInv
<1>4. CASE /\ BuildNext \/ ShrinkNext \/ PlanNext
           /\ plan' = NoPlan
  BY <1>4, StatesKept DEF PlanInv
<1>5. BuildNext \/ ShrinkNext => plan' = NoPlan
  BY DEF BuildNext, ShrinkNext, AddNode, AddEdge, RemoveNode, Subgraph, Rebuilt, Unobserved
<1>6. PlanNext => PlanBegins \/ PlanNextWave \/ plan' = NoPlan
  BY DEF PlanNext, CompleteNode, Unobserved
<1>7. WalkNext \/ UNCHANGED designVars => UNCHANGED <<slots, arcs, states, plan>>
  BY DEF WalkNext, WalkBegins, BreadthFirst, DepthFirst, designVars
<1>. QED BY <1>1, <1>2, <1>3, <1>4, <1>5, <1>6, <1>7

LEMMA PlanInvSound == GraphInv /\ PlanInv => WavesSound
<1>. SUFFICES ASSUME GraphInv, PlanInv, plan.phase = "planned" PROVE WavesSound
  BY DEF WavesSound
<1>1. PlanKept(plan, states, Places, arcs)
  <2>1. plan # NoPlan
    BY DEF NoPlan
  <2>. QED BY <2>1 DEF PlanInv
<1>. DEFINE ws == plan.waves
<1>2. ReadyIn(plan.sim) = {}
  BY <1>1 DEF PlanKept, ReadyIn, ReadyOver, Into
<1>3. ASSUME NEW i \in Places, plan.sim[i] = "Succeeded", states[i] # "Succeeded"
      PROVE  Cardinality({k \in DOMAIN ws : i \in ws[k]}) = 1
  <2>1. PICK k \in DOMAIN ws : i \in ws[k]
    BY <1>1, <1>3 DEF PlanKept
  <2>2. \A h \in DOMAIN ws : i \in ws[h] => h = k
    BY <1>1, <2>1 DEF PlanKept
  <2>3. {h \in DOMAIN ws : i \in ws[h]} = {k}
    BY <2>1, <2>2
  <2>. QED BY <2>3, FS_Singleton
<1>4. ASSUME NEW k \in DOMAIN ws, NEW i \in ws[k], NEW j \in Predecessors(i)
      PROVE  states[j] \in Ended \/ plan.sim[j] = "Skipped" \/ \E h \in 1 .. k - 1 : j \in ws[h]
  <2>1. i \in Places
    BY <1>1 DEF PlanKept
  <2>2. j \in Places /\ Linked(arcs, j, i)
    BY <1>4, <2>1, Arrows
  <2>. QED BY <1>1, <2>2 DEF PlanKept
<1>5. \A k \in DOMAIN ws : /\ ws[k] # {} /\ Cardinality(ws[k]) <= WaveLimit
                          /\ \A i \in ws[k] : states[i] = "Pending"
  BY <1>1 DEF PlanKept
<1>. QED BY <1>2, <1>3, <1>4, <1>5 DEF WavesSound

-----------------------------------------------------------------------------
(* The critical path *)

\* Of some places that have numbers, the best one has the greatest.
LEMMA BestIsBest ==
  ASSUME NEW n \in Nat, NEW S \in SUBSET (1..n), S # {}, NEW d, \A k \in S : d[k] \in Nat
  PROVE  BestOf(d, S) \in S /\ \A k \in S : d[k] <= d[BestOf(d, S)]
<1>. DEFINE N == {m \in Nat : \E b \in Nat : \A i \in S : i <= m => d[i] <= b}
<1>1. 0 \in N
  <2>1. \A i \in S : ~(i <= 0)
    OBVIOUS
  <2>. QED BY <2>1
<1>2. ASSUME NEW m \in Nat, m \in N PROVE m + 1 \in N
  <2>1. PICK b \in Nat : \A i \in S : i <= m => d[i] <= b
    BY <1>2
  <2>2. \A i \in S : i \in Nat /\ (i <= m + 1 => i <= m \/ i = m + 1)
    OBVIOUS
  <2>3. CASE m + 1 \in S
    <3>1. b + d[m + 1] \in Nat /\ d[m + 1] <= b + d[m + 1] /\ b <= b + d[m + 1]
      BY <2>3
    <3>2. \A i \in S : i <= m + 1 => d[i] <= b + d[m + 1]
      BY <2>1, <2>2, <2>3, <3>1
    <3>. QED BY <3>1, <3>2
  <2>4. CASE m + 1 \notin S
    <3>1. \A i \in S : i <= m + 1 => d[i] <= b
      BY <2>1, <2>2, <2>4
    <3>. QED BY <3>1
  <2>. QED BY <2>3, <2>4
<1>. HIDE DEF N
<1>3. n \in N
  BY <1>1, <1>2, NumberSteps
<1>4. PICK b \in Nat : \A i \in S : d[i] <= b
  BY <1>3 DEF N
<1>. DEFINE U == {b - d[k] : k \in S}
<1>5. U \subseteq Nat /\ U # {}
  <2>1. \A k \in S : b - d[k] \in Nat
    BY <1>4
  <2>2. PICK k \in S : TRUE
    OBVIOUS
  <2>3. b - d[k] \in U
    OBVIOUS
  <2>. QED BY <2>1, <2>3
<1>6. PICK u \in U : \A y \in U : u <= y
  BY <1>5, LeastKey
<1>7. PICK j \in S : u = b - d[j]
  BY <1>6
<1>8. ASSUME NEW k \in S PROVE d[k] <= d[j]
  <2>1. b - d[k] \in U
    OBVIOUS
  <2>. HIDE DEF U
  <2>2. b - d[j] <= b - d[k]
    BY <1>6, <1>7, <2>1
  <2>. QED BY <2>2
<1>9. \E x \in S : \A k \in S : d[k] <= d[x]
  BY <1>8
<1>. QED BY <1>9, Zenon DEF BestOf

\* The best depends on the numbers of the places only.
LEMMA BestAgree ==
  ASSUME NEW S, NEW d, NEW e, \A k \in S : d[k] = e[k]
  PROVE  BestOf(d, S) = BestOf(e, S)
<1>1. \A j : (j \in S /\ \A k \in S : d[k] <= d[j]) <=> (j \in S /\ \A k \in S : e[k] <= e[j])
  OBVIOUS
<1>. QED BY <1>1 DEF BestOf

(***************************************************************************)
(* The longest way to the places of a graph, abstractly: E is what a place *)
(* takes and R[i] are the places before it.                                *)
(***************************************************************************)
Prior(h, S) == IF S = {} THEN 0 ELSE h[BestOf(h, S)]
Solves(h, E, R, T) == \A i \in T : h[i] = E[i] + Prior(h, R[i])
Founded(R, n) == \A S \in SUBSET (1..n) : S # {} => \E x \in S : R[x] \cap S = {}

LEMMA PriorIsMost ==
  ASSUME NEW n \in Nat, NEW S \in SUBSET (1..n), NEW d, \A k \in S : d[k] \in Nat
  PROVE  /\ Prior(d, S) \in Nat /\ \A k \in S : d[k] <= Prior(d, S)
         /\ Prior(d, S) # 0 => \E k \in S : d[k] = Prior(d, S)
<1>1. CASE S = {}
  BY <1>1 DEF Prior
<1>2. CASE S # {}
  <2>1. BestOf(d, S) \in S /\ \A k \in S : d[k] <= d[BestOf(d, S)]
    BY <1>2, BestIsBest
  <2>. QED BY <1>2, <2>1 DEF Prior
<1>. QED BY <1>1, <1>2

LEMMA PriorAgree ==
  ASSUME NEW n \in Nat, NEW S \in SUBSET (1..n), NEW d, NEW e, \A k \in S : d[k] \in Nat /\ d[k] = e[k]
  PROVE  Prior(d, S) = Prior(e, S)
<1>1. CASE S = {}
  BY <1>1 DEF Prior
<1>2. CASE S # {}
  <2>1. BestOf(d, S) \in S
    BY <1>2, BestIsBest
  <2>2. BestOf(d, S) = BestOf(e, S)
    BY BestAgree
  <2>. QED BY <1>2, <2>1, <2>2 DEF Prior
<1>. QED BY <1>1, <1>2

\* One place after the other gets its number.
LEMMA Solvable ==
  ASSUME NEW n \in Nat, NEW E \in [1..n -> Nat], NEW R \in [1..n -> SUBSET (1..n)], Founded(R, n)
  PROVE  \E h \in [1..n -> Nat] : Solves(h, E, R, 1..n)
<1>. DEFINE Partly(T, h, k) == /\ IsFiniteSet(T) /\ Cardinality(T) = k /\ \A i \in T : R[i] \subseteq T
                               /\ Solves(h, E, R, T)
            Some(k) == \E T \in SUBSET (1..n) : \E h \in [1..n -> Nat] : Partly(T, h, k)
            N == {k \in Nat : k <= n => Some(k)}
<1>0. IsFiniteSet(1..n) /\ Cardinality(1..n) = n
  <2>1. IsFiniteSet(1..n) /\ Cardinality(1..n) = IF 1 > n THEN 0 ELSE n - 1 + 1
    BY FS_Interval
  <2>. QED BY <2>1
<1>1. Some(0)
  <2>1. PICK T \in SUBSET (1..n) : T = {}
    OBVIOUS
  <2>2. Partly(T, E, 0)
    BY <2>1, FS_EmptySet DEF Solves
  <2>. QED BY <2>2
<1>2. ASSUME NEW k \in Nat, k + 1 <= n, Some(k) PROVE Some(k + 1)
  <2>1. PICK T \in SUBSET (1..n), h \in [1..n -> Nat] : Partly(T, h, k)
    BY <1>2
  <2>. DEFINE U == (1..n) \ T
  <2>2. U # {} /\ U \in SUBSET (1..n)
    <3>1. T # 1..n
      BY <1>0, <1>2, <2>1
    <3>. QED BY <3>1
  <2>3. PICK x \in U : R[x] \cap U = {}
    BY <2>2 DEF Founded
  <2>4. x \in 1..n /\ x \notin T /\ R[x] \subseteq T /\ R[x] \subseteq 1..n
    BY <2>3
  <2>. HIDE DEF U
  <2>. DEFINE g == [h EXCEPT ![x] = E[x] + Prior(h, R[x])]
  <2>5. Prior(h, R[x]) \in Nat
    <3>1. PICK S \in SUBSET (1..n) : S = R[x]
      BY <2>4
    <3>2. \A i \in S : h[i] \in Nat
      OBVIOUS
    <3>. QED BY <3>1, <3>2, PriorIsMost
  <2>6. g \in [1..n -> Nat] /\ g[x] = E[x] + Prior(h, R[x]) /\ \A i \in 1..n : i # x => g[i] = h[i]
    BY <2>4, <2>5
  <2>. HIDE DEF g
  <2>7. ASSUME NEW i \in T \cup {x} PROVE g[i] = E[i] + Prior(g, R[i])
    <3>1. PICK S \in SUBSET (1..n) : S = R[i] /\ i \in 1..n /\ S \subseteq T
      BY <2>1, <2>4, <2>7
    <3>2. \A j \in S : h[j] \in Nat /\ h[j] = g[j]
      BY <2>4, <2>6, <3>1
    <3>3. Prior(h, S) = Prior(g, S)
      BY <3>2, PriorAgree
    <3>4. h[i] = E[i] + Prior(h, R[i]) \/ i = x
      BY <2>1, <2>7 DEF Solves
    <3>. QED BY <2>6, <2>7, <3>1, <3>3, <3>4
  <2>8. IsFiniteSet(T \cup {x}) /\ Cardinality(T \cup {x}) = k + 1
    BY <2>1, <2>4, FS_AddElement
  <2>9. Partly(T \cup {x}, g, k + 1)
    BY <2>1, <2>4, <2>7, <2>8 DEF Solves
  <2>. QED BY <2>4, <2>6, <2>9
<1>3. Some(n)
  <2>. HIDE DEF Some
  <2>1. 0 \in N /\ \A k \in Nat : k \in N => k + 1 \in N
    BY <1>1, <1>2
  <2>. HIDE DEF N
  <2>2. n \in N
    BY <2>1, NumberSteps
  <2>. QED BY <2>2 DEF N
<1>4. PICK T \in SUBSET (1..n), h \in [1..n -> Nat] : Partly(T, h, n)
  BY <1>3
<1>5. T = 1..n
  BY <1>0, <1>4, FS_Subset
<1>. QED BY <1>4, <1>5

\* Whatever solves the equation has numbers for values.
LEMMA SolvedInNat ==
  ASSUME NEW n \in Nat, NEW E \in [1..n -> Nat], NEW R \in [1..n -> SUBSET (1..n)], Founded(R, n),
         NEW h, Solves(h, E, R, 1..n)
  PROVE  \A i \in 1..n : h[i] \in Nat
<1>. DEFINE S == {i \in 1..n : h[i] \notin Nat}
<1>1. SUFFICES ASSUME S # {} PROVE FALSE
  OBVIOUS
<1>2. PICK x \in S : R[x] \cap S = {}
  BY <1>1 DEF Founded
<1>3. x \in 1..n /\ h[x] \notin Nat
  OBVIOUS
<1>4. PICK Q \in SUBSET (1..n) : Q = R[x]
  BY <1>3
<1>5. \A k \in Q : h[k] \in Nat
  BY <1>2, <1>4
<1>. HIDE DEF S
<1>6. Prior(h, Q) \in Nat
  BY <1>5, PriorIsMost
<1>7. h[x] = E[x] + Prior(h, Q) /\ E[x] \in Nat
  BY <1>3, <1>4 DEF Solves
<1>. QED BY <1>3, <1>6, <1>7

\* Places one after the other are distinct and so no more than there are.
LEMMA PathsAreShort ==
  ASSUME NEW n \in Nat, NEW R \in [1..n -> SUBSET (1..n)], Founded(R, n),
         NEW q \in Nat, NEW p \in [1..q -> 1..n], \A k \in 1..(q - 1) : p[k] \in R[p[k + 1]]
  PROVE  q <= n
<1>1. ASSUME NEW a \in 1..q, NEW b \in 1..q, a < b, p[a] = p[b] PROVE FALSE
  <2>. DEFINE S == {p[k] : k \in (a + 1)..b}
  <2>1. S \in SUBSET (1..n)
    OBVIOUS
  <2>2. b \in (a + 1)..b /\ a + 1 \in (a + 1)..b
    BY <1>1
  <2>3. p[b] \in S
    BY <2>2
  <2>4. PICK x \in S : R[x] \cap S = {}
    BY <2>1, <2>3 DEF Founded
  <2>5. PICK k \in (a + 1)..b : x = p[k]
    BY <2>4
  <2>6. PICK h \in 1..(q - 1) : k = h + 1
    BY <2>5
  <2>7. p[h] \in R[x]
    BY <2>5, <2>6
  <2>8. h = a \/ h \in (a + 1)..b
    BY <2>5, <2>6
  <2>9. p[h] \in S
    BY <1>1, <2>3, <2>8
  <2>. QED BY <2>4, <2>7, <2>9
<1>2. \A h, k \in 1..q : p[h] = p[k] => h = k
  <2>. SUFFICES ASSUME NEW h \in 1..q, NEW k \in 1..q, p[h] = p[k], h # k PROVE FALSE
    OBVIOUS
  <2>1. h < k \/ k < h
    OBVIOUS
  <2>. QED BY <1>1, <2>1
<1>. QED BY <1>2, PlacesFew

(***************************************************************************)
(* What a path takes, as the sums s over its beginnings; a path takes no   *)
(* longer than the longest way to its end, and exactly that when it comes  *)
(* from nowhere and from the best place each time.                         *)
(***************************************************************************)
Sums(s, q, E, p) == s[0] = 0 /\ \A k \in 1..q : s[k] = s[k - 1] + E[p[k]]

LEMMA SumsBounded ==
  ASSUME NEW n \in Nat, NEW E \in [1..n -> Nat], NEW R \in [1..n -> SUBSET (1..n)],
         NEW d \in [1..n -> Nat], Solves(d, E, R, 1..n),
         NEW q \in Nat, NEW p \in [1..q -> 1..n], \A k \in 1..(q - 1) : p[k] \in R[p[k + 1]],
         NEW s \in [0..q -> Nat], Sums(s, q, E, p), q # 0
  PROVE  s[q] <= d[p[q]]
<1>. DEFINE N == {k \in Nat : k + 1 <= q => s[k + 1] <= d[p[k + 1]]}
<1>1. ASSUME NEW k \in 1..q
      PROVE  /\ d[p[k]] = E[p[k]] + Prior(d, R[p[k]]) /\ E[p[k]] \in Nat /\ Prior(d, R[p[k]]) \in Nat
             /\ \A j \in R[p[k]] : d[j] <= Prior(d, R[p[k]])
             /\ s[k] = s[k - 1] + E[p[k]] /\ k - 1 \in 0..q /\ s[k - 1] \in Nat /\ d[p[k]] \in Nat
  <2>1. PICK x \in 1..n : x = p[k]
    OBVIOUS
  <2>2. PICK S \in SUBSET (1..n) : S = R[x]
    OBVIOUS
  <2>3. \A j \in S : d[j] \in Nat
    OBVIOUS
  <2>4. Prior(d, S) \in Nat /\ \A j \in S : d[j] <= Prior(d, S)
    BY <2>3, PriorIsMost
  <2>5. d[x] = E[x] + Prior(d, S)
    BY <2>2 DEF Solves
  <2>6. s[k] = s[k - 1] + E[p[k]] /\ k - 1 \in 0..q
    BY DEF Sums
  <2>. QED BY <2>1, <2>2, <2>4, <2>5, <2>6
<1>2. 0 \in N
  <2>1. 1 \in 1..q /\ s[0] = 0
    BY DEF Sums
  <2>2. s[1] = 0 + E[p[1]] /\ d[p[1]] = E[p[1]] + Prior(d, R[p[1]]) /\ E[p[1]] \in Nat /\ Prior(d, R[p[1]]) \in Nat
    BY <1>1, <2>1
  <2>3. s[1] <= d[p[1]]
    BY <2>2
  <2>. QED BY <2>3
<1>3. ASSUME NEW k \in Nat, k \in N PROVE k + 1 \in N
  <2>. SUFFICES ASSUME (k + 1) + 1 <= q PROVE s[(k + 1) + 1] <= d[p[(k + 1) + 1]]
    OBVIOUS
  <2>1. PICK h \in 1..q : h = k + 1
    OBVIOUS
  <2>2. PICK j \in 1..q : j = h + 1 /\ j - 1 = h /\ j = (k + 1) + 1 /\ h \in 1..(q - 1)
    BY <2>1
  <2>3. s[h] <= d[p[h]]
    BY <1>3, <2>1
  <2>4. p[h] \in R[p[j]]
    BY <2>2
  <2>5. d[p[h]] <= Prior(d, R[p[j]])
    BY <1>1, <2>4
  <2>6. /\ s[j] = s[h] + E[p[j]] /\ d[p[j]] = E[p[j]] + Prior(d, R[p[j]]) /\ E[p[j]] \in Nat
        /\ Prior(d, R[p[j]]) \in Nat /\ s[h] \in Nat /\ d[p[h]] \in Nat
    BY <1>1, <2>2
  <2>7. s[j] <= d[p[j]]
    <3>1. PICK a \in Nat, b \in Nat, c \in Nat, e \in Nat :
            a = s[h] /\ b = d[p[h]] /\ c = Prior(d, R[p[j]]) /\ e = E[p[j]]
      BY <2>6
    <3>2. a <= b /\ b <= c
      BY <2>3, <2>5, <3>1
    <3>3. a + e <= e + c
      BY <3>2
    <3>. QED BY <2>6, <3>1, <3>3
  <2>. QED BY <2>2, <2>7
<1>. HIDE DEF N
<1>4. PICK k \in Nat : q = k + 1
  <2>1. q - 1 \in Nat /\ q = (q - 1) + 1
    OBVIOUS
  <2>. QED BY <2>1
<1>5. k \in N
  BY <1>2, <1>3, NumberSteps
<1>. QED BY <1>4, <1>5 DEF N

LEMMA SumsExact ==
  ASSUME NEW n \in Nat, NEW E \in [1..n -> Nat], NEW d \in [1..n -> Nat],
         NEW q \in Nat, q # 0, NEW p \in [1..q -> 1..n], d[p[1]] = E[p[1]],
         \A k \in 1..(q - 1) : d[p[k + 1]] = E[p[k + 1]] + d[p[k]],
         NEW s \in [0..q -> Nat], Sums(s, q, E, p)
  PROVE  s[q] = d[p[q]]
<1>. DEFINE N == {k \in Nat : k + 1 <= q => s[k + 1] = d[p[k + 1]]}
<1>1. 0 \in N
  <2>1. 1 \in 1..q /\ s[0] = 0
    BY DEF Sums
  <2>2. s[1] = s[1 - 1] + E[p[1]] /\ p[1] \in 1..n
    BY <2>1 DEF Sums
  <2>3. s[1] = 0 + E[p[1]] /\ E[p[1]] \in Nat
    BY <2>1, <2>2
  <2>4. s[1] = d[p[1]]
    BY <2>3
  <2>. QED BY <2>4
<1>2. ASSUME NEW k \in Nat, k \in N PROVE k + 1 \in N
  <2>. SUFFICES ASSUME (k + 1) + 1 <= q PROVE s[(k + 1) + 1] = d[p[(k + 1) + 1]]
    OBVIOUS
  <2>1. PICK h \in 1..q : h = k + 1
    OBVIOUS
  <2>2. PICK j \in 1..q : j = h + 1 /\ j - 1 = h /\ j = (k + 1) + 1 /\ h \in 1..(q - 1)
    BY <2>1
  <2>3. s[h] = d[p[h]]
    BY <1>2, <2>1
  <2>4. d[p[j]] = E[p[j]] + d[p[h]] /\ s[j] = s[h] + E[p[j]] /\ E[p[j]] \in Nat /\ d[p[h]] \in Nat
    BY <2>2 DEF Sums
  <2>5. s[j] = d[p[j]]
    BY <2>3, <2>4
  <2>. QED BY <2>2, <2>5
<1>. HIDE DEF N
<1>3. PICK k \in Nat : q = k + 1
  <2>1. q - 1 \in Nat /\ q = (q - 1) + 1
    OBVIOUS
  <2>. QED BY <2>1
<1>4. k \in N
  BY <1>1, <1>2, NumberSteps
<1>. QED BY <1>3, <1>4 DEF N

(***************************************************************************)
(* The trace back from the place top: each place comes from one before it  *)
(* on a longest way, and the trace is as long as it was followed or no     *)
(* place that takes time is before its first one.                          *)
(***************************************************************************)
Earlier(d, S) == {j \in S : d[j] > 0}
Extended(p, R, d) == IF Earlier(d, R[p[1]]) = {} THEN p ELSE <<BestOf(d, Earlier(d, R[p[1]]))>> \o p

Traced(p, k, n, E, R, d, top) ==
  /\ p \in Seq(1..n) /\ p # <<>> /\ p[Len(p)] = top
  /\ \A j \in 1..(Len(p) - 1) : p[j] \in R[p[j + 1]] /\ d[p[j + 1]] = E[p[j + 1]] + d[p[j]]
  /\ Len(p) = k + 1 \/ Earlier(d, R[p[1]]) = {}

LEMMA TraceExtends ==
  ASSUME NEW n \in Nat, NEW E \in [1..n -> Nat], NEW R \in [1..n -> SUBSET (1..n)],
         NEW d \in [1..n -> Nat], Solves(d, E, R, 1..n), NEW top, NEW k \in Nat,
         NEW p, Traced(p, k, n, E, R, d, top)
  PROVE  Traced(Extended(p, R, d), k + 1, n, E, R, d, top)
<1>1. PICK q \in Nat : q = Len(p) /\ q # 0 /\ p \in [1..q -> 1..n] /\ p \in Seq(1..n) /\ 1 \in 1..q
  <2>1. p \in Seq(1..n) /\ p # <<>>
    BY DEF Traced
  <2>2. Len(p) \in Nat /\ p \in [1..Len(p) -> 1..n]
    BY <2>1, LenProperties
  <2>3. Len(p) # 0
    BY <2>1
  <2>4. 1 \in 1..Len(p)
    BY <2>2, <2>3
  <2>. QED BY <2>1, <2>2, <2>3, <2>4
<1>2. PICK x \in 1..n : x = p[1]
  BY <1>1
<1>. DEFINE S == Earlier(d, R[x])
<1>3. CASE S = {}
  BY <1>2, <1>3 DEF Traced, Extended
<1>4. CASE S # {}
  <2>1. S \in SUBSET (1..n) /\ (\A j \in S : d[j] \in Nat) /\ S = {j \in R[x] : d[j] > 0}
    BY DEF Earlier
  <2>. DEFINE b == BestOf(d, S)
  <2>. HIDE DEF S
  <2>2. b \in S /\ \A j \in S : d[j] <= d[b]
    BY <1>4, <2>1, BestIsBest
  <2>. HIDE DEF b
  <2>3. b \in 1..n /\ b \in R[x] /\ d[b] > 0 /\ d[b] \in Nat
    BY <2>1, <2>2
  <2>4. d[x] = E[x] + d[b]
    <3>1. PICK Q \in SUBSET (1..n) : Q = R[x]
      OBVIOUS
    <3>2. \A j \in Q : d[j] \in Nat
      OBVIOUS
    <3>3. /\ Prior(d, Q) \in Nat /\ \A j \in Q : d[j] <= Prior(d, Q)
          /\ Prior(d, Q) # 0 => \E j \in Q : d[j] = Prior(d, Q)
      BY <3>2, PriorIsMost
    <3>4. d[b] <= Prior(d, Q) /\ Prior(d, Q) > 0
      BY <2>3, <3>1, <3>3
    <3>5. PICK j \in Q : d[j] = Prior(d, Q)
      BY <3>3, <3>4
    <3>6. d[j] <= d[b]
      BY <2>1, <2>2, <3>1, <3>4, <3>5
    <3>7. Prior(d, Q) = d[b]
      BY <2>3, <3>3, <3>4, <3>5, <3>6
    <3>8. d[x] = E[x] + Prior(d, Q)
      BY <3>1 DEF Solves
    <3>. QED BY <3>7, <3>8
  <2>5. Len(p) = k + 1
    BY <1>2, <1>4 DEF Traced, S
  <2>. DEFINE r == <<b>> \o p
  <2>6. Extended(p, R, d) = r
    BY <1>2, <1>4 DEF Extended, S, b
  <2>7. /\ r \in Seq(1..n) /\ Len(r) = q + 1 /\ r[1] = b /\ \A j \in 1..q : r[j + 1] = p[j]
    BY <1>1, <2>3
  <2>. HIDE DEF r
  <2>8. r # <<>> /\ r[Len(r)] = top
    <3>0. q \in 1..q /\ p[q] = top
      <4>1. p[Len(p)] = top
        BY DEF Traced
      <4>2. q \in 1..q
        BY <1>1
      <4>. QED BY <1>1, <4>1, <4>2
    <3>1. r[q + 1] = p[q] /\ p[q] = top
      BY <2>7, <3>0
    <3>. QED BY <2>7, <3>1
  <2>9. ASSUME NEW j \in 1..q PROVE r[j] \in R[r[j + 1]] /\ d[r[j + 1]] = E[r[j + 1]] + d[r[j]]
    <3>1. CASE j = 1
      BY <1>1, <1>2, <2>3, <2>4, <2>7, <3>1
    <3>2. CASE j # 1
      <4>1. PICK h \in 1..(q - 1) : j = h + 1 /\ h \in 1..q
        BY <3>2
      <4>2. r[j] = p[h] /\ r[j + 1] = p[h + 1]
        BY <2>7, <4>1
      <4>3. p[h] \in R[p[h + 1]] /\ d[p[h + 1]] = E[p[h + 1]] + d[p[h]]
        BY <1>1, <4>1 DEF Traced
      <4>. QED BY <4>2, <4>3
    <3>. QED BY <3>1, <3>2
  <2>10. Len(r) - 1 = q /\ Len(r) = (k + 1) + 1
    BY <1>1, <2>5, <2>7
  <2>. QED BY <2>6, <2>7, <2>8, <2>9, <2>10 DEF Traced
<1>. QED BY <1>3, <1>4

LongestTo(p, n, E, R, d, top) ==
  \E q \in 1..n : /\ q = Len(p) /\ p \in [1..q -> 1..n] /\ p[q] = top
                  /\ \A j \in 1..(q - 1) : p[j] \in R[p[j + 1]]
                  /\ \A s \in [0..q -> Nat] : Sums(s, q, E, p) => s[q] = d[top]

\* Followed for as many rounds as there are places, the trace is a longest path.
LEMMA TraceLongest ==
  ASSUME NEW n \in Nat, NEW E \in [1..n -> Nat], NEW R \in [1..n -> SUBSET (1..n)], Founded(R, n),
         NEW d \in [1..n -> Nat], Solves(d, E, R, 1..n), NEW top,
         NEW p, Traced(p, n, n, E, R, d, top)
  PROVE  LongestTo(p, n, E, R, d, top)
<1>1. PICK q \in Nat : q = Len(p) /\ q # 0 /\ p \in [1..q -> 1..n] /\ 1 \in 1..q
  <2>1. p \in Seq(1..n) /\ p # <<>>
    BY DEF Traced
  <2>2. Len(p) \in Nat /\ p \in [1..Len(p) -> 1..n]
    BY <2>1, LenProperties
  <2>3. Len(p) # 0
    BY <2>1
  <2>4. 1 \in 1..Len(p)
    BY <2>2, <2>3
  <2>. QED BY <2>1, <2>2, <2>3, <2>4
<1>2. /\ \A j \in 1..(q - 1) : p[j] \in R[p[j + 1]] /\ d[p[j + 1]] = E[p[j + 1]] + d[p[j]]
      /\ p[q] = top /\ (q = n + 1 \/ Earlier(d, R[p[1]]) = {})
  BY <1>1 DEF Traced
<1>3. q <= n
  <2>1. \A j \in 1..(q - 1) : p[j] \in R[p[j + 1]]
    BY <1>2
  <2>. QED BY <1>1, <2>1, PathsAreShort
<1>4. Earlier(d, R[p[1]]) = {}
  <2>1. q # n + 1
    BY <1>3
  <2>. QED BY <1>2, <2>1
<1>5. d[p[1]] = E[p[1]]
  <2>1. PICK x \in 1..n : x = p[1]
    BY <1>1
  <2>2. PICK Q \in SUBSET (1..n) : Q = R[x]
    OBVIOUS
  <2>3. \A j \in Q : d[j] \in Nat /\ ~(d[j] > 0)
    BY <1>4, <2>1, <2>2 DEF Earlier
  <2>4. Prior(d, Q) \in Nat /\ (Prior(d, Q) # 0 => \E j \in Q : d[j] = Prior(d, Q))
    BY <2>3, PriorIsMost
  <2>5. Prior(d, Q) = 0
    BY <2>3, <2>4
  <2>6. d[x] = E[x] + Prior(d, Q) /\ E[x] \in Nat
    BY <2>2 DEF Solves
  <2>. QED BY <2>1, <2>5, <2>6
<1>6. ASSUME NEW s \in [0..q -> Nat], Sums(s, q, E, p) PROVE s[q] = d[top]
  <2>1. \A j \in 1..(q - 1) : d[p[j + 1]] = E[p[j + 1]] + d[p[j]]
    BY <1>2
  <2>2. s[q] = d[p[q]]
    BY <1>1, <1>5, <1>6, <2>1, SumsExact
  <2>. QED BY <1>2, <2>2
<1>7. q \in 1..n
  BY <1>1, <1>3
<1>8. \A s \in [0..q -> Nat] : Sums(s, q, E, p) => s[q] = d[top]
  BY <1>6
<1>9. \A j \in 1..(q - 1) : p[j] \in R[p[j + 1]]
  BY <1>2
<1>. QED BY <1>1, <1>2, <1>7, <1>8, <1>9 DEF LongestTo

-----------------------------------------------------------------------------
Time == [i \in Places |-> Estimate[slots[i]]]
Priors == [i \in Places |-> Predecessors(i)]

LEMMA GraphFounded ==
  ASSUME GraphInv
  PROVE  \E n \in Nat : /\ Places = 1..n /\ Len(slots) = n
                        /\ Time \in [1..n -> Nat] /\ Priors \in [1..n -> SUBSET (1..n)] /\ Founded(Priors, n)
<1>1. PICK n \in Nat : Places = 1..n /\ Len(slots) = n
  BY DEF GraphInv, GraphKept, Places
<1>2. \A i \in Places : Predecessors(i) = {j \in Places : Linked(arcs, j, i)}
  BY Arrows
<1>3. \A i \in Places : slots[i] \in NodeIds
  BY DEF GraphInv, GraphKept, Places
<1>4. NoCycle(arcs, Places)
  BY DEF GraphInv, GraphKept, Places
<1>. HIDE DEF Places
<1>5. Time \in [1..n -> Nat]
  BY <1>1, <1>3, DesignAssumption DEF Time
<1>6. Priors \in [1..n -> SUBSET (1..n)]
  BY <1>1, <1>2 DEF Priors
<1>7. ASSUME NEW S \in SUBSET (1..n), S # {} PROVE \E x \in S : Priors[x] \cap S = {}
  <2>1. PICK x \in S : \A y \in S : ~Linked(arcs, y, x)
    BY <1>1, <1>4, <1>7 DEF NoCycle
  <2>. QED BY <1>1, <1>2, <2>1 DEF Priors
<1>. QED BY <1>1, <1>5, <1>6, <1>7 DEF Founded

\* critical_path computes the longest way to every place.
LEMMA DistanceSolves ==
  ASSUME GraphInv, NEW n \in Nat, Places = 1..n
  PROVE  Distance \in [1..n -> Nat] /\ Solves(Distance, Time, Priors, 1..n)
<1>1. Time \in [1..n -> Nat] /\ Priors \in [1..n -> SUBSET (1..n)] /\ Founded(Priors, n)
  <2>1. PICK m \in Nat : /\ Places = 1..m /\ Len(slots) = m
                         /\ Time \in [1..m -> Nat] /\ Priors \in [1..m -> SUBSET (1..m)] /\ Founded(Priors, m)
    BY GraphFounded
  <2>2. n = Len(slots)
    <3>1. slots \in Seq(NodeIds)
      BY DEF GraphInv, GraphKept
    <3>. QED BY <3>1 DEF Places
  <2>. QED BY <2>1, <2>2
<1>. DEFINE P(h) == h = [i \in Places |-> Estimate[slots[i]] +
                          IF Predecessors(i) = {} THEN 0 ELSE h[BestOf(h, Predecessors(i))]]
            h0 == CHOOSE h : P(h)
<1>2. Distance = h0
  BY DEF Distance
<1>3. PICK f \in [1..n -> Nat] : Solves(f, Time, Priors, 1..n)
  BY <1>1, Solvable
<1>4. P(f)
  <2>1. \A i \in Places : f[i] = Estimate[slots[i]] + Prior(f, Predecessors(i))
    BY <1>3 DEF Solves, Time, Priors
  <2>2. f = [i \in Places |-> f[i]]
    OBVIOUS
  <2>. QED BY <2>1, <2>2 DEF Prior
<1>5. P(h0)
  BY <1>4
<1>6. DOMAIN h0 = 1..n /\ h0 = [i \in 1..n |-> h0[i]] /\ \A i \in Places : h0[i] = Estimate[slots[i]] + Prior(h0, Predecessors(i))
  <2>. HIDE DEF h0
  <2>. QED BY <1>5 DEF Prior
<1>. HIDE DEF h0
<1>7. Solves(h0, Time, Priors, 1..n)
  BY <1>6 DEF Solves, Time, Priors
<1>8. \A i \in 1..n : h0[i] \in Nat
  BY <1>1, <1>7, SolvedInNat
<1>. QED BY <1>2, <1>6, <1>7, <1>8

\* What a path takes is the last of its sums.
LEMMA TotalSums ==
  ASSUME NEW n \in Nat, Places = 1..n, Time \in [1..n -> Nat], NEW q \in Nat, NEW p \in [1..q -> 1..n]
  PROVE  \E s \in [0..q -> Nat] : Sums(s, q, Time, p) /\ Total(p) = s[q]
<1>1. PICK F \in [1..q -> [Nat -> Nat]] : \A k \in 1..q, v \in Nat : F[k][v] = v + Time[p[k]]
  <2>1. [k \in 1..q |-> [v \in Nat |-> v + Time[p[k]]]] \in [1..q -> [Nat -> Nat]]
    OBVIOUS
  <2>. QED BY <2>1
<1>2. PICK f \in [0..q -> Nat] : f[0] = 0 /\ \A k \in 1..q : f[k] = F[k][f[k - 1]]
  <2>1. Iterates(q, Nat, 0, F)
    BY <1>1, Iterated
  <2>. QED BY <2>1 DEF Iterates
<1>. DEFINE P(h) == h = [k \in 0..q |-> IF k = 0 THEN 0 ELSE h[k - 1] + Estimate[slots[p[k]]]]
            h0 == CHOOSE h : P(h)
<1>3. \A k \in 1..q : Time[p[k]] = Estimate[slots[p[k]]] /\ Time[p[k]] \in Nat
  BY DEF Time
<1>4. P(f)
  <2>1. ASSUME NEW k \in 0..q PROVE f[k] = IF k = 0 THEN 0 ELSE f[k - 1] + Estimate[slots[p[k]]]
    <3>1. CASE k = 0
      BY <1>2, <3>1
    <3>2. CASE k # 0
      <4>1. k \in 1..q /\ k - 1 \in 0..q
        BY <3>2
      <4>2. PICK v \in Nat : v = f[k - 1] /\ f[k] = F[k][v]
        BY <1>2, <4>1
      <4>3. F[k][v] = v + Time[p[k]]
        BY <1>1, <4>1
      <4>. QED BY <1>3, <3>2, <4>1, <4>2, <4>3
    <3>. QED BY <3>1, <3>2
  <2>2. f = [k \in 0..q |-> f[k]]
    OBVIOUS
  <2>. QED BY <2>1, <2>2
<1>5. Total(p) = h0[q]
  <2>1. Len(p) = q
    OBVIOUS
  <2>. QED BY <2>1 DEF Total
<1>6. P(h0)
  BY <1>4
<1>. HIDE DEF h0
<1>7. 0 \in 0..q /\ h0[0] = 0 /\ h0 = [k \in 0..q |-> h0[k]]
  BY <1>6
<1>8. ASSUME NEW k \in 1..q PROVE h0[k] = h0[k - 1] + Time[p[k]]
  <2>1. k \in 0..q /\ k # 0
    OBVIOUS
  <2>2. h0[k] = h0[k - 1] + Estimate[slots[p[k]]]
    BY <1>6, <2>1
  <2>. QED BY <1>3, <2>2
<1>. HIDE DEF P
<1>. DEFINE N == {k \in Nat : k <= q => h0[k] \in Nat}
<1>9. 0 \in N
  BY <1>7
<1>10. ASSUME NEW k \in Nat, k \in N PROVE k + 1 \in N
  <2>. SUFFICES ASSUME k + 1 <= q PROVE h0[k + 1] \in Nat
    OBVIOUS
  <2>1. PICK j \in 1..q : j = k + 1 /\ j - 1 = k
    OBVIOUS
  <2>2. h0[k] \in Nat
    BY <1>10
  <2>3. h0[j] = h0[k] + Time[p[j]] /\ Time[p[j]] \in Nat
    BY <1>3, <1>8, <2>1
  <2>4. PICK a \in Nat, b \in Nat : h0[j] = a + b
    BY <2>2, <2>3
  <2>5. a + b \in Nat
    OBVIOUS
  <2>. QED BY <2>1, <2>4, <2>5
<1>11. ASSUME NEW k \in 0..q PROVE h0[k] \in Nat
  <2>. HIDE DEF N
  <2>1. k \in Nat
    OBVIOUS
  <2>2. k \in N
    BY <1>9, <1>10, <2>1, NumberSteps
  <2>. QED BY <2>2 DEF N
<1>12. h0 \in [0..q -> Nat]
  BY <1>7, <1>11
<1>. QED BY <1>5, <1>7, <1>8, <1>12 DEF Sums

\* critical_path's trace, followed back from where it takes longest to get to.
LEMMA CriticalPathTraced ==
  ASSUME GraphInv, NEW n \in Nat, Places = 1..n, Len(slots) = n, n # 0
  PROVE  Traced(CriticalPath, n, n, Time, Priors, Distance, BestOf(Distance, 1..n)) /\ BestOf(Distance, 1..n) \in 1..n
<1>. DEFINE d == Distance
            top == BestOf(d, 1..n)
            D == {p \in Seq(1..n) : \E k \in Nat : Traced(p, k, n, Time, Priors, d, top)}
<1>1. Time \in [1..n -> Nat] /\ Priors \in [1..n -> SUBSET (1..n)]
  <2>1. PICK m \in Nat : /\ Places = 1..m /\ Len(slots) = m
                         /\ Time \in [1..m -> Nat] /\ Priors \in [1..m -> SUBSET (1..m)]
    BY GraphFounded
  <2>. QED BY <2>1
<1>2. d \in [1..n -> Nat] /\ Solves(d, Time, Priors, 1..n)
  BY DistanceSolves
<1>. HIDE DEF d
<1>3. top \in 1..n
  <2>1. PICK S \in SUBSET (1..n) : S = 1..n /\ S # {}
    <3>1. 1 \in 1..n
      OBVIOUS
    <3>. QED BY <3>1
  <2>2. \A k \in S : d[k] \in Nat
    BY <1>2, <2>1
  <2>. QED BY <2>1, <2>2, BestIsBest
<1>. HIDE DEF top
<1>4. Traced(<<top>>, 0, n, Time, Priors, d, top)
  BY <1>3 DEF Traced
<1>5. ASSUME NEW k \in Nat, NEW p, Traced(p, k, n, Time, Priors, d, top)
      PROVE  Traced(Extended(p, Priors, d), k + 1, n, Time, Priors, d, top)
  BY <1>1, <1>2, <1>5, TraceExtends
<1>6. \A p \in D : Extended(p, Priors, d) \in D
  <2>. SUFFICES ASSUME NEW p \in D PROVE Extended(p, Priors, d) \in D
    OBVIOUS
  <2>1. PICK k \in Nat : Traced(p, k, n, Time, Priors, d, top)
    OBVIOUS
  <2>2. Traced(Extended(p, Priors, d), k + 1, n, Time, Priors, d, top) /\ k + 1 \in Nat
    BY <1>5, <2>1
  <2>3. Extended(p, Priors, d) \in Seq(1..n)
    BY <2>2 DEF Traced
  <2>. QED BY <2>2, <2>3
<1>7. <<top>> \in D /\ \A p \in D : p[1] \in 1..n
  <2>1. <<top>> \in D
    BY <1>3, <1>4
  <2>2. ASSUME NEW p \in D PROVE p[1] \in 1..n
    <3>1. p \in Seq(1..n) /\ p # <<>>
      BY DEF Traced
    <3>. QED BY <3>1
  <2>. QED BY <2>1, <2>2
<1>. DEFINE before(i) == {j \in Predecessors(i) : d[j] > 0}
            Step(p) == IF before(p[1]) = {} THEN p ELSE <<BestOf(d, before(p[1]))>> \o p
            P(h) == h = [k \in 0 .. Len(slots) |-> IF k = 0 THEN <<BestOf(d, Places)>> ELSE Step(h[k - 1])]
            h0 == CHOOSE h : P(h)
<1>8. CriticalPath = h0[Len(slots)]
  BY DEF CriticalPath, d
<1>9. ASSUME NEW p, p[1] \in 1..n PROVE Step(p) = Extended(p, Priors, d)
  BY <1>9 DEF Extended, Earlier, Priors
<1>10. BestOf(d, Places) = top
  BY DEF top
<1>. HIDE DEF D, Step
<1>11. PICK F \in [1..n -> [D -> D]] : \A k \in 1..n, p \in D : F[k][p] = Extended(p, Priors, d)
  <2>1. [k \in 1..n |-> [p \in D |-> Extended(p, Priors, d)]] \in [1..n -> [D -> D]]
    BY <1>6
  <2>. QED BY <2>1
<1>12. PICK f \in [0..n -> D] : f[0] = <<top>> /\ \A k \in 1..n : f[k] = F[k][f[k - 1]]
  <2>1. Iterates(n, D, <<top>>, F)
    BY <1>7, <1>11, Iterated
  <2>. QED BY <2>1 DEF Iterates
<1>13. P(f)
  <2>1. ASSUME NEW k \in 0..n PROVE f[k] = IF k = 0 THEN <<top>> ELSE Step(f[k - 1])
    <3>1. CASE k = 0
      BY <1>12, <3>1
    <3>2. CASE k # 0
      <4>1. k \in 1..n /\ k - 1 \in 0..n
        BY <3>2
      <4>2. PICK p \in D : p = f[k - 1] /\ f[k] = F[k][p]
        BY <1>12, <4>1
      <4>3. F[k][p] = Extended(p, Priors, d) /\ Step(p) = Extended(p, Priors, d)
        BY <1>7, <1>9, <1>11, <4>1
      <4>. QED BY <3>2, <4>2, <4>3
    <3>. QED BY <3>1, <3>2
  <2>2. f = [k \in 0..n |-> f[k]]
    OBVIOUS
  <2>. QED BY <1>10, <2>1, <2>2
<1>14. P(h0)
  BY <1>13
<1>. HIDE DEF h0
<1>15. h0[0] = <<top>> /\ \A k \in Nat : k + 1 <= n => h0[k + 1] = Step(h0[k])
  <2>1. h0[0] = <<top>>
    <3>1. 0 \in 0 .. Len(slots)
      OBVIOUS
    <3>. QED BY <1>10, <1>14, <3>1
  <2>2. ASSUME NEW k \in Nat, k + 1 <= n PROVE h0[k + 1] = Step(h0[k])
    <3>1. k + 1 \in 0 .. Len(slots) /\ k + 1 # 0 /\ (k + 1) - 1 = k
      BY <2>2
    <3>. QED BY <1>14, <3>1
  <2>. QED BY <2>1, <2>2
<1>. HIDE DEF P
<1>. DEFINE N == {k \in Nat : k <= n => Traced(h0[k], k, n, Time, Priors, d, top)}
<1>16. 0 \in N
  BY <1>4, <1>15
<1>17. ASSUME NEW k \in Nat, k \in N PROVE k + 1 \in N
  <2>. SUFFICES ASSUME k + 1 <= n PROVE Traced(h0[k + 1], k + 1, n, Time, Priors, d, top)
    OBVIOUS
  <2>1. PICK p : p = h0[k] /\ Traced(p, k, n, Time, Priors, d, top)
    BY <1>17
  <2>2. p[1] \in 1..n
    <3>1. p \in Seq(1..n) /\ p # <<>>
      BY <2>1 DEF Traced
    <3>. QED BY <3>1
  <2>3. h0[k + 1] = Extended(p, Priors, d)
    BY <1>9, <1>15, <2>1, <2>2
  <2>. QED BY <1>5, <2>1, <2>3
<1>. HIDE DEF N
<1>18. n \in N
  BY <1>16, <1>17, NumberSteps
<1>19. Traced(h0[n], n, n, Time, Priors, d, top)
  BY <1>18 DEF N
<1>. QED BY <1>3, <1>8, <1>19 DEF d, top

LEMMA GraphInvLongest == GraphInv => CriticalPathLongest
<1>. SUFFICES ASSUME GraphInv, slots # <<>>
              PROVE  CriticalPath \in Paths /\ \A p \in Paths : Total(p) <= Total(CriticalPath)
  BY DEF CriticalPathLongest
<1>1. PICK n \in Nat : /\ Places = 1..n /\ Len(slots) = n
                       /\ Time \in [1..n -> Nat] /\ Priors \in [1..n -> SUBSET (1..n)] /\ Founded(Priors, n)
  BY GraphFounded
<1>2. n # 0
  <2>1. slots \in Seq(NodeIds)
    BY DEF GraphInv, GraphKept
  <2>. QED BY <1>1, <2>1
<1>. DEFINE d == Distance
            top == BestOf(d, 1..n)
            c == CriticalPath
<1>3. d \in [1..n -> Nat] /\ Solves(d, Time, Priors, 1..n)
  BY <1>1, DistanceSolves
<1>4. Traced(c, n, n, Time, Priors, d, top) /\ top \in 1..n
  BY <1>1, <1>2, CriticalPathTraced
<1>5. \A k \in 1..n : d[k] <= d[top]
  <2>1. PICK S \in SUBSET (1..n) : S = 1..n /\ S # {}
    BY <1>4
  <2>2. \A k \in S : d[k] \in Nat
    BY <1>3, <2>1
  <2>. HIDE DEF d
  <2>. QED BY <2>1, <2>2, BestIsBest
<1>. HIDE DEF d, top, c
<1>6. PICK q \in 1..n : /\ q = Len(c) /\ c \in [1..q -> 1..n] /\ c[q] = top
                        /\ \A j \in 1..(q - 1) : c[j] \in Priors[c[j + 1]]
                        /\ \A s \in [0..q -> Nat] : Sums(s, q, Time, c) => s[q] = d[top]
  <2>1. LongestTo(c, n, Time, Priors, d, top)
    BY <1>1, <1>3, <1>4, TraceLongest
  <2>. QED BY <2>1 DEF LongestTo
<1>7. \A i, j \in Places : j \in Successors(i) <=> i \in Priors[j]
  BY Arrows DEF Priors
<1>8. c \in Paths
  <2>1. ASSUME NEW k \in 1 .. Len(c) - 1 PROVE c[k + 1] \in Successors(c[k])
    <3>1. k \in 1..(q - 1) /\ k \in 1..q /\ k + 1 \in 1..q
      BY <1>6
    <3>2. c[k] \in Places /\ c[k + 1] \in Places /\ c[k] \in Priors[c[k + 1]]
      BY <1>1, <1>6, <3>1
    <3>. QED BY <1>7, <3>2
  <2>2. q \in 1 .. Len(slots) /\ c \in [1 .. q -> Places]
    BY <1>1, <1>6
  <2>. QED BY <2>1, <2>2 DEF Paths
<1>9. Total(c) = d[top]
  <2>1. PICK s \in [0..q -> Nat] : Sums(s, q, Time, c) /\ Total(c) = s[q]
    <3>1. Places = 1..n /\ Time \in [1..n -> Nat] /\ q \in Nat /\ c \in [1..q -> 1..n]
      BY <1>1, <1>6
    <3>. HIDE DEF Places
    <3>. QED BY <3>1, TotalSums
  <2>. QED BY <1>6, <2>1
<1>10. ASSUME NEW p \in Paths PROVE Total(p) <= d[top]
  <2>1. PICK r \in 1 .. n : p \in [1 .. r -> 1..n]
    BY <1>1 DEF Paths
  <2>2. Len(p) = r /\ r \in Nat /\ r # 0
    BY <2>1
  <2>3. ASSUME NEW k \in 1..(r - 1) PROVE p[k] \in Priors[p[k + 1]]
    <3>1. p[k + 1] \in Successors(p[k])
      BY <2>2 DEF Paths
    <3>2. p[k] \in Places /\ p[k + 1] \in Places
      BY <1>1, <2>1
    <3>. QED BY <1>7, <3>1, <3>2
  <2>4. PICK s \in [0..r -> Nat] : Sums(s, r, Time, p) /\ Total(p) = s[r]
    BY <1>1, <2>1, <2>2, TotalSums
  <2>5. s[r] <= d[p[r]]
    BY <1>1, <1>3, <2>1, <2>2, <2>3, <2>4, SumsBounded
  <2>6. p[r] \in 1..n /\ s[r] \in Nat
    BY <2>1, <2>2
  <2>7. d[p[r]] <= d[top] /\ d[p[r]] \in Nat /\ d[top] \in Nat
    BY <1>3, <1>4, <1>5, <2>6
  <2>. QED BY <2>4, <2>5, <2>6, <2>7
<1>. QED BY <1>8, <1>9, <1>10 DEF c

-----------------------------------------------------------------------------
(***************************************************************************)
(* Whatever edits made the graph, the index finds every node, dependencies *)
(* are the sources of edges and there is no cycle; a plan's waves are      *)
(* within the limit, in order and leave nothing out; critical_path returns *)
(* a path that none takes longer than; walks return what can be reached,   *)
(* each node once: for all nodes, limits, orders and durations.            *)
(***************************************************************************)
THEOREM DesignStaysSound == DesignSpec => []DesignSound
<1>1. DesignInit => GraphInv /\ WalkInv /\ PlanInv
  <2>. SUFFICES ASSUME DesignInit PROVE GraphInv /\ WalkInv /\ PlanInv
    OBVIOUS
  <2>1. slots = <<>> /\ states = <<>> /\ walk = NoWalk /\ plan = NoPlan
    BY DEF DesignInit
  <2>2. <<>> \in [{} -> PlanStates] /\ DOMAIN <<>> = {}
    OBVIOUS
  <2>. QED BY <2>1, <2>2, GraphStarts DEF WalkInv, PlanInv, Places
<1>2. GraphInv /\ WalkInv /\ PlanInv /\ [BuildNext \/ ShrinkNext \/ PlanNext \/ WalkNext]_designVars
        => GraphInv' /\ WalkInv' /\ PlanInv'
  BY GraphInvStep, WalkInvStep, PlanInvStep
<1>3. GraphInv /\ WalkInv /\ PlanInv => DesignSound
  BY GraphInvFaithful, PlanInvSound, GraphInvLongest, WalkInvVisits DEF DesignSound
<1>. QED BY <1>1, <1>2, <1>3, PTL DEF DesignSpec
=============================================================================
