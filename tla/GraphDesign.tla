---------------------------- MODULE GraphDesign ----------------------------
(***************************************************************************)
(* The execution graph of daf-graph while it is built, edited, reloaded    *)
(* and planned: ExecutionGraph keeps a petgraph, which numbers nodes by    *)
(* their place and moves the last node into the place of a removed one,    *)
(* and a map from node IDs to places that has to follow. The scheduler     *)
(* plans waves on a clone; walkers visit what can be reached.              *)
(*                                                                         *)
(* Two equal edges are one here: the code accepts both or neither.         *)
(***************************************************************************)
EXTENDS Naturals, FiniteSets, Sequences, SequencesExt, Functions, Maps

CONSTANTS
  NodeIds,      \* nodes a caller may add
  Conds,        \* the effective conditions of the edges a caller may add
  WaveLimit,    \* max_concurrency of the scheduler; its order is that of Weight
  Weight,       \* scheduling order of the nodes: by priority, then by name
  Estimate      \* estimated_duration of the nodes

\* The sort gives no two nodes the same place.
ASSUME DesignAssumption ==
  /\ WaveLimit \in Nat \ {0} /\ Weight \in [NodeIds -> Nat] /\ IsInjective(Weight)
  /\ Estimate \in [NodeIds -> Nat] /\ Conds \subseteq {"Always", "OnSuccess", "OnFailure", "OnOutput"}

VARIABLES
  slots,        \* the petgraph's nodes by place
  arcs,         \* its edges: places of source and target, condition
  deps,         \* per place, Node.dependencies
  states,       \* per place, Node.state
  indexMap,     \* ExecutionGraph.index_map
  walk,         \* a walker: what it has to visit, has visited and has returned
  plan          \* plan_waves: the clone's states, the waves planned

designVars == <<slots, arcs, deps, states, indexMap, walk, plan>>

NoWalk == [kind |-> "none"]
NoPlan == [phase |-> "none"]
Ended == {"Succeeded", "Failed", "Skipped"}

DesignInit ==
  /\ slots = <<>> /\ arcs = {} /\ deps = <<>> /\ states = <<>> /\ indexMap = EmptyMap
  /\ walk = NoWalk /\ plan = NoPlan

Places == DOMAIN slots
Into(i) == {a \in arcs : a.to = i}
OutOf(i) == {a \in arcs : a.from = i}

\* Neither a walker nor a plan survives a change: both borrow the graph.
Unobserved == walk' = NoWalk /\ plan' = NoPlan

-----------------------------------------------------------------------------
(* Building and editing *)

\* A repeated registration changes nothing.
AddNode(n) ==
  /\ n \notin DOMAIN indexMap
  /\ slots' = Append(slots, n)
  /\ deps' = Append(deps, {}) /\ states' = Append(states, "Pending")
  /\ indexMap' = Put(indexMap, n, Len(slots) + 1)
  /\ UNCHANGED arcs /\ Unobserved

Successors(i) == {a.to : a \in OutOf(i)}
Predecessors(i) == {a.from : a \in Into(i)}

\* Everything that can be reached when next gives the neighbours of a place.
Reach(i, next) ==
  LET closure[k \in 0 .. Len(slots)] ==
        IF k = 0 THEN {i} ELSE closure[k - 1] \cup UNION {next[j] : j \in closure[k - 1]}
  IN closure[Len(slots)]

Forward == [i \in Places |-> Successors(i)]
Neighbors == [i \in Places |-> Successors(i) \cup Predecessors(i)]
Descendants(i) == Reach(i, Forward) \ {i}

\* Both ends exist and the edge closes no cycle.
AddEdge(m, n, cond) ==
  LET i == indexMap[m]  j == indexMap[n] IN
  /\ {m, n} \subseteq DOMAIN indexMap
  /\ i \notin Reach(j, Forward)
  /\ arcs' = arcs \cup {[from |-> i, to |-> j, cond |-> cond]}
  /\ deps' = [deps EXCEPT ![j] = @ \cup {slots[i]}]
  /\ UNCHANGED <<slots, states, indexMap>> /\ Unobserved

\* petgraph: the last node moves to the place that is removed.
Vacated(f, i) == LET last == Len(f) IN SubSeq(IF i = last THEN f ELSE [f EXCEPT ![i] = f[last]], 1, last - 1)
Moved(j, i) == IF j = Len(slots) THEN i ELSE j

\* Mutant: the node that moved keeps its old entry.
Reindexed_Skipped(map, i) == map

Reindexed(map, i) == IF i < Len(slots) THEN Put(map, slots[Len(slots)], i) ELSE map

RemoveNode(n) ==
  LET i == indexMap[n]
      cleaned == [j \in Places |-> IF j \in Successors(i) THEN deps[j] \ {n} ELSE deps[j]]
  IN
  /\ n \in DOMAIN indexMap
  /\ slots' = Vacated(slots, i)
  /\ deps' = Vacated(cleaned, i) /\ states' = Vacated(states, i)
  /\ arcs' = {[a EXCEPT !.from = Moved(@, i), !.to = Moved(@, i)] : a \in arcs \ (Into(i) \cup OutOf(i))}
  /\ indexMap' = Reindexed(Drop(indexMap, n), i)
  /\ Unobserved

\* subgraph: the component of a node, rebuilt in the order of a hash set; the
\* caller goes on with it. to_json and from_json rebuild the whole graph.
Component(i) == Reach(i, Neighbors)

Rebuilt(kept, order) ==
  LET place == [i \in kept |-> CHOOSE k \in DOMAIN order : order[k] = i] IN
  /\ slots' = [k \in DOMAIN order |-> slots[order[k]]]
  /\ deps' = [k \in DOMAIN order |-> deps[order[k]]]
  /\ states' = [k \in DOMAIN order |-> states[order[k]]]
  /\ arcs' = {[a EXCEPT !.from = place[@], !.to = place[@]] : a \in {a \in arcs : {a.from, a.to} \subseteq kept}}
  /\ indexMap' = [n \in {slots[i] : i \in kept} |-> CHOOSE k \in DOMAIN order : slots[order[k]] = n]
  /\ Unobserved

Subgraph(n) ==
  /\ n \in DOMAIN indexMap
  /\ \E order \in SetToSeqs(Component(indexMap[n])) : Rebuilt(Component(indexMap[n]), order)

-----------------------------------------------------------------------------
(* Completion, on the graph and on the scheduler's clone *)

Fires(a, st) ==
  CASE a.cond = "Always" -> st[a.from] \in Ended
    [] a.cond = "OnSuccess" -> st[a.from] = "Succeeded"
    [] a.cond = "OnFailure" -> st[a.from] = "Failed"
    [] a.cond = "OnOutput" -> FALSE

ReadyIn(st) == {i \in DOMAIN st : st[i] = "Pending" /\ \A a \in Into(i) : Fires(a, st)}

\* Rounds of skipping, until one changes nothing.
SkipRound(st) ==
  [i \in DOMAIN st |->
     IF st[i] = "Pending" /\ \E a \in Into(i) : st[a.from] \in Ended /\ ~Fires(a, st)
     THEN "Skipped" ELSE st[i]]

SkippedIn(st) ==
  LET round[k \in 0 .. Len(st)] == IF k = 0 THEN st ELSE SkipRound(round[k - 1]) IN round[Len(st)]

Completed(st, done, as) == SkippedIn([i \in DOMAIN st |-> IF i \in done THEN as ELSE st[i]])

\* mark_complete, called for nodes that were ready.
CompleteNode(i, as) ==
  /\ i \in ReadyIn(states)
  /\ states' = Completed(states, {i}, as)
  /\ UNCHANGED <<slots, arcs, deps, indexMap>> /\ Unobserved

-----------------------------------------------------------------------------
(* plan_waves *)

PlanBegins ==
  /\ plan = NoPlan /\ slots # <<>>
  /\ plan' = [phase |-> "planning", sim |-> states, waves |-> <<>>]
  /\ UNCHANGED <<slots, arcs, deps, states, indexMap, walk>>

\* Mutant: what the limit cut off is taken for planned.
PlannedWave_Whole(ready, wave) == ready

PlannedWave(ready, wave) == wave

\* The wave is what comes first, up to the limit; the loop gives up after one
\* wave more than there are nodes.
FirstOf(ready) == {i \in ready : Cardinality({j \in ready : Weight[slots[j]] < Weight[slots[i]]}) < WaveLimit}

PlanNextWave ==
  LET ready == ReadyIn(plan.sim)
      wave == FirstOf(ready)
      waves == Append(plan.waves, wave)
  IN
  /\ plan.phase = "planning"
  /\ plan' = IF ready = {} THEN [plan EXCEPT !.phase = "planned"]
             ELSE [phase |-> IF Len(waves) > Len(slots) THEN "planned" ELSE "planning",
                   sim |-> Completed(plan.sim, PlannedWave(ready, wave), "Succeeded"), waves |-> waves]
  /\ UNCHANGED <<slots, arcs, deps, states, indexMap, walk>>

-----------------------------------------------------------------------------
(* critical_path: over the topological order, the longest path that ends at
   each node and the node before it on that path *)

\* Mutant: the best predecessor is the last one that was looked at.
BestOf_Last(dist, preds) == CHOOSE j \in preds : \A k \in preds : k <= j

BestOf(dist, preds) == CHOOSE j \in preds : \A k \in preds : dist[k] <= dist[j]

Distance ==
  LET dist[i \in Places] ==
        Estimate[slots[i]] + IF Predecessors(i) = {} THEN 0 ELSE dist[BestOf(dist, Predecessors(i))]
  IN dist

\* A predecessor at distance zero is none: the path begins after it.
CriticalPath ==
  LET dist == Distance
      before(i) == {j \in Predecessors(i) : dist[j] > 0}
      trace[k \in 0 .. Len(slots)] ==
        IF k = 0 THEN <<BestOf(dist, Places)>>
        ELSE LET p == trace[k - 1] IN
             IF before(p[1]) = {} THEN p ELSE <<BestOf(dist, before(p[1]))>> \o p
  IN trace[Len(slots)]

-----------------------------------------------------------------------------
(* Walkers *)

Walks(kind, roots, todo, visited) ==
  [kind |-> kind, roots |-> roots, todo |-> todo, visited |-> visited, out |-> <<>>]

\* The breadth-first walker marks what it queues, the depth-first one what
\* it pops.
WalkBegins(kind, roots) ==
  /\ walk = NoWalk
  /\ \E order \in SetToSeqs(roots) :
       walk' = Walks(kind, roots, order, IF kind = "bfs" THEN roots ELSE {})
  /\ UNCHANGED <<slots, arcs, deps, states, indexMap, plan>>

BreadthFirst ==
  LET i == Head(walk.todo)
      fresh == Successors(i) \ walk.visited
  IN
  /\ walk.kind = "bfs" /\ walk.todo # <<>>
  /\ \E order \in SetToSeqs(fresh) :
       walk' = [walk EXCEPT !.todo = Tail(@) \o order, !.visited = @ \cup fresh, !.out = Append(@, i)]
  /\ UNCHANGED <<slots, arcs, deps, states, indexMap, plan>>

\* Mutant: a node that was reached twice is not recognised when it is popped.
SeenBefore_Never(i) == FALSE

SeenBefore(i) == i \in walk.visited

DepthFirst ==
  LET i == Last(walk.todo) IN
  /\ walk.kind = "dfs" /\ walk.todo # <<>>
  /\ IF SeenBefore(i) THEN walk' = [walk EXCEPT !.todo = Front(@)]
     ELSE \E order \in SetToSeqs(Successors(i) \ (walk.visited \cup {i})) :
            walk' = [walk EXCEPT !.todo = Front(@) \o order, !.visited = @ \cup {i}, !.out = Append(@, i)]
  /\ UNCHANGED <<slots, arcs, deps, states, indexMap, plan>>

-----------------------------------------------------------------------------
BuildNext ==
  \/ \E n \in NodeIds : AddNode(n)
  \/ \E m, n \in NodeIds, c \in Conds : AddEdge(m, n, c)

ShrinkNext == \E n \in NodeIds : RemoveNode(n) \/ Subgraph(n)

PlanNext ==
  \/ \E i \in Places : CompleteNode(i, "Succeeded") \/ CompleteNode(i, "Failed")
  \/ PlanBegins \/ PlanNextWave

WalkNext ==
  \/ \E kind \in {"bfs", "dfs"}, roots \in (SUBSET Places) \ {{}} : WalkBegins(kind, roots)
  \/ BreadthFirst \/ DepthFirst

DesignSpec == DesignInit /\ [][BuildNext \/ ShrinkNext \/ PlanNext \/ WalkNext]_designVars

-----------------------------------------------------------------------------
(***************************************************************************)
(* "All mutations go through methods that maintain invariants (no cycles,  *)
(* consistent dependency sets)": after any edits the map finds every node  *)
(* at its place, a node's dependencies are the sources of its edges, and   *)
(* there is no cycle.                                                      *)
(***************************************************************************)
IndexFaithful ==
  /\ DOMAIN indexMap = Range(slots) /\ \A n \in DOMAIN indexMap : indexMap[n] \in Places /\ slots[indexMap[n]] = n
  /\ \A i \in Places : /\ deps[i] = {slots[j] : j \in Predecessors(i)}
                       /\ \A j \in Successors(i) : i \notin Reach(j, Forward)

(***************************************************************************)
(* A plan for a graph in any state of completion is executable and leaves  *)
(* out nothing: its waves are within the limit, a node comes after all it  *)
(* depends on, and if all succeed, no node is left that could have run.    *)
(***************************************************************************)
WavesSound ==
  plan.phase = "planned" =>
    LET waves == plan.waves IN
    /\ \A k \in DOMAIN waves : waves[k] # {} /\ Cardinality(waves[k]) <= WaveLimit
    /\ ReadyIn(plan.sim) = {}
    /\ \A i \in Places : plan.sim[i] = "Succeeded" =>
         states[i] = "Succeeded" \/ Cardinality({k \in DOMAIN waves : i \in waves[k]}) = 1
    /\ \A k \in DOMAIN waves : \A i \in waves[k] :
         /\ states[i] = "Pending"
         /\ \A j \in Predecessors(i) :
              states[j] \in Ended \/ plan.sim[j] = "Skipped" \/ \E h \in 1 .. k - 1 : j \in waves[h]

Total(path) ==
  LET sum[k \in 0 .. Len(path)] == IF k = 0 THEN 0 ELSE sum[k - 1] + Estimate[slots[path[k]]]
  IN sum[Len(path)]

Paths ==
  {p \in UNION {[1 .. k -> Places] : k \in 1 .. Len(slots)} :
     \A k \in 1 .. Len(p) - 1 : p[k + 1] \in Successors(p[k])}

(***************************************************************************)
(* critical_path returns a path of the graph and no path takes longer, for *)
(* every graph edits can make, with nodes that take no time.               *)
(***************************************************************************)
CriticalPathLongest ==
  slots # <<>> =>
    /\ CriticalPath \in Paths
    /\ \A p \in Paths : Total(p) <= Total(CriticalPath)

(***************************************************************************)
(* A walk that has ended has returned every node that can be reached from  *)
(* where it began, each one once, however many paths lead to it.           *)
(***************************************************************************)
WalkVisitsReachable ==
  walk # NoWalk /\ walk.todo = <<>> =>
    /\ IsInjective(walk.out)
    /\ Range(walk.out) = UNION {Descendants(i) \cup {i} : i \in walk.roots}

(***************************************************************************)
(* Whatever edits made the graph, its indices name the right nodes, and    *)
(* plans, critical paths and walks are those of the graph there is.        *)
(***************************************************************************)
DesignSound == IndexFaithful /\ WavesSound /\ CriticalPathLongest /\ WalkVisitsReachable
=============================================================================
