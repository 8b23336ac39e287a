---------------------------- MODULE MessageRouter ----------------------------
(***************************************************************************)
(* The DDAL router: routes per agent, subscribers per topic, and the choice *)
(* of one agent out of a group. Each map entry is changed under its own    *)
(* lock, but a topic that has become empty is removed in a second step,    *)
(* and deregistering an agent walks the topics one by one.                 *)
(***************************************************************************)
EXTENDS Integers, FiniteSets, Sequences, SequencesExt, Maps

CONSTANTS
  RouteAgents,   \* agents that can be routed to
  Topics,        \* topic names
  RouterTasks,   \* callers of unsubscribe and deregister_agent
  RouteChannels, \* channels a route may use
  Priorities,    \* priorities of routes; the load of a route is one of them too
  Nobody         \* no route

RouteEntries ==
  [agent : RouteAgents, chan : RouteChannels, priority : Priorities, load : Priorities]

ASSUME RouterAssumption == Priorities \subseteq Nat /\ Nobody \notin RouteEntries

VARIABLES
  routes,       \* per agent with routes, its RouteEntry list
  topics,       \* per topic, its subscribers in order of arrival
  routerCall,   \* per task, the removal it is in
  rrCounter,    \* rr_counter, modulo the size of a group
  picked,       \* the group, the strategy and the result of the last selection
  departed      \* history: agents deregistered and not named by a call since

routerVars == <<routes, topics, routerCall, rrCounter, picked, departed>>

BalancingStrategies == {"RoundRobin", "LeastLoaded"}
NoRouterCall == [step |-> "idle", agent |-> Nobody, visit |-> {}, empty |-> {}]

RouterInit ==
  /\ routes = EmptyMap /\ topics = EmptyMap
  /\ routerCall = [t \in RouterTasks |-> NoRouterCall]
  /\ rrCounter = 0
  /\ picked = [group |-> <<>>, strategy |-> "RoundRobin", route |-> Nobody]
  /\ departed = {}

-----------------------------------------------------------------------------
(* Routes *)

\* A route over a channel that is already known replaces the old one.
Inserted(list, r) ==
  IF \E i \in DOMAIN list : list[i].chan = r.chan
  THEN [i \in DOMAIN list |-> IF list[i].chan = r.chan THEN r ELSE list[i]]
  ELSE Append(list, r)

RegisterRoute(r) ==
  /\ routes' = Put(routes, r.agent,
                   Inserted(IF r.agent \in DOMAIN routes THEN routes[r.agent] ELSE <<>>, r))
  /\ departed' = departed \ {r.agent}
  /\ UNCHANGED <<topics, routerCall, rrCounter, picked>>

\* remove_route and evict_stale: what is left of an agent's routes, and no
\* entry for an agent without one.
Pruned(a, left) == IF left = <<>> THEN Drop(routes, a) ELSE Put(routes, a, left)

RemoveRoutes(a, chans) ==
  LET left == {i \in DOMAIN routes[a] : routes[a][i].chan \notin chans} IN
  /\ a \in DOMAIN routes
  /\ \E old \in [1..Cardinality(left) -> left] :
       /\ \A i, j \in DOMAIN old : i < j => old[i] < old[j]
       /\ routes' = Pruned(a, [i \in DOMAIN old |-> routes[a][old[i]]])
  /\ UNCHANGED <<topics, routerCall, rrCounter, picked, departed>>

\* min_by_key keeps the first of the smallest.
FirstMin(list, key) ==
  list[CHOOSE i \in DOMAIN list :
         /\ \A j \in DOMAIN list : key[i] <= key[j]
         /\ \A j \in DOMAIN list : j < i => key[i] < key[j]]

BestRoute(a) ==
  IF a \in DOMAIN routes
  THEN FirstMin(routes[a], [i \in DOMAIN routes[a] |-> routes[a][i].priority]) ELSE Nobody

\* multicast, and broadcast and resolve_topic through it: the best route of
\* each target that has one, at its place.
Multicast(targets) ==
  [i \in {j \in DOMAIN targets : targets[j] \in DOMAIN routes} |-> BestRoute(targets[i])]

-----------------------------------------------------------------------------
(* Choosing one of a group *)

\* Mutant: the first route of the group is taken whatever its load.
LeastLoaded_First(group) ==
  LET offers == Multicast(group)
  IN IF DOMAIN offers = {} THEN Nobody ELSE FirstMin(offers, [i \in DOMAIN offers |-> 0])

LeastLoaded(group) ==
  LET offers == Multicast(group)
  IN IF DOMAIN offers = {} THEN Nobody ELSE FirstMin(offers, [i \in DOMAIN offers |-> offers[i].load])

Chosen(group, strategy) ==
  IF strategy = "LeastLoaded" THEN LeastLoaded(group)
  ELSE BestRoute(group[(rrCounter % Len(group)) + 1])

SelectFromGroup(group, strategy) ==
  /\ picked' = [group |-> group, strategy |-> strategy, route |-> Chosen(group, strategy)]
  /\ rrCounter' = IF strategy = "RoundRobin" THEN (rrCounter + 1) % Len(group) ELSE rrCounter
  /\ UNCHANGED <<routes, topics, routerCall, departed>>

-----------------------------------------------------------------------------
(* Topics *)

Subscribe(t, a) ==
  /\ topics' = Put(topics, t,
                   IF t \notin DOMAIN topics THEN <<a>>
                   ELSE IF Contains(topics[t], a) THEN topics[t] ELSE Append(topics[t], a))
  /\ departed' = departed \ {a}
  /\ UNCHANGED <<routes, routerCall, rrCounter, picked>>

\* A subscriber is listed once.
Without(a, list) ==
  LET at == {i \in DOMAIN list : list[i] = a}
  IN IF at = {} THEN list ELSE RemoveAt(list, CHOOSE i \in at : TRUE)

\* The entry's lock is let go before the empty topic is removed.
Unsubscribe(k, t, a) ==
  /\ routerCall[k] = NoRouterCall /\ t \in DOMAIN topics
  /\ topics' = [topics EXCEPT ![t] = Without(a, @)]
  /\ routerCall' = IF topics'[t] = <<>>
                   THEN [routerCall EXCEPT ![k] = [@ EXCEPT !.step = "remove", !.empty = {t}]]
                   ELSE routerCall
  /\ UNCHANGED <<routes, rrCounter, picked, departed>>

DeregisterAgent(k, a) ==
  /\ routerCall[k] = NoRouterCall
  /\ routes' = Drop(routes, a)
  /\ routerCall' = [routerCall EXCEPT ![k] =
                      [step |-> "visit", agent |-> a, visit |-> DOMAIN topics, empty |-> {}]]
  /\ departed' = departed \cup {a}
  /\ UNCHANGED <<topics, rrCounter, picked>>

\* Mutant: topics with other subscribers are left as they are.
Visited_OnlyLast(a, list) == IF list = <<a>> THEN <<>> ELSE list

Visited(a, list) == Without(a, list)

\* A topic removed since the walk began is not met; one that is new may be,
\* and its subscribers came after the walk began.
VisitTopic(k, t) ==
  LET call == routerCall[k] IN
  /\ call.step = "visit" /\ t \in call.visit
  /\ IF t \in DOMAIN topics
     THEN /\ topics' = [topics EXCEPT ![t] = Visited(call.agent, @)]
          /\ routerCall' = [routerCall EXCEPT ![k] =
               [call EXCEPT !.visit = @ \ {t},
                            !.empty = IF topics'[t] = <<>> THEN @ \cup {t} ELSE @]]
     ELSE routerCall' = [routerCall EXCEPT ![k].visit = @ \ {t}] /\ UNCHANGED topics
  /\ UNCHANGED <<routes, rrCounter, picked, departed>>

VisitEnds(k) ==
  /\ routerCall[k].step = "visit" /\ routerCall[k].visit = {}
  /\ routerCall' = [routerCall EXCEPT ![k].step = "remove"]
  /\ UNCHANGED <<routes, topics, rrCounter, picked, departed>>

RemoveTopic(k) ==
  LET call == routerCall[k] IN
  /\ call.step = "remove"
  /\ IF call.empty = {} THEN routerCall' = [routerCall EXCEPT ![k] = NoRouterCall] /\ UNCHANGED topics
     ELSE \E t \in call.empty :
            /\ topics' = Drop(topics, t)
            /\ routerCall' = [routerCall EXCEPT ![k].empty = @ \ {t}]
  /\ UNCHANGED <<routes, rrCounter, picked, departed>>

-----------------------------------------------------------------------------
RouteNext ==
  \/ \E a \in RouteAgents, c \in RouteChannels, p, l \in Priorities :
       RegisterRoute([agent |-> a, chan |-> c, priority |-> p, load |-> l])
  \/ \E a \in RouteAgents : \E cs \in SUBSET RouteChannels : RemoveRoutes(a, cs)

SelectNext ==
  \E group \in {s \in [1..2 -> RouteAgents] : s[1] # s[2]}, s \in BalancingStrategies :
    SelectFromGroup(group, s)

TopicNext ==
  \/ \E t \in Topics, a \in RouteAgents : Subscribe(t, a)
  \/ \E k \in RouterTasks :
       \/ \E a \in RouteAgents : DeregisterAgent(k, a) \/ \E t \in Topics : Unsubscribe(k, t, a)
       \/ \E t \in Topics : VisitTopic(k, t)
       \/ VisitEnds(k) \/ RemoveTopic(k)

RouterSpec == RouterInit /\ [][RouteNext \/ SelectNext \/ TopicNext]_routerVars

-----------------------------------------------------------------------------
(***************************************************************************)
(* Once deregister_agent has returned, an agent that nobody named again    *)
(* has no route and is subscribed to nothing, whatever other subscriptions *)
(* and removals ran beside the walk.                                       *)
(***************************************************************************)
DeregisteredGone ==
  \A a \in departed :
    (\A k \in RouterTasks : routerCall[k].agent # a) =>
      /\ a \notin DOMAIN routes
      /\ \A t \in DOMAIN topics : ~Contains(topics[t], a)

(***************************************************************************)
(* A least-loaded selection finds a route whenever an agent of the group   *)
(* has one, over the preferred channel of its agent, and no agent of the   *)
(* group has a preferred channel with less waiting on it; it stays the     *)
(* right answer until the routes change.                                   *)
(***************************************************************************)
LeastLoadedServes ==
  [][picked' # picked /\ picked'.strategy = "LeastLoaded" =>
       LET r == picked'.route
           offers == {BestRoute(picked'.group[i]) : i \in DOMAIN picked'.group} \ {Nobody}
       IN IF offers = {} THEN r = Nobody
          ELSE r \in offers /\ \A o \in offers : r.load <= o.load]_routerVars

(***************************************************************************)
(* The router sends nothing to agents that are gone, and the rest where    *)
(* least is waiting.                                                       *)
(***************************************************************************)
RouterSound == []DeregisteredGone /\ LeastLoadedServes
=============================================================================
