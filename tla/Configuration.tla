--------------------------- MODULE Configuration ---------------------------
(***************************************************************************)
(* The pieces of daf-configure a play is run with: layered variables with  *)
(* their precedence, the inventory they come from, conditions, the built-in*)
(* modules and what they report as changed, the handlers tasks notify, and *)
(* the resolution of role dependencies. The loop that runs the tasks of a  *)
(* play is not in the code; the caller applies what a module reports.      *)
(***************************************************************************)
EXTENDS Integers, FiniteSets, Sequences, SequencesExt, Maps

CONSTANTS
  VarKeys, VarValues,
  MaxPushes,     \* bound on the variables pushed or set
  Inventory,     \* groups: members, children, vars; agents: vars
  PlayTasks,     \* tasks: module, when, what they set, remove and notify
  Handlers,      \* handlers in definition order: name and listen
  RoleNames      \* names roles may have or depend on

ASSUME ConfigurationAssumption == MaxPushes \in Nat /\ Handlers \in Seq(Range(Handlers))

VARIABLES
  layers,        \* VarManager.layers, lowest precedence first
  pushes,        \* history: number of the latest push or set
  config,        \* what the caller has applied to the agent
  lastTask,      \* the task executed last, what it reported, nothing applied since
  pending,       \* HandlerChain.pending
  notified,      \* history: notifications since the last flush
  flushed,       \* history: what the last flush returned, and for which notifications
  resolution     \* resolve_dependency_order: graph, roles left, stack, order

configurationVars == <<layers, pushes, config, lastTask, pending, notified, flushed, resolution>>
variableVars == <<layers, pushes>>
taskVars == <<config, lastTask>>
handlerVars == <<pending, notified, flushed>>

Scopes == 0 .. 5      \* Global, RoleDefault, Role, Play, Agent, Task
AgentScope == 4
NoTask == [module |-> "none"]
NoResolution == [status |-> "idle", graph |-> EmptyMap, rest |-> <<>>, stack |-> <<>>, order |-> <<>>]

ConfigurationInit ==
  /\ layers = <<>> /\ pushes = 0
  /\ config = EmptyMap /\ lastTask = NoTask
  /\ pending = {} /\ notified = {} /\ flushed = [ran |-> <<>>, for |-> {}]
  /\ resolution = NoResolution

-----------------------------------------------------------------------------
(* Variables. A value carries the number of the push or set that stored it.*)

\* Mutant: the new layer stays where it was pushed.
PushedLayer_Unsorted(ls, layer) == Append(ls, layer)

\* A stable sort by scope.
PushedLayer(ls, layer) ==
  SelectSeq(ls, LAMBDA l : l.scope <= layer.scope) \o <<layer>>
    \o SelectSeq(ls, LAMBDA l : l.scope > layer.scope)

Stamped(values) == [k \in DOMAIN values |-> [value |-> values[k], at |-> pushes + 1]]

PushLayer(scope, values) ==
  /\ pushes < MaxPushes
  /\ layers' = PushedLayer(layers, [scope |-> scope, values |-> Stamped(values)])
  /\ pushes' = pushes + 1
  /\ UNCHANGED <<taskVars, handlerVars, resolution>>

PopScope(scope) ==
  /\ layers' = SelectSeq(layers, LAMBDA l : l.scope # scope)
  /\ UNCHANGED <<pushes, taskVars, handlerVars, resolution>>

OfScope(scope) == {i \in DOMAIN layers : layers[i].scope = scope}

\* Into the latest layer of the scope; register_result sets at the task scope.
SetVar(scope, key, value) ==
  LET one == Stamped([k \in {key} |-> value])
      at == IF OfScope(scope) = {} THEN 0 ELSE CHOOSE i \in OfScope(scope) : \A j \in OfScope(scope) : j <= i
  IN
  /\ pushes < MaxPushes
  /\ layers' = IF at = 0 THEN PushedLayer(layers, [scope |-> scope, values |-> one])
               ELSE [layers EXCEPT ![at].values = Put(@, key, one[key])]
  /\ pushes' = pushes + 1
  /\ UNCHANGED <<taskVars, handlerVars, resolution>>

Defining(key) == {i \in DOMAIN layers : key \in DOMAIN layers[i].values}
GetVar(key) == layers[CHOOSE i \in Defining(key) : \A j \in Defining(key) : j <= i].values[key]
Merged == [k \in {k \in VarKeys : Defining(k) # {}} |-> GetVar(k).value]

-----------------------------------------------------------------------------
(* The inventory *)

\* Groups reached through children; a group seen before is not entered again.
GroupsUnder(g) ==
  {h \in DOMAIN Inventory.groups :
     \A S \in SUBSET DOMAIN Inventory.groups :
       g \in S /\ (\A x \in S : Inventory.groups[x].children \cap DOMAIN Inventory.groups \subseteq S)
       => h \in S}

ResolveGroupMembers(g) == UNION {Inventory.groups[h].members : h \in GroupsUnder(g)}

GroupsOf(a) == {g \in DOMAIN Inventory.groups : a \in ResolveGroupMembers(g)}

\* Groups are merged in the order of a hash map, the agent's own come last.
AgentVars(a) ==
  LET own == Inventory.agents[a]
      of == GroupsOf(a)
      keys == DOMAIN own \cup UNION {DOMAIN Inventory.groups[g].vars : g \in of}
  IN {f \in [keys -> VarValues] : \A k \in keys :
        IF k \in DOMAIN own THEN f[k] = own[k]
        ELSE \E g \in of : k \in DOMAIN Inventory.groups[g].vars /\ Inventory.groups[g].vars[k] = f[k]}

PushAgentVars(a) == \E f \in AgentVars(a) : PushLayer(AgentScope, f)

-----------------------------------------------------------------------------
(* Conditions *)

RECURSIVE Evaluate(_, _)
Evaluate(c, vars) ==
  CASE c.op = "Always" -> TRUE
    [] c.op = "Equals" -> c.key \in DOMAIN vars /\ vars[c.key] = c.value
    [] c.op = "NotEquals" -> c.key \in DOMAIN vars => vars[c.key] # c.value
    [] c.op = "Defined" -> c.key \in DOMAIN vars
    [] c.op = "Undefined" -> c.key \notin DOMAIN vars
    [] c.op = "And" -> \A d \in c.of : Evaluate(d, vars)
    [] c.op = "Or" -> \E d \in c.of : Evaluate(d, vars)
    [] c.op = "Not" -> ~Evaluate(c.inner, vars)
    [] c.op = "Differs" -> c.key \in DOMAIN vars /\ vars[c.key] # c.value

-----------------------------------------------------------------------------
(* Modules: the keys a task would change *)

\* A template renders a variable; one that is not defined is left as it is.
Rendered(t) == IF t.src \in DOMAIN Merged THEN Merged[t.src] ELSE "unresolved"

Desired(t) == IF t.module = "template" THEN [k \in {t.dest} |-> Rendered(t)] ELSE t.set

\* Mutant: what is to be set counts as changed whatever is there.
ConfigChanges_AlwaysSet(t) == DOMAIN Desired(t) \cup (t.remove \cap DOMAIN config)

\* config, capability, health, memory entries and templates compare.
ConfigChanges(t) ==
  {k \in DOMAIN Desired(t) : k \notin DOMAIN config \/ config[k] # Desired(t)[k]}
    \cup (t.remove \cap DOMAIN config)

\* Channels, cleared tags and commands do not.
Changed(t) ==
  CASE t.module \in {"config", "capability", "health", "memory", "template"} ->
         ConfigChanges(t) # {} \/ t.clearTags # {}
    [] t.module = "channel" -> DOMAIN t.set \cup t.remove # {}
    [] t.module = "command" -> /\ t.creates \cap DOMAIN config = {}
                               /\ t.removes \subseteq DOMAIN config

AppliedConfig(t) ==
  LET left == DOMAIN config \ t.remove
  IN [k \in left \cup DOMAIN Desired(t) |-> IF k \in DOMAIN Desired(t) THEN Desired(t)[k] ELSE config[k]]

Notifies(t) == IF Changed(t) THEN t.notify ELSE {}

\* HandlerChain.notify: every handler with the name, or listening to it.
Indexed(n) == {h.name : h \in {h \in Range(Handlers) : h.name = n \/ n \in h.listen}}

Execute(t) ==
  /\ Evaluate(t.when, Merged)
  /\ lastTask' = [task |-> t, again |-> lastTask # NoTask /\ lastTask.task = t, changed |-> Changed(t)]
  /\ config' = IF Changed(t) THEN AppliedConfig(t) ELSE config
  /\ pending' = pending \cup UNION {Indexed(n) : n \in Notifies(t)}
  /\ notified' = notified \cup Notifies(t)
  /\ UNCHANGED <<variableVars, flushed, resolution>>

\* Mutant: the handlers stay pending.
AfterFlush_Kept == pending

AfterFlush == {}

FlushHandlers ==
  /\ flushed' = [ran |-> SelectSeq(Handlers, LAMBDA h : h.name \in pending), for |-> notified]
  /\ pending' = AfterFlush /\ notified' = {}
  /\ UNCHANGED <<variableVars, taskVars, resolution>>

-----------------------------------------------------------------------------
(* Roles: depth-first, a role after what it depends on *)

ResolveBegins(graph, roles) ==
  /\ resolution.status = "idle"
  /\ resolution' = [NoResolution EXCEPT !.status = "running", !.graph = graph, !.rest = roles]
  /\ UNCHANGED <<variableVars, taskVars, handlerVars>>

OnStack(r) == \E i \in DOMAIN resolution.stack : resolution.stack[i].name = r
Visited(r) == r \in Range(resolution.order)

\* The dependencies of a role, in the order declared; of an unknown one, none.
Frames(r) ==
  IF r \in DOMAIN resolution.graph
  THEN {[name |-> r, rest |-> s] : s \in SetToSeqs(resolution.graph[r])}
  ELSE {[name |-> r, rest |-> <<>>]}

Enter(r, from) ==
  IF OnStack(r) THEN resolution' = [from EXCEPT !.status = "cyclic"]
  ELSE IF Visited(r) THEN resolution' = from
  ELSE \E f \in Frames(r) : resolution' = [from EXCEPT !.stack = Append(@, f)]

VisitRole ==
  LET r == resolution IN
  /\ r.status = "running"
  /\ IF r.stack = <<>>
     THEN IF r.rest = <<>> THEN resolution' = [r EXCEPT !.status = "done"]
          ELSE Enter(Head(r.rest), [r EXCEPT !.rest = Tail(@)])
     ELSE IF Last(r.stack).rest = <<>>
          THEN resolution' = [r EXCEPT !.order = Append(@, Last(r.stack).name), !.stack = Front(@)]
          ELSE Enter(Head(Last(r.stack).rest), [r EXCEPT !.stack[Len(r.stack)].rest = Tail(@)])
  /\ UNCHANGED <<variableVars, taskVars, handlerVars>>

-----------------------------------------------------------------------------
VariableNext ==
  \/ \E s \in Scopes, k \in VarKeys, v \in VarValues : SetVar(s, k, v) \/ PushLayer(s, [j \in {k} |-> v])
  \/ \E s \in Scopes : PopScope(s)
  \/ \E a \in DOMAIN Inventory.agents : PushAgentVars(a)

TaskNext == (\E t \in PlayTasks : Execute(t)) \/ FlushHandlers

RoleNext ==
  \/ /\ resolution = NoResolution
     /\ \E roles \in SUBSET RoleNames : \E g \in [roles -> SUBSET RoleNames] :
          \E s \in SetToSeqs(roles) : ResolveBegins(g, s)
  \/ VisitRole

ConfigurationSpec == ConfigurationInit /\ [][VariableNext \/ TaskNext \/ RoleNext]_configurationVars

-----------------------------------------------------------------------------
(***************************************************************************)
(* "Variables declared at a narrower scope shadow those at a broader       *)
(* scope", "within the same scope, later pushes win": whatever was pushed, *)
(* set and popped, the value a lookup finds is not shadowed.               *)
(***************************************************************************)
NarrowestWins ==
  \A k \in {k \in VarKeys : Defining(k) # {}} : \A i, j \in Defining(k) :
    GetVar(k) = layers[i].values[k] =>
      /\ layers[j].scope <= layers[i].scope
      /\ layers[j].scope = layers[i].scope /\ i # j => layers[j].values[k].at < GetVar(k).at

(***************************************************************************)
(* Modules are idempotent: a task of a declarative module that ran, and is *)
(* run again with nothing in between, reports no change, so it notifies no *)
(* handler again. (Channels, commands and cleared tags always report one.) *)
(***************************************************************************)
DeclarativeModulesSettle ==
  lastTask # NoTask /\ lastTask.again
    /\ lastTask.task.module \notin {"channel", "command"} /\ lastTask.task.clearTags = {}
    => ~lastTask.changed

(***************************************************************************)
(* A flush returns each handler some task notified since the last flush    *)
(* once, in definition order, and no other.                                *)
(***************************************************************************)
NotifiedRunOnce ==
  flushed.ran = SelectSeq(Handlers, LAMBDA h : flushed.for \cap ({h.name} \cup h.listen) # {})

(***************************************************************************)
(* "Every role appears after all of its dependencies", and resolution      *)
(* fails exactly for the role sets that have a cycle.                      *)
(***************************************************************************)
RolesOrdered ==
  LET r == resolution
      g == r.graph
      cyclic == \E C \in SUBSET DOMAIN g \ {{}} : \A n \in C : g[n] \cap C # {}
  IN /\ r.status = "cyclic" => cyclic
     /\ r.status = "done" =>
          /\ ~cyclic /\ DOMAIN g \subseteq Range(r.order) /\ IsInjective(r.order)
          /\ \A i \in DOMAIN r.order : r.order[i] \in DOMAIN g =>
               g[r.order[i]] \subseteq Range(SubSeq(r.order, 1, i - 1))

(***************************************************************************)
(* A play runs on the right values, in the right order, and changes        *)
(* nothing twice.                                                          *)
(***************************************************************************)
ConfigurationSound == NarrowestWins /\ DeclarativeModulesSettle /\ NotifiedRunOnce /\ RolesOrdered
=============================================================================
