------------------------- MODULE SpecialistRouting --------------------------
(***************************************************************************)
(* The specialist router's own tables (daf-orchestrator, specialist.rs):   *)
(* manifests, load, status, the index by role and context affinities, each *)
(* a concurrent map of its own.  register_agent and deregister_agent touch *)
(* them one after the other while tasks are routed, completed and tied to  *)
(* a context.                                                              *)
(*                                                                         *)
(* A step is one operation on one map; scoring the candidates is one step. *)
(* An affinity counts in full until it has decayed.  Of a role's list only *)
(* the agents it names are kept: no operation depends on their order.      *)
(***************************************************************************)
EXTENDS Naturals, Sequences, FiniteSets

CONSTANTS
  Specialists,     \* agent ids
  Skills,          \* the capability sets a manifest may have
  RoleOrder,       \* the predefined roles, in the order they are tried
  Canonical,       \* the canonical capabilities of each role
  DefaultRole,     \* Builder
  NeedSets,        \* the capabilities a task may require
  ContextKeys,
  Administrators,  \* concurrent callers of register_agent and deregister_agent
  Unlisted,
  MaxAdmin         \* registrations and removals (a bound)

ASSUME RoleAssumption ==
  /\ \A i \in DOMAIN RoleOrder : RoleOrder[i] \in DOMAIN Canonical
  /\ DefaultRole \in DOMAIN Canonical
  /\ Unlisted \notin Skills \cup Specialists \cup Nat

VARIABLES
  skillsOf,    \* agents: the manifest of each registered agent
  loadOf,      \* load: active tasks of each agent
  statusOf,    \* status
  roleIndex,   \* role_index: agents by role
  affinities,  \* affinities that have not decayed
  admins,      \* where each administrator is
  routing,     \* the task that was routed and is not yet counted
  adminCount,
  overlapped   \* history: agents two administrators worked on at once

routingVars == <<skillsOf, loadOf, statusOf, roleIndex, affinities, admins, routing, adminCount, overlapped>>

Roles == DOMAIN Canonical
Resting == [op |-> "none", agent |-> Unlisted, skills |-> Unlisted, at |-> 0]

RoutingTypeOK ==
  /\ skillsOf \in [Specialists -> Skills \cup {Unlisted}]
  /\ loadOf \in [Specialists -> Nat \cup {Unlisted}]
  /\ statusOf \in [Specialists -> {"Idle", "Terminated", Unlisted}]
  /\ roleIndex \in [Roles -> SUBSET Specialists]
  /\ affinities \subseteq ContextKeys \X Specialists
  /\ routing \in Specialists \cup {Unlisted}
  /\ overlapped \subseteq Specialists

RoutingInit ==
  /\ skillsOf = [a \in Specialists |-> Unlisted]
  /\ loadOf = [a \in Specialists |-> Unlisted]
  /\ statusOf = [a \in Specialists |-> Unlisted]
  /\ roleIndex = [r \in Roles |-> {}]
  /\ affinities = {}
  /\ admins = [x \in Administrators |-> Resting]
  /\ routing = Unlisted
  /\ adminCount = 0
  /\ overlapped = {}

-----------------------------------------------------------------------------
(* Registration *)

\* infer_from_capabilities: the first role with the most canonical
\* capabilities, Builder when none has any.
InferredRole(skills) ==
  LET score(i) == Cardinality(Canonical[RoleOrder[i]] \cap skills)
      best == {i \in DOMAIN RoleOrder :
                 /\ score(i) > 0
                 /\ \A j \in DOMAIN RoleOrder : score(j) <= score(i) /\ (score(j) = score(i) => i <= j)}
  IN IF best = {} THEN DefaultRole ELSE RoleOrder[CHOOSE i \in best : TRUE]

Working(a) == {x \in Administrators : admins[x].agent = a}
AdminStarts(x, op, a, skills) ==
  /\ admins[x] = Resting
  /\ adminCount < MaxAdmin
  /\ adminCount' = adminCount + 1
  /\ admins' = [admins EXCEPT ![x] = [op |-> op, agent |-> a, skills |-> skills, at |-> 1]]
  /\ overlapped' = IF Working(a) = {} THEN overlapped ELSE overlapped \cup {a}

\* The index first.
RegisterSpecialist(x, a, skills) ==
  /\ AdminStarts(x, "register", a, skills)
  /\ roleIndex' = [roleIndex EXCEPT ![InferredRole(skills)] = @ \cup {a}]
  /\ UNCHANGED <<skillsOf, loadOf, statusOf, affinities, routing>>

\* The manifest first.
DeregisterSpecialist(x, a) ==
  /\ AdminStarts(x, "deregister", a, Unlisted)
  /\ skillsOf' = [skillsOf EXCEPT ![a] = Unlisted]
  /\ UNCHANGED <<loadOf, statusOf, roleIndex, affinities, routing>>

AdminGoes(x) ==
  admins' = [admins EXCEPT ![x] = IF admins[x].at = 3 THEN Resting
                                  ELSE [admins[x] EXCEPT !.at = admins[x].at + 1]]

\* Mutant: an agent is only taken out of the list of its current role.
WithoutAgent_OneRole(a, skills) ==
  [r \in Roles |-> IF r = DefaultRole THEN roleIndex[r] \ {a} ELSE roleIndex[r]]

\* Every role's list is cleaned.
WithoutAgent(a, skills) == [r \in Roles |-> roleIndex[r] \ {a}]

\* load, status and, last, the manifest.
RegisterGoesOn(x) ==
  LET a == admins[x].agent
  IN /\ admins[x].op = "register"
     /\ AdminGoes(x)
     /\ loadOf' = IF admins[x].at = 1 THEN [loadOf EXCEPT ![a] = 0] ELSE loadOf
     /\ statusOf' = IF admins[x].at = 2 THEN [statusOf EXCEPT ![a] = "Idle"] ELSE statusOf
     /\ skillsOf' = IF admins[x].at = 3 THEN [skillsOf EXCEPT ![a] = admins[x].skills] ELSE skillsOf
     /\ UNCHANGED <<roleIndex, affinities, routing, adminCount, overlapped>>

\* load, status and, last, the index.
DeregisterGoesOn(x) ==
  LET a == admins[x].agent
  IN /\ admins[x].op = "deregister"
     /\ AdminGoes(x)
     /\ loadOf' = IF admins[x].at = 1 THEN [loadOf EXCEPT ![a] = Unlisted] ELSE loadOf
     /\ statusOf' = IF admins[x].at = 2 THEN [statusOf EXCEPT ![a] = Unlisted] ELSE statusOf
     /\ roleIndex' = IF admins[x].at = 3 THEN WithoutAgent(a, skillsOf[a]) ELSE roleIndex
     /\ UNCHANGED <<skillsOf, affinities, routing, adminCount, overlapped>>

\* update_status: inserts, for an agent that is gone as well.
ReportStatus(a) ==
  /\ statusOf' = [statusOf EXCEPT ![a] = "Terminated"]
  /\ UNCHANGED <<skillsOf, loadOf, roleIndex, affinities, admins, routing, adminCount, overlapped>>

-----------------------------------------------------------------------------
(* Routing *)

\* 0.3 of one over the active tasks and itself, or half of that for an agent
\* without an entry, and 0.2 for an affinity, in parts of 1200.
LoadScore(a) == IF loadOf[a] = Unlisted THEN 180 ELSE 360 \div (1 + loadOf[a])
RoutingScore(a, key) == LoadScore(a) + (IF <<key, a>> \in affinities THEN 240 ELSE 0)

\* Required capabilities are constraints, not hints.
Eligible(needs) ==
  {a \in Specialists : skillsOf[a] # Unlisted /\ needs \subseteq skillsOf[a] /\ statusOf[a] # "Terminated"}

RouteTask(needs, key) ==
  /\ routing = Unlisted
  /\ \E a \in Eligible(needs) :
       /\ \A b \in Eligible(needs) : RoutingScore(b, key) <= RoutingScore(a, key)
       /\ routing' = a
  /\ UNCHANGED <<skillsOf, loadOf, statusOf, roleIndex, affinities, admins, adminCount, overlapped>>

\* The load of the winner, if it still has an entry.
CountRouted ==
  /\ routing # Unlisted
  /\ loadOf' = [loadOf EXCEPT ![routing] = IF @ = Unlisted THEN @ ELSE @ + 1]
  /\ routing' = Unlisted
  /\ UNCHANGED <<skillsOf, statusOf, roleIndex, affinities, admins, adminCount, overlapped>>

\* record_task_completion: never below zero.
RecordCompletion(a) ==
  /\ loadOf[a] \notin {Unlisted, 0}
  /\ loadOf' = [loadOf EXCEPT ![a] = @ - 1]
  /\ UNCHANGED <<skillsOf, statusOf, roleIndex, affinities, admins, routing, adminCount, overlapped>>

RecordAffinity(a, key) ==
  /\ affinities' = affinities \cup {<<key, a>>}
  /\ UNCHANGED <<skillsOf, loadOf, statusOf, roleIndex, admins, routing, adminCount, overlapped>>

\* Time passes; the entries stay, and count for nothing.
AffinityDecays ==
  /\ affinities # {}
  /\ affinities' = {}
  /\ UNCHANGED <<skillsOf, loadOf, statusOf, roleIndex, admins, routing, adminCount, overlapped>>

RoutingNext ==
  \/ \E x \in Administrators, a \in Specialists :
       (\E skills \in Skills : RegisterSpecialist(x, a, skills)) \/ DeregisterSpecialist(x, a)
  \/ \E x \in Administrators : RegisterGoesOn(x) \/ DeregisterGoesOn(x)
  \/ \E a \in Specialists : ReportStatus(a) \/ RecordCompletion(a) \/ \E key \in ContextKeys : RecordAffinity(a, key)
  \/ \E needs \in NeedSets, key \in ContextKeys : RouteTask(needs, key)
  \/ CountRouted \/ AffinityDecays

RoutingSpec == RoutingInit /\ [][RoutingNext]_routingVars

-----------------------------------------------------------------------------
(* Properties *)

\* agents_for_role.
AgentsForRole(r) == roleIndex[r]

(***************************************************************************)
(* When nobody is working on an agent, the router's tables agree on it: it *)
(* has a manifest, a load entry and a place in the index of its role, or   *)
(* none of them, whatever was routed to it, reported of it and completed   *)
(* while it was registered or removed.  Only two administrators that work  *)
(* on one agent at once can leave it half registered.                      *)
(***************************************************************************)
TablesAgree ==
  \A a \in Specialists : Working(a) = {} /\ a \notin overlapped =>
    IF skillsOf[a] = Unlisted
    THEN loadOf[a] = Unlisted /\ \A r \in Roles : a \notin AgentsForRole(r)
    ELSE loadOf[a] # Unlisted /\ a \in AgentsForRole(InferredRole(skillsOf[a]))

(***************************************************************************)
(* The tables of the router tell the same of every agent.                  *)
(***************************************************************************)
RoutingSound == RoutingTypeOK /\ TablesAgree
=============================================================================
