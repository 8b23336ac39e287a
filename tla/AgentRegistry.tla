---------------------------- MODULE AgentRegistry ----------------------------
(***************************************************************************)
(* The live agent registry and its health monitor: two maps, each with its *)
(* own lock. A registration and a removal change both while they hold the  *)
(* registry's lock on the agent; a sweep collects silent agents under the   *)
(* monitor's lock and removes them afterwards, one by one.                 *)
(***************************************************************************)
EXTENDS Integers, FiniteSets, Maps

CONSTANTS
  RegAgents,        \* agent ids
  Declared,         \* per agent, the capabilities its manifest declares
  Requests,         \* sets of requirements that are looked up
  AgentStatus,      \* statuses an agent is set to; it starts as "Spawning"
  Registrars,       \* callers of register, unregister and the sweep
  DegradeAfter, UnhealthyAfter, DeregisterAfter,  \* HealthConfig thresholds
  NoAgent,
  Released,         \* rank of "no pre-release tag", above every tag
  Unparsable        \* a version string that does not parse

ASSUME RegistryAssumption ==
  /\ DegradeAfter \in Nat \ {0} /\ UnhealthyAfter \in Nat /\ DeregisterAfter \in Nat
  /\ DegradeAfter <= UnhealthyAfter /\ UnhealthyAfter <= DeregisterAfter
  /\ IsFiniteSet(RegAgents) /\ NoAgent \notin RegAgents

VARIABLES
  entries,   \* registered agents, each with its status
  health,    \* tracked agents, each with its health record
  regCall,   \* per caller, the second half of its call
  swept,     \* per caller, agents its sweep still has to remove
  best       \* the last answer of best_agent and what it answered

registryVars == <<entries, health, regCall, swept, best>>

-----------------------------------------------------------------------------
(* Versions, constraints and capability sets. A version is a record of     *)
(* numbers; its pre-release tag is a rank, Released when it has none.      *)

SemVer == [major : Nat, minor : Nat, patch : Nat, pre : 1..Released]

ASSUME VersionsAssumption ==
  /\ Released \in Nat \ {0}
  /\ \A a \in RegAgents : /\ IsFiniteSet(Declared[a])
                          /\ \A c \in Declared[a] : c.version \in SemVer \cup {Unparsable}
  /\ \A reqs \in Requests : /\ IsFiniteSet(reqs)
                            /\ \A r \in reqs : r.required \in BOOLEAN /\ r.constraint.base \in SemVer

ZeroVersion == [major |-> 0, minor |-> 0, patch |-> 0, pre |-> Released]

\* Numbers first; with equal numbers a pre-release precedes the release.
Before(v, w) ==
  \/ v.major < w.major
  \/ v.major = w.major /\ v.minor < w.minor
  \/ v.major = w.major /\ v.minor = w.minor /\ v.patch < w.patch
  \/ v.major = w.major /\ v.minor = w.minor /\ v.patch = w.patch /\ v.pre < w.pre

\* Mutant: below 1.0 the minor version may change, as it may from 1.0 on.
CaretAllows_AnyMinor(base, v) ==
  /\ ~Before(v, base)
  /\ v.major = base.major

CaretAllows(base, v) ==
  /\ ~Before(v, base)
  /\ v.major = base.major
  /\ base.major = 0 => v.minor = base.minor
  /\ base.major = 0 /\ base.minor = 0 => v.patch = base.patch

TildeAllows(base, v) ==
  ~Before(v, base) /\ v.major = base.major /\ v.minor = base.minor

Satisfies(c, v) ==
  CASE c.op = "exact" -> v = c.base
    [] c.op = "gte"   -> ~Before(v, c.base)
    [] c.op = "lt"    -> Before(v, c.base)
    [] c.op = "caret" -> CaretAllows(c.base, v)
    [] c.op = "tilde" -> TildeAllows(c.base, v)
    [] c.op = "range" -> ~Before(v, c.base) /\ Before(v, c.high)
    [] c.op = "any"   -> TRUE

-----------------------------------------------------------------------------
\* A declared version that does not parse counts as 0.0.0. Two declarations
\* of one name and version leave one capability.
ParseCapabilities(declared) ==
  {[name |-> c.name,
    version |-> IF c.version = Unparsable THEN ZeroVersion ELSE c.version] : c \in declared}

\* The newest version that satisfies the requirement, as a set of at most one.
FindMatch(caps, req) ==
  LET fit == {c \in caps : c.name = req.name /\ Satisfies(req.constraint, c.version)}
  IN {c \in fit : \A d \in fit : ~Before(c.version, d.version)}

MissingRequired(caps, reqs) == {r \in reqs : r.required /\ FindMatch(caps, r) = {}}

AllRequiredMet(caps, reqs) == MissingRequired(caps, reqs) = {}

\* Required and optional scores are fractions met, the required one weighs
\* three times as much: the total, times the number of optional requirements
\* times the number of required ones, so that it is whole.
TotalScore(caps, reqs) ==
  LET required == {r \in reqs : r.required}
      optional == reqs \ required
      Met(R) == Cardinality({r \in R : FindMatch(caps, r) # {}})
      NonZero(R) == IF R = {} THEN 1 ELSE Cardinality(R)
      requiredMet == IF required = {} THEN 1 ELSE Met(required)
  IN 3 * requiredMet * NonZero(optional) + Met(optional) * NonZero(required)

-----------------------------------------------------------------------------
(* Registration and health *)

HealthStatus == {"Healthy", "Degraded", "Unhealthy", "Unknown"}
AgentHealth == [status : HealthStatus, failures : 0..DeregisterAfter, silent : BOOLEAN]

NewHealth == [status |-> "Unknown", failures |-> 0, silent |-> FALSE]
IdleCall == [step |-> "idle", agent |-> NoAgent]

RegistryInit ==
  /\ entries = EmptyMap
  /\ health = EmptyMap
  /\ regCall = [c \in Registrars |-> IdleCall]
  /\ swept = [c \in Registrars |-> {}]
  /\ best = [agent |-> NoAgent, asked |-> {}, among |-> {}]

-----------------------------------------------------------------------------
(* Registration and removal *)

\* Mutant: nobody holds the lock on an entry between the two halves of a call.
Locked_Never(a) == FALSE

Locked(a) == \E c \in Registrars : regCall[c].agent = a

Unoccupied(c) == regCall[c] = IdleCall /\ swept[c] = {}

\* The vacant entry is locked while the monitor starts to track the agent.
RegisterAgent(c, a) ==
  /\ Unoccupied(c) /\ ~Locked(a) /\ a \notin DOMAIN entries
  /\ health' = IF a \in DOMAIN health THEN health ELSE Put(health, a, NewHealth)
  /\ regCall' = [regCall EXCEPT ![c] = [step |-> "insert", agent |-> a]]
  /\ UNCHANGED <<entries, swept, best>>

InsertEntry(c) ==
  /\ regCall[c].step = "insert"
  /\ entries' = Put(entries, regCall[c].agent, "Spawning")
  /\ regCall' = [regCall EXCEPT ![c] = IdleCall]
  /\ UNCHANGED <<health, swept, best>>

\* Called for an agent, or for one that the caller's sweep has collected.
UnregisterAgent(c, a) ==
  /\ regCall[c] = IdleCall /\ (swept[c] = {} \/ a \in swept[c])
  /\ ~Locked(a) /\ a \in DOMAIN entries
  /\ health' = Drop(health, a)
  /\ regCall' = [regCall EXCEPT ![c] = [step |-> "remove", agent |-> a]]
  /\ swept' = [swept EXCEPT ![c] = @ \ {a}]
  /\ UNCHANGED <<entries, best>>

RemoveEntry(c) ==
  /\ regCall[c].step = "remove"
  /\ entries' = Drop(entries, regCall[c].agent)
  /\ regCall' = [regCall EXCEPT ![c] = IdleCall]
  /\ UNCHANGED <<health, swept, best>>

-----------------------------------------------------------------------------
(* Health *)

FromFailures(n) ==
  IF n >= UnhealthyAfter THEN "Unhealthy"
  ELSE IF n >= DegradeAfter THEN "Degraded" ELSE "Healthy"

\* Failures are counted up to the highest threshold they are compared with.
OneMore(n) == IF n < DeregisterAfter THEN n + 1 ELSE n

RecordHeartbeat(h) == [status |-> "Healthy", failures |-> 0, silent |-> FALSE]

\* Mutant: a check that reports Healthy leaves the failures counted before.
RecordCheck_KeepsFailures(h, status) ==
  [h EXCEPT !.status = status, !.failures = IF status = "Healthy" THEN h.failures ELSE OneMore(h.failures)]

RecordCheck(h, status) ==
  [h EXCEPT !.status = status, !.failures = IF status = "Healthy" THEN 0 ELSE OneMore(h.failures)]

RecordMissedHeartbeat(h) ==
  [h EXCEPT !.failures = OneMore(h.failures), !.status = FromFailures(OneMore(h.failures))]

UpdateStatus(a, status) ==
  /\ a \in DOMAIN entries /\ ~Locked(a)
  /\ entries' = [entries EXCEPT ![a] = status]
  /\ UNCHANGED <<health, regCall, swept, best>>

AgentHeartbeat(a) ==
  /\ a \in DOMAIN entries /\ ~Locked(a)
  /\ health' = IF a \in DOMAIN health
               THEN [health EXCEPT ![a] = RecordHeartbeat(@)] ELSE health
  /\ UNCHANGED <<entries, regCall, swept, best>>

CheckReported(a, status) ==
  /\ a \in DOMAIN health
  /\ health' = [health EXCEPT ![a] = RecordCheck(@, status)]
  /\ UNCHANGED <<entries, regCall, swept, best>>

\* More than heartbeat_timeout has passed since the agent's last heartbeat.
TimeoutPasses(a) ==
  /\ a \in DOMAIN health /\ ~health[a].silent
  /\ health' = [health EXCEPT ![a].silent = TRUE]
  /\ UNCHANGED <<entries, regCall, swept, best>>

Sweep(c) ==
  /\ Unoccupied(c)
  /\ health' = [a \in DOMAIN health |->
                  IF health[a].silent THEN RecordMissedHeartbeat(health[a]) ELSE health[a]]
  /\ swept' = [swept EXCEPT ![c] =
                 {a \in DOMAIN health : health[a].silent /\ health'[a].failures >= DeregisterAfter}]
  /\ UNCHANGED <<entries, regCall, best>>

\* An agent collected by the sweep has been unregistered by somebody else.
SweepPasses(c, a) ==
  /\ a \in swept[c] /\ regCall[c] = IdleCall
  /\ a \notin DOMAIN entries /\ ~Locked(a)
  /\ swept' = [swept EXCEPT ![c] = @ \ {a}]
  /\ UNCHANGED <<entries, health, regCall, best>>

ClusterHealth ==
  LET count(s) == Cardinality({a \in DOMAIN health : health[a].status = s}) IN
  CASE DOMAIN health = {} -> "Unknown"
    [] DOMAIN health # {} /\ count("Unhealthy") > 0 -> "Unhealthy"
    [] DOMAIN health # {} /\ count("Unhealthy") = 0 /\ count("Degraded") > 0 -> "Degraded"
    [] OTHER -> IF count("Unknown") = Cardinality(DOMAIN health) THEN "Unknown" ELSE "Healthy"

-----------------------------------------------------------------------------
(* Discovery: best_agent scores a copy of every entry. *)

Offers(a) == ParseCapabilities(Declared[a])

Discover(snapshot, reqs) == {a \in snapshot : AllRequiredMet(Offers(a), reqs)}

BestAgent(reqs) ==
  LET fit == Discover(DOMAIN entries, reqs)
      top == {a \in fit : \A b \in fit :
                TotalScore(Offers(b), reqs) <= TotalScore(Offers(a), reqs)}
  IN /\ \E a \in IF top = {} THEN {NoAgent} ELSE top :
          best' = [agent |-> a, asked |-> reqs, among |-> DOMAIN entries]
     /\ UNCHANGED <<entries, health, regCall, swept>>

-----------------------------------------------------------------------------
RegistrationNext ==
  \E c \in Registrars :
    \/ \E a \in RegAgents : RegisterAgent(c, a) \/ UnregisterAgent(c, a)
    \/ InsertEntry(c) \/ RemoveEntry(c)

HealthNext ==
  \/ \E c \in Registrars : Sweep(c) \/ \E a \in RegAgents : SweepPasses(c, a)
  \/ \E a \in RegAgents :
       \/ AgentHeartbeat(a) \/ TimeoutPasses(a)
       \/ \E s \in AgentStatus : UpdateStatus(a, s)
       \/ \E s \in HealthStatus : CheckReported(a, s)

DiscoverNext == \E reqs \in Requests : BestAgent(reqs)

RegistryNext == RegistrationNext \/ HealthNext \/ DiscoverNext

RegistrySpec == RegistryInit /\ [][RegistryNext]_registryVars

-----------------------------------------------------------------------------
(***************************************************************************)
(* Every entry has a status and every tracked agent a health record of the *)
(* declared type.                                                          *)
(***************************************************************************)
RegistryTypeOK ==
  /\ \A a \in DOMAIN entries : entries[a] \in AgentStatus \cup {"Spawning"}
  /\ \A a \in DOMAIN health : health[a] \in AgentHealth

(***************************************************************************)
(* The two maps agree on every agent nobody is registering or removing: a  *)
(* registered agent has a health record, so that it can be swept, and no   *)
(* record outlives its agent, however registrations, removals and sweeps   *)
(* of one agent interleave.                                                *)
(***************************************************************************)
TrackedIffRegistered ==
  \A a \in RegAgents : (\A c \in Registrars : regCall[c].agent # a) =>
    (a \in DOMAIN entries <=> a \in DOMAIN health)

(***************************************************************************)
(* An agent is reported Healthy only while its failures are below the      *)
(* threshold that degrades it, and the cluster only while no agent is      *)
(* Degraded or Unhealthy, whichever of heartbeats, checks and sweeps wrote *)
(* the record last.                                                        *)
(***************************************************************************)
HealthyMeansBelowThreshold ==
  /\ \A a \in DOMAIN health : health[a].status = "Healthy" => health[a].failures < DegradeAfter
  /\ ClusterHealth = "Healthy" =>
       \A a \in DOMAIN health : health[a].status \in {"Healthy", "Unknown"}

\* Whether v is from base to the first version that may break its users.
InCompatibleRange(base, v) ==
  LET broken == IF base.major > 0
                THEN [major |-> base.major + 1, minor |-> 0, patch |-> 0, pre |-> 1]
                ELSE IF base.minor > 0
                THEN [major |-> 0, minor |-> base.minor + 1, patch |-> 0, pre |-> 1]
                ELSE [major |-> 0, minor |-> 0, patch |-> base.patch + 1, pre |-> 1]
  IN ~Before(v, base) /\ Before(v, broken)

Meets(a, r) ==
  \E c \in Offers(a) : /\ c.name = r.name
                       /\ r.constraint.op = "caret" =>
                            InCompatibleRange(r.constraint.base, c.version)
                       /\ r.constraint.op # "caret" => Satisfies(r.constraint, c.version)

(***************************************************************************)
(* best_agent answers with an agent that meets every required capability   *)
(* in a version compatible with the one asked for, and no other registered *)
(* agent that does so meets more of the optional ones; it answers nothing  *)
(* only when every registered agent lacks a required one.                  *)
(***************************************************************************)
BestAgentFits ==
  LET Fits(a) == \A r \in best.asked : r.required => Meets(a, r)
      Optional(a) == Cardinality({r \in best.asked : ~r.required /\ Meets(a, r)})
  IN IF best.agent = NoAgent
     THEN \A a \in best.among : ~Fits(a)
     ELSE /\ best.agent \in best.among /\ Fits(best.agent)
          /\ \A a \in best.among : Fits(a) => Optional(a) <= Optional(best.agent)

(***************************************************************************)
(* The registry's agents are tracked, their health is what was last        *)
(* reported of them, and the one it finds for a request fits it best.      *)
(***************************************************************************)
RegistrySound == RegistryTypeOK /\ TrackedIffRegistered /\ HealthyMeansBelowThreshold /\ BestAgentFits
=============================================================================
