----------------------------- MODULE PeerTracker -----------------------------
(***************************************************************************)
(* What a runtime node knows of the others and of itself: the tracker of   *)
(* cluster peers, with its sweep in two parts (collect the dead, then      *)
(* remove them one by one), and the health monitor that merges the reports *)
(* of the node's subsystems.                                               *)
(***************************************************************************)
EXTENDS Integers, FiniteSets, FiniteSetsExt, Maps

CONSTANTS
  Peers,        \* ids of other nodes
  Cleaners,     \* callers of sweep_dead
  Subsystems    \* kinds of subsystem that report their health

VARIABLES
  peers,        \* per tracked peer, its status and failed checks
  doomed,       \* per cleaner, the peers its sweep still has to remove
  silence,      \* history: per peer, failed checks since it was last heard of
  latest        \* the node's own health: overall, and the last reports

peerVars == <<peers, doomed, silence, latest>>

PeerStatus == {"Alive", "Suspected", "Dead", "Left"}
NodeHealthStatus == {"Healthy", "Degraded", "Unhealthy", "Unknown"}
DeadAfter == 3

PeerEntry == [status |-> "Alive", failed |-> 0]

PeerInit ==
  /\ peers = EmptyMap
  /\ doomed = [w \in Cleaners |-> {}]
  /\ silence = [p \in Peers |-> 0]
  /\ latest = [status |-> "Unknown", subsystems |-> EmptyMap]

-----------------------------------------------------------------------------
Heard(p) == silence' = [silence EXCEPT ![p] = 0]

\* Mutant: a heartbeat leaves the failed checks counted before it.
Revived_KeepsFailures(e) == [e EXCEPT !.status = "Alive"]

Revived(e) == [status |-> "Alive", failed |-> 0]

FailedOnce(e) ==
  [status |-> IF e.failed + 1 >= DeadAfter THEN "Dead" ELSE "Suspected", failed |-> e.failed + 1]

Upsert(p) ==
  /\ peers' = Put(peers, p, IF p \in DOMAIN peers THEN Revived(peers[p]) ELSE PeerEntry)
  /\ Heard(p)
  /\ UNCHANGED <<doomed, latest>>

PeerHeartbeat(p) ==
  /\ p \in DOMAIN peers
  /\ peers' = [peers EXCEPT ![p] = Revived(@)]
  /\ Heard(p)
  /\ UNCHANGED <<doomed, latest>>

\* The bound keeps a dead peer from failing without end.
FailCheck(p) ==
  /\ p \in DOMAIN peers /\ peers[p].failed < DeadAfter
  /\ peers' = [peers EXCEPT ![p] = FailedOnce(@)]
  /\ silence' = [silence EXCEPT ![p] = @ + 1]
  /\ UNCHANGED <<doomed, latest>>

MarkLeft(p) ==
  /\ p \in DOMAIN peers
  /\ peers' = [peers EXCEPT ![p].status = "Left"]
  /\ UNCHANGED <<doomed, silence, latest>>

RemovePeer(p) ==
  /\ p \in DOMAIN peers
  /\ peers' = Drop(peers, p)
  /\ Heard(p)
  /\ UNCHANGED <<doomed, latest>>

SweepDead(w) ==
  /\ doomed[w] = {}
  /\ doomed' = [doomed EXCEPT ![w] = {p \in DOMAIN peers : peers[p].status \in {"Dead", "Left"}}]
  /\ UNCHANGED <<peers, silence, latest>>

\* Whatever the peer has become since it was collected, it is removed.
SweepRemoves(w, p) ==
  /\ p \in doomed[w]
  /\ doomed' = [doomed EXCEPT ![w] = @ \ {p}]
  /\ peers' = Drop(peers, p)
  /\ Heard(p)
  /\ UNCHANGED latest

-----------------------------------------------------------------------------
\* Mutant: a subsystem of unknown health does not count.
Merge_IgnoresUnknown(s, t) ==
  CASE "Unhealthy" \in {s, t} -> "Unhealthy"
    [] "Unhealthy" \notin {s, t} /\ "Degraded" \in {s, t} -> "Degraded"
    [] OTHER -> "Healthy"

Merge(s, t) ==
  CASE "Unhealthy" \in {s, t} -> "Unhealthy"
    [] "Unhealthy" \notin {s, t} /\ "Degraded" \in {s, t} -> "Degraded"
    [] {"Unhealthy", "Degraded"} \cap {s, t} = {} /\ "Unknown" \in {s, t} -> "Unknown"
    [] OTHER -> "Healthy"

\* The reports are merged one by one, from Healthy: merging a status twice, or
\* later, changes nothing, so that status after status is taken here.
MergedStatus(reported) ==
  LET with(merged, s) == IF s \in reported THEN Merge(merged, s) ELSE merged
  IN with(with(with(with("Healthy", "Healthy"), "Unknown"), "Degraded"), "Unhealthy")

FromSubsystems(reports) ==
  [status |-> IF DOMAIN reports = {} THEN "Unknown"
              ELSE MergedStatus({reports[k] : k \in DOMAIN reports}),
   subsystems |-> reports]

UpdateHealth(reports) ==
  /\ latest' = FromSubsystems(reports)
  /\ UNCHANGED <<peers, doomed, silence>>

\* The health loop of the runtime: no subsystem has a probe yet.
HealthTick == UpdateHealth([k \in Subsystems |-> "Unknown"])

-----------------------------------------------------------------------------
TrackerNext ==
  \/ \E p \in Peers :
       Upsert(p) \/ PeerHeartbeat(p) \/ FailCheck(p) \/ MarkLeft(p) \/ RemovePeer(p)
  \/ \E w \in Cleaners : SweepDead(w) \/ \E p \in Peers : SweepRemoves(w, p)

NodeHealthNext ==
  \/ HealthTick
  \/ \E K \in SUBSET Subsystems : \E reports \in [K -> NodeHealthStatus] : UpdateHealth(reports)

PeerNext == TrackerNext \/ NodeHealthNext

PeerSpec == PeerInit /\ [][PeerNext]_peerVars

-----------------------------------------------------------------------------
(***************************************************************************)
(* Peers and subsystems are in the states the code declares.               *)
(***************************************************************************)
PeerTypeOK ==
  /\ \A p \in DOMAIN peers : peers[p].status \in PeerStatus /\ peers[p].failed \in 0..DeadAfter
  /\ latest.status \in NodeHealthStatus

(***************************************************************************)
(* A peer's status tells what it has shown since it was last heard of:     *)
(* Alive has failed no check, Suspected fewer than three, Dead three; a    *)
(* peer removed while a sweep held it comes back with a clean record.      *)
(***************************************************************************)
PeerStatusHonest ==
  \A p \in DOMAIN peers :
    /\ peers[p].failed = silence[p]
    /\ peers[p].status = "Alive" => silence[p] = 0
    /\ peers[p].status = "Suspected" => silence[p] \in 1..(DeadAfter - 1)
    /\ peers[p].status = "Dead" => silence[p] >= DeadAfter

Severity == [Healthy |-> 0, Unknown |-> 1, Degraded |-> 2, Unhealthy |-> 3]

(***************************************************************************)
(* The node is as healthy as the worst of its subsystems, and healthy only *)
(* when one reported and all that did are.                                 *)
(***************************************************************************)
WorstSubsystemCounts ==
  LET reported == {Severity[latest.subsystems[k]] : k \in DOMAIN latest.subsystems}
  IN Severity[latest.status] = IF reported = {} THEN Severity["Unknown"] ELSE Max(reported)

(***************************************************************************)
(* What a node tells of its peers and of itself is what it last heard of   *)
(* them.                                                                   *)
(***************************************************************************)
PeersSound == PeerTypeOK /\ PeerStatusHonest /\ WorstSubsystemCounts
=============================================================================
