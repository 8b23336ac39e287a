--------------------------- MODULE MCOrchestrator ---------------------------
(***************************************************************************)
(* Small instances of Orchestrator: a mission of two dependent phases and  *)
(* one of a single phase, two agents and two callers.                      *)
(***************************************************************************)
EXTENDS Orchestrator, TLC

CONSTANTS a1, a2, m1, m2, m3, build, test, solo, loop, c1, c2

MCAgents == {a1, a2}
MCMissions == {m1, m2, m3}
MCPhases == {build, test, solo, loop}
MCPhasesOf == m1 :> {build, test} @@ m2 :> {solo} @@ m3 :> {loop}
MCDependsOn == build :> {} @@ test :> {build} @@ solo :> {} @@ loop :> {loop}
MCTasks == build :> 1 @@ test :> 1 @@ solo :> 1 @@ loop :> 1
MCOwnRetries == build :> None @@ test :> 0 @@ solo :> None @@ loop :> None
MCCapable == build :> {a1, a2} @@ test :> {a1} @@ solo :> {a1, a2} @@ loop :> {}
MCCallers == {c1, c2}

MCOneAgent == {a1}
MCOneCapable == build :> {a1} @@ test :> {a1} @@ solo :> {a1} @@ loop :> {}

MCSymmetry == Permutations(MCCallers)
=============================================================================
