-------------------------- MODULE MCGraphExecutor --------------------------
(***************************************************************************)
(* Small instances of GraphExecutor: a recovery branch with a join, a      *)
(* fan-in with a chain behind it, and a graph that is refused.             *)
(***************************************************************************)
EXTENDS GraphExecutor, TLC

CONSTANTS n1, n2, n3, n4

MCNodes == {n1, n2, n3, n4}

E(s, t, k, c) == [source |-> s, target |-> t, kind |-> k, condition |-> c]

\* n2 follows success of n1, n3 its failure, n4 cleans up after both.
Recovery == {E(n1, n2, "depends_on", "none"), E(n1, n3, "conditional", "on_failure"),
             E(n2, n4, "triggers", "none"), E(n3, n4, "blocks", "always")}
FanIn == {E(n1, n3, "data_flow", "none"), E(n2, n3, "depends_on", "on_success"),
          E(n3, n4, "triggers", "on_success")}
WithOutput == {E(n1, n2, "conditional", "on_output")}

MCGraphs == {Recovery, FanIn, WithOutput}
MCLimits == {0, 1, 2}
MCRank == n1 :> 2 @@ n2 :> 1 @@ n3 :> 1 @@ n4 :> 0
MCMaxRetries == n1 :> 1 @@ n2 :> 0 @@ n3 :> 0 @@ n4 :> 0
MCInitStates == {"Pending", "Succeeded", "Failed"}
=============================================================================
