--------------------------- MODULE MCDivergences ----------------------------
(***************************************************************************)
(* Three components where the code does not do what its documentation says *)
(* and each on the smallest instance that shows it: one agent of the SDK   *)
(* under two controllers, one operator who applies two resources, and two  *)
(* agents under the all_for_one strategy. Each specification moves one of  *)
(* them; the others keep their first state.                                *)
(***************************************************************************)
EXTENDS AgentInstance, ProvisionApply, Supervisor

MCStacks == {<<>>}

Declares(on) == [provider |-> "agent_pool", config |-> [of |-> "agent_pool", v |-> 1], dependsOn |-> on]
MCTopologies == {"a" :> Declares({}) @@ "b" :> Declares({"a"})}

vars == <<instanceVars, provisionVars, supervisorVars>>

Init == InstanceInit /\ ProvisionInit /\ SupervisorInit

ControlSpec == Init /\ [][ControlNext /\ UNCHANGED <<provisionVars, supervisorVars>>]_vars
ApplySpec == Init /\ [][ProvisionNext /\ UNCHANGED <<instanceVars, supervisorVars>>]_vars
SupervisionSpec == Init /\ [][SupervisorNext /\ UNCHANGED <<instanceVars, provisionVars>>]_vars
=============================================================================
