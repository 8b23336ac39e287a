-------------------------- MODULE MCDurableLedger --------------------------
(***************************************************************************)
(* A small instance of DurableLedger: a task, a changed request under the  *)
(* same ID and a task that depends on the first.                           *)
(***************************************************************************)
EXTENDS DurableLedger

CONSTANTS t1, t2, plain, changed, s1, s2, p1, p2, v1, v2, k1

MCPrincipals == {p1, p2}
MCTaskIds == {t1, t2}
MCPayloads == {plain, changed}
MCEffectKeys == {k1}
MCOutputs == {v1, v2}
MCSessions == {s1, s2}

MCRequests ==
  {[id |-> t1, payload |-> plain, deps |-> {}, valid |-> TRUE],
   [id |-> t1, payload |-> changed, deps |-> {}, valid |-> TRUE],
   [id |-> t2, payload |-> plain, deps |-> {t1}, valid |-> TRUE],
   [id |-> t2, payload |-> changed, deps |-> {t2}, valid |-> TRUE]}
=============================================================================
