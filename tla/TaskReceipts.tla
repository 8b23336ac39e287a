---------------------------- MODULE TaskReceipts ----------------------------
(***************************************************************************)
(* What a durable task service promises to the holders of its receipts,    *)
(* with nothing of how it keeps the promise: results are published once,   *)
(* with their effects, and outlive everything; a receipt is a copy of a    *)
(* published result.                                                       *)
(***************************************************************************)
CONSTANTS Principals, TaskIds, EffectKeys, None

VARIABLES
  results,   \* the published result of each task, or None
  effects,   \* per principal and effect key, the task that owns it, or None
  receipts   \* the receipts handed out

receiptVars == <<results, effects, receipts>>

Init ==
  /\ results = [t \in TaskIds |-> None]
  /\ effects = [p \in Principals |-> [k \in EffectKeys |-> None]]
  /\ receipts = {}

\* Nothing published is withdrawn or replaced.
Keeps ==
  /\ \A t \in TaskIds : results[t] # None => results'[t] = results[t]
  /\ \A p \in Principals, k \in EffectKeys :
       effects[p][k] # None => effects'[p][k] = effects[p][k]

\* A result that appears brings all its effects, and an effect its result.
Whole ==
  /\ \A t \in TaskIds : results[t] = None /\ results'[t] # None =>
       \A k \in results'[t].effects : effects'[results'[t].principal][k] = t
  /\ \A p \in Principals, k \in EffectKeys :
       effects[p][k] = None /\ effects'[p][k] # None =>
         /\ results[effects'[p][k]] = None
         /\ results'[effects'[p][k]] # None
         /\ k \in results'[effects'[p][k]].effects

\* Receipts accumulate, and every new one is a published result.
Honest ==
  /\ receipts \subseteq receipts'
  /\ \A r \in receipts' \ receipts : results'[r.id] # None /\ results'[r.id] = r.record

Publish == Keeps /\ Whole /\ Honest

Spec == Init /\ [][Publish]_receiptVars
=============================================================================
