--------------------------- MODULE DurableLedger ---------------------------
(***************************************************************************)
(* The durable task ledger of daf-runtime (crates/daf-runtime/src/         *)
(* durable.rs): calls of execute_with_dependencies by concurrent sessions  *)
(* over one Sled database, with cancelled callers, failed flushes and      *)
(* process crashes.                                                        *)
(*                                                                         *)
(* A step of the model is one stretch of execute_with_dependencies between *)
(* two await points (the preparation mutex, a flush, the SDK handler).     *)
(* The dependency lookups before the mutex are one step: results are never *)
(* replaced, so reading them one by one gives what reading them all at the *)
(* last of the reads gives.                                                *)
(***************************************************************************)
EXTENDS Naturals, FiniteSets

CONSTANTS
  Principals,   \* authenticated principals
  TaskIds,      \* task UUIDs, also the idempotency keys
  Payloads,     \* everything of a task specification but its id
  Requests,     \* the requests callers may send
  EffectKeys,   \* names of declared effects
  Outputs,      \* outputs a handler may prepare
  Sessions,     \* concurrent callers of execute_with_dependencies
  None          \* an absent value

(***************************************************************************)
(* A request is a task specification with its dependency list.  Requests   *)
(* that differ only in the order of the dependencies differ in payload.    *)
(* valid stands for the checks that read the request alone: sizes, inputs  *)
(* an object, no reserved key, no duplicate dependency.                    *)
(***************************************************************************)
Request == [id : TaskIds, payload : Payloads, deps : SUBSET TaskIds, valid : BOOLEAN]

ASSUME RequestsAssumption == Requests \subseteq Request

VARIABLES
  mem,      \* the database as this process sees it
  disk,     \* the database a restart would recover
  lease,    \* the session that holds the preparation mutex
  pc,       \* where each session is
  caller,   \* the principal of each session's call
  req,      \* the request of each session's call
  inputs,   \* dependency outputs injected into each session's task
  acked     \* history: every Ok(result) returned to a caller

ledgerVars == <<mem, disk, lease, pc, caller, req, inputs, acked>>

-----------------------------------------------------------------------------
(* Types *)

Binding == [principal : Principals, req : Request]

(***************************************************************************)
(* Record.  effects and used are history: the effect keys committed in the *)
(* same transaction and the dependency outputs the handler was given.      *)
(***************************************************************************)
Record == [principal : Principals, req : Request, success : BOOLEAN,
           output : Outputs, effects : SUBSET EffectKeys,
           used : [TaskIds -> Outputs \cup {None}]]

(***************************************************************************)
(* The three key spaces binding/, result/ and effect/.  The value of an    *)
(* effect is abstracted to the task that declared it.                      *)
(***************************************************************************)
Store == [binding : [TaskIds -> Binding \cup {None}],
          result  : [TaskIds -> Record \cup {None}],
          effect  : [Principals -> [EffectKeys -> TaskIds \cup {None}]]]

Receipt == [id : TaskIds, record : Record]

ASSUME NoneAssumption ==
  /\ None \notin TaskIds \cup Sessions \cup Outputs \cup Principals
  /\ None \notin Request
  /\ None \notin Binding
  /\ None \notin Record

HoldsLease == {"hit", "bind", "prepare", "commit"}
Returned == {"ok", "err"}
PC == {"idle", "waiting"} \cup HoldsLease \cup Returned

TypeOK ==
  /\ mem \in Store
  /\ disk \in Store
  /\ lease \in Sessions \cup {None}
  /\ pc \in [Sessions -> PC]
  /\ caller \in [Sessions -> Principals \cup {None}]
  /\ req \in [Sessions -> Request \cup {None}]
  /\ inputs \in [Sessions -> [TaskIds -> Outputs \cup {None}]]
  /\ acked \subseteq Receipt

EmptyStore == [binding |-> [t \in TaskIds |-> None],
               result  |-> [t \in TaskIds |-> None],
               effect  |-> [p \in Principals |-> [k \in EffectKeys |-> None]]]

NoInputs == [t \in TaskIds |-> None]

Init ==
  /\ mem = EmptyStore
  /\ disk = EmptyStore
  /\ lease = None
  /\ pc = [s \in Sessions |-> "idle"]
  /\ caller = [s \in Sessions |-> None]
  /\ req = [s \in Sessions |-> None]
  /\ inputs = [s \in Sessions |-> NoInputs]
  /\ acked = {}

-----------------------------------------------------------------------------
(* Helpers *)

\* Mutant: a failed predecessor counts as resolved.
DependencyResolved_AnyOutcome(p, d) ==
  /\ mem.result[d] # None
  /\ mem.result[d].principal = p

\* lookup succeeds for principal p and the predecessor's outcome is a success.
DependencyResolved(p, d) ==
  /\ mem.result[d] # None
  /\ mem.result[d].principal = p
  /\ mem.result[d].success

\* A stored binding or record belongs to this very principal and request.
SameCall(stored, s) == stored.principal = caller[s] /\ stored.req = req[s]

\* Leave the call with an outcome, releasing the mutex if it is held.
Finish(s, outcome) ==
  /\ pc' = [pc EXCEPT ![s] = outcome]
  /\ lease' = IF lease = s THEN None ELSE lease

\* The locals of the call die with its future.
DropLocals(s) ==
  /\ caller' = [caller EXCEPT ![s] = None]
  /\ req' = [req EXCEPT ![s] = None]
  /\ inputs' = [inputs EXCEPT ![s] = NoInputs]

-----------------------------------------------------------------------------
(* execute_with_dependencies *)

(***************************************************************************)
(* The checks before the mutex.  A call that fails one returns Err at      *)
(* once; a call that passes them has its dependency outputs injected and   *)
(* waits for the mutex.                                                    *)
(***************************************************************************)
Admissible(p, r) ==
  /\ r.valid
  /\ r.id \notin r.deps
  /\ \A d \in r.deps : DependencyResolved(p, d)

Call(s, p, r) ==
  /\ pc[s] = "idle"
  /\ caller' = [caller EXCEPT ![s] = p]
  /\ req' = [req EXCEPT ![s] = r]
  /\ \/ /\ Admissible(p, r)
        /\ inputs' = [inputs EXCEPT ![s] =
                        [t \in TaskIds |-> IF t \in r.deps THEN mem.result[t].output ELSE None]]
        /\ pc' = [pc EXCEPT ![s] = "waiting"]
     \/ /\ ~Admissible(p, r)
        /\ pc' = [pc EXCEPT ![s] = "err"]
        /\ UNCHANGED inputs
  /\ UNCHANGED <<mem, disk, lease, acked>>

(***************************************************************************)
(* With the mutex: a stored result is a replay or a conflict; otherwise    *)
(* the task is bound to this call, unless it is bound to another one.      *)
(***************************************************************************)
Replay(s) ==
  /\ mem.result[req[s].id] # None
  /\ SameCall(mem.result[req[s].id], s)
  /\ pc' = [pc EXCEPT ![s] = "hit"]
  /\ lease' = s
  /\ UNCHANGED mem

Conflict(s) ==
  /\ LET r == mem.result[req[s].id]
         b == mem.binding[req[s].id]
     IN \/ r # None /\ ~SameCall(r, s)
        \/ r = None /\ b # None /\ ~SameCall(b, s)
  /\ pc' = [pc EXCEPT ![s] = "err"]
  /\ UNCHANGED <<mem, lease>>

Bind(s) ==
  /\ mem.result[req[s].id] = None
  /\ \/ /\ mem.binding[req[s].id] # None
        /\ SameCall(mem.binding[req[s].id], s)
        /\ UNCHANGED mem
     \/ /\ mem.binding[req[s].id] = None
        /\ mem' = [mem EXCEPT !.binding[req[s].id] =
                     [principal |-> caller[s], req |-> req[s]]]
  /\ pc' = [pc EXCEPT ![s] = "bind"]
  /\ lease' = s

Acquire(s) ==
  /\ pc[s] = "waiting"
  /\ lease = None
  /\ Replay(s) \/ Conflict(s) \/ Bind(s)
  /\ UNCHANGED <<disk, caller, req, inputs, acked>>

\* The binding is flushed before the handler runs.
FlushBinding(s) ==
  /\ pc[s] = "bind"
  /\ disk' = mem
  /\ pc' = [pc EXCEPT ![s] = "prepare"]
  /\ UNCHANGED <<mem, lease, caller, req, inputs, acked>>

(***************************************************************************)
(* The handler failed, or what it returned is refused: another task ID, an *)
(* oversized or undecodable result, too many, empty or duplicate effects.  *)
(***************************************************************************)
PrepareRefused(s) ==
  /\ pc[s] = "prepare"
  /\ Finish(s, "err")
  /\ UNCHANGED <<mem, disk, caller, req, inputs, acked>>

\* The transaction inserts every effect and the result, or nothing.
Transaction(s, success, output, effects) ==
  LET t == req[s].id
      p == caller[s]
  IN IF \/ mem.result[t] # None
        \/ \E k \in effects : mem.effect[p][k] # None
     THEN /\ Finish(s, "err")
          /\ UNCHANGED mem
     ELSE /\ mem' = [mem EXCEPT
               !.result[t] = [principal |-> p, req |-> req[s], success |-> success,
                              output |-> output, effects |-> effects, used |-> inputs[s]],
               !.effect[p] = [k \in EffectKeys |-> IF k \in effects THEN t ELSE mem.effect[p][k]]]
          /\ pc' = [pc EXCEPT ![s] = "commit"]
          /\ UNCHANGED lease

Prepared(s, success, output, effects) ==
  /\ pc[s] = "prepare"
  /\ success \/ effects = {}     \* a failed outcome carries no effects
  /\ Transaction(s, success, output, effects)
  /\ UNCHANGED <<disk, caller, req, inputs, acked>>

\* Mutant: a replay is acknowledged without a flush.
Acknowledge_ReplayUnflushed(s) ==
  /\ pc[s] \in {"hit", "commit"}
  /\ disk' = IF pc[s] = "hit" THEN disk ELSE mem
  /\ acked' = acked \cup {[id |-> req[s].id, record |-> mem.result[req[s].id]]}
  /\ Finish(s, "ok")
  /\ UNCHANGED <<mem, caller, req, inputs>>

\* The flush before every acknowledgement, of a fresh commit and of a replay.
Acknowledge(s) ==
  /\ pc[s] \in {"hit", "commit"}
  /\ disk' = mem
  /\ acked' = acked \cup {[id |-> req[s].id, record |-> mem.result[req[s].id]]}
  /\ Finish(s, "ok")
  /\ UNCHANGED <<mem, caller, req, inputs>>

\* Mutant: the error of the flush after the commit is ignored.
FlushFails_Ignored(s) ==
  /\ pc[s] \in {"hit", "commit"}
  /\ acked' = acked \cup {[id |-> req[s].id, record |-> mem.result[req[s].id]]}
  /\ Finish(s, "ok")
  /\ UNCHANGED <<mem, disk, caller, req, inputs>>

\* flush_async returns a storage error.
FlushFails(s) ==
  /\ pc[s] \in {"hit", "bind", "commit"}
  /\ Finish(s, "err")
  /\ UNCHANGED <<mem, disk, caller, req, inputs, acked>>

\* The caller takes the returned value.
Return(s) ==
  /\ pc[s] \in Returned
  /\ pc' = [pc EXCEPT ![s] = "idle"]
  /\ DropLocals(s)
  /\ UNCHANGED <<mem, disk, lease, acked>>

\* Mutant: a dropped call keeps the preparation mutex.
Cancel_KeepsMutex(s) ==
  /\ pc[s] \in HoldsLease \cup {"waiting"}
  /\ pc' = [pc EXCEPT ![s] = "idle"]
  /\ DropLocals(s)
  /\ UNCHANGED <<mem, disk, lease, acked>>

\* The caller drops the future at one of its await points.
Cancel(s) ==
  /\ pc[s] \in HoldsLease \cup {"waiting"}
  /\ Finish(s, "idle")
  /\ DropLocals(s)
  /\ UNCHANGED <<mem, disk, acked>>

-----------------------------------------------------------------------------
(* Sled and the process *)

\* Sled's own flusher, and a flush whose future was dropped while it ran.
BackgroundFlush ==
  /\ disk # mem
  /\ disk' = mem
  /\ UNCHANGED <<mem, lease, pc, caller, req, inputs, acked>>

\* The process dies and DurableLedger::open recovers what was flushed.
Crash ==
  /\ mem' = disk
  /\ lease' = None
  /\ pc' = [s \in Sessions |-> "idle"]
  /\ caller' = [s \in Sessions |-> None]
  /\ req' = [s \in Sessions |-> None]
  /\ inputs' = [s \in Sessions |-> NoInputs]
  /\ UNCHANGED <<disk, acked>>

-----------------------------------------------------------------------------

HandlerReturns(s) ==
  \/ PrepareRefused(s)
  \/ \E success \in BOOLEAN, output \in Outputs, effects \in SUBSET EffectKeys :
        Prepared(s, success, output, effects)

Flushes(s) == FlushBinding(s) \/ Acknowledge(s) \/ FlushFails(s)

Next ==
  \/ \E s \in Sessions, p \in Principals, r \in Requests : Call(s, p, r)
  \/ \E s \in Sessions : Acquire(s) \/ Flushes(s) \/ HandlerReturns(s)
  \/ \E s \in Sessions : Return(s) \/ Cancel(s)
  \/ BackgroundFlush
  \/ Crash

Spec == Init /\ [][Next]_ledgerVars

(***************************************************************************)
(* Flushes complete or fail, the tokio mutex is granted in FIFO order (no  *)
(* waiter is passed over for ever), callers take what is returned to them, *)
(* and a handler returns or its caller gives up on it.                     *)
(***************************************************************************)
Fairness ==
  \A s \in Sessions :
    /\ SF_ledgerVars(Acquire(s))
    /\ WF_ledgerVars(Flushes(s))
    /\ WF_ledgerVars(HandlerReturns(s) \/ (pc[s] = "prepare" /\ Cancel(s)))
    /\ WF_ledgerVars(Return(s))

FairSpec == Spec /\ Fairness

-----------------------------------------------------------------------------
(* Properties *)

(***************************************************************************)
(* A stored result was committed by the call its ID is bound to, after     *)
(* every one of its dependencies had a stored success of the same          *)
(* principal, and it was computed from exactly the outputs stored for      *)
(* them.  (durable.rs: the dependency lookups run before the mutex and     *)
(* read unflushed state.)                                                  *)
(***************************************************************************)
ResultsFromBoundCalls(v) ==
  \A t \in TaskIds : v.result[t] # None =>
    /\ v.result[t].req.id = t
    /\ v.binding[t] = [principal |-> v.result[t].principal, req |-> v.result[t].req]
    /\ \A d \in v.result[t].req.deps :
         /\ v.result[d] # None
         /\ v.result[d].success
         /\ v.result[d].principal = v.result[t].principal
         /\ v.result[d].output = v.result[t].used[d]

(***************************************************************************)
(* Effects and result are one: every effect a stored result declared is    *)
(* stored under its principal, and every stored effect belongs to a stored *)
(* result that declared it.                                                *)
(***************************************************************************)
EffectsMatchResults(v) ==
  /\ \A t \in TaskIds : v.result[t] # None =>
       \A k \in v.result[t].effects : v.effect[v.result[t].principal][k] = t
  /\ \A p \in Principals, k \in EffectKeys :
       v.effect[p][k] # None =>
         /\ v.result[v.effect[p][k]] # None
         /\ v.result[v.effect[p][k]].success
         /\ v.result[v.effect[p][k]].principal = p
         /\ k \in v.result[v.effect[p][k]].effects

Consistent(v) == ResultsFromBoundCalls(v) /\ EffectsMatchResults(v)

(***************************************************************************)
(* What the process sees and what a crash would leave are both consistent  *)
(* ledgers, whatever session was interrupted where.                        *)
(***************************************************************************)
LedgerConsistent == Consistent(mem) /\ Consistent(disk)

(***************************************************************************)
(* No acknowledgement precedes durability: every result returned to a      *)
(* caller, by a commit or by a replay, is what a restart would recover.    *)
(***************************************************************************)
AckedIsDurable == \A a \in acked : disk.result[a.id] = a.record

(***************************************************************************)
(* While the handler runs for a task, no result of that task is stored or  *)
(* was ever acknowledged: replays bypass the handler, also after restarts, *)
(* and only one preparation runs at a time.                                *)
(***************************************************************************)
HandlerOnlyBeforeReceipt ==
  \A s \in Sessions : pc[s] = "prepare" =>
    /\ mem.result[req[s].id] = None
    /\ \A a \in acked : a.id # req[s].id
    /\ \A o \in Sessions \ {s} : pc[o] \notin HoldsLease

(***************************************************************************)
(* What is durable stays as it is: no step, a crash included, removes or   *)
(* replaces a flushed binding, result or effect.                           *)
(***************************************************************************)
DurableIsFinal ==
  [][/\ \A t \in TaskIds :
          /\ disk.binding[t] # None => disk'.binding[t] = disk.binding[t]
          /\ disk.result[t] # None => disk'.result[t] = disk.result[t]
     /\ \A p \in Principals, k \in EffectKeys :
          disk.effect[p][k] # None => disk'.effect[p][k] = disk.effect[p][k]]_ledgerVars

(***************************************************************************)
(* The ledger keeps the promise of TaskReceipts: its durable results and   *)
(* effects appear once and together, and an acknowledgement never precedes *)
(* them.                                                                   *)
(***************************************************************************)
Promise == INSTANCE TaskReceipts WITH results <- disk.result, effects <- disk.effect, receipts <- acked

KeepsPromise == Promise!Spec

(***************************************************************************)
(* A call that waits for the preparation mutex is answered, cancelled or   *)
(* lost in a crash: no interrupted session keeps the mutex for ever.       *)
(***************************************************************************)
WaitersProceed == \A s \in Sessions : pc[s] = "waiting" ~> pc[s] \in Returned \cup {"idle"}
=============================================================================
