---------------------------- MODULE LedgerProofs ----------------------------
(***************************************************************************)
(* Safety of the durable ledger, for every set of principals, tasks,       *)
(* requests, effect keys, outputs and sessions, and of the remote worker   *)
(* over it, for every set of clients and credentials and every verifier.   *)
(* The ledger's inductive invariant adds to the properties that the disk   *)
(* never runs ahead of the memory and what each session knows at each of   *)
(* its await points.                                                       *)
(***************************************************************************)
EXTENDS RemoteWorker, TLAPS

\* Everything on disk is also what the process sees.
DiskWithinMem ==
  /\ \A t \in TaskIds : disk.binding[t] # None => mem.binding[t] = disk.binding[t]
  /\ \A t \in TaskIds : disk.result[t] # None => mem.result[t] = disk.result[t]
  /\ \A p \in Principals, k \in EffectKeys :
       disk.effect[p][k] # None => mem.effect[p][k] = disk.effect[p][k]

\* The dependency outputs a session carries are the stored ones.
InputsStored(s) ==
  \A d \in req[s].deps :
    /\ mem.result[d] # None
    /\ mem.result[d].success
    /\ mem.result[d].principal = caller[s]
    /\ mem.result[d].output = inputs[s][d]

\* What a session knows of the store, by the place it is at.
SessionInv ==
  \A s \in Sessions :
    /\ (pc[s] \in HoldsLease) <=> (lease = s)
    /\ pc[s] \in HoldsLease \cup {"waiting"} =>
         /\ caller[s] \in Principals
         /\ req[s] \in Request
         /\ InputsStored(s)
    /\ pc[s] \in {"bind", "prepare"} =>
         /\ mem.result[req[s].id] = None
         /\ mem.binding[req[s].id] = [principal |-> caller[s], req |-> req[s]]
    /\ pc[s] \in {"hit", "commit"} => mem.result[req[s].id] # None

\* The inductive invariant.
IInv ==
  /\ TypeOK
  /\ LedgerConsistent
  /\ AckedIsDurable
  /\ DiskWithinMem
  /\ SessionInv

-----------------------------------------------------------------------------

(***************************************************************************)
(* The empty ledger satisfies the invariant.                               *)
(***************************************************************************)
LEMMA InitIInv == Init => IInv
<1> SUFFICES ASSUME Init PROVE IInv
  OBVIOUS
<1>1. TypeOK
  BY DEF Init, TypeOK, EmptyStore, Store, NoInputs, PC
<1>2. LedgerConsistent
  BY DEF Init, LedgerConsistent, Consistent, ResultsFromBoundCalls, EffectsMatchResults, EmptyStore
<1>3. AckedIsDurable /\ DiskWithinMem
  BY DEF Init, AckedIsDurable, DiskWithinMem
<1>4. SessionInv
  BY NoneAssumption DEF Init, SessionInv, HoldsLease
<1>5. QED
  BY <1>1, <1>2, <1>3, <1>4 DEF IInv

-----------------------------------------------------------------------------
(* Steps that change the store *)

(***************************************************************************)
(* Calls resolve their dependencies and change no store.                   *)
(***************************************************************************)
LEMMA CallStep ==
  ASSUME IInv, NEW s \in Sessions, NEW p \in Principals, NEW r \in Requests, Call(s, p, r)
  PROVE  IInv'
<1>1. r \in Request
  BY RequestsAssumption
<1>2. Admissible(p, r) => \A t \in r.deps : mem.result[t] \in Record /\ mem.result[t].output \in Outputs
  BY <1>1 DEF Admissible, DependencyResolved, IInv, TypeOK, Store, Record, Request
<1>3. inputs' \in [Sessions -> [TaskIds -> Outputs \cup {None}]]
  <2>1. CASE Admissible(p, r)
    <3> DEFINE f == [t \in TaskIds |-> IF t \in r.deps THEN mem.result[t].output ELSE None]
    <3>1. f \in [TaskIds -> Outputs \cup {None}]
      BY <1>2, <2>1
    <3>2. inputs' = [inputs EXCEPT ![s] = f]
      BY <2>1 DEF Call
    <3> HIDE DEF f
    <3>3. QED
      BY <3>1, <3>2 DEF IInv, TypeOK
  <2>2. CASE ~Admissible(p, r)
    BY <2>2 DEF Call, IInv, TypeOK
  <2>3. QED
    BY <2>1, <2>2
<1>4. TypeOK'
  <2>1. pc' \in [Sessions -> PC]
    BY DEF Call, IInv, TypeOK, PC, Returned
  <2>2. QED
    BY <1>1, <1>3, <2>1 DEF Call, IInv, TypeOK
<1>5. UNCHANGED <<mem, disk, acked, lease>>
  BY DEF Call
<1>6. LedgerConsistent' /\ AckedIsDurable' /\ DiskWithinMem'
  BY <1>5 DEF IInv, LedgerConsistent, AckedIsDurable, DiskWithinMem
<1>7. SessionInv'
  <2> SUFFICES ASSUME NEW u \in Sessions
               PROVE  /\ (pc'[u] \in HoldsLease) <=> (lease' = u)
                      /\ pc'[u] \in HoldsLease \cup {"waiting"} =>
                           caller'[u] \in Principals /\ req'[u] \in Request /\ InputsStored(u)'
                      /\ pc'[u] \in {"bind", "prepare"} =>
                           /\ mem'.result[req'[u].id] = None
                           /\ mem'.binding[req'[u].id] = [principal |-> caller'[u], req |-> req'[u]]
                      /\ pc'[u] \in {"hit", "commit"} => mem'.result[req'[u].id] # None
    BY DEF SessionInv
  <2>1. CASE u # s
    BY <2>1, <1>5 DEF Call, IInv, SessionInv, TypeOK, InputsStored
  <2>2. CASE u = s
    <3>1. pc'[s] \in {"waiting", "err"} /\ lease # s
      BY DEF Call, IInv, SessionInv, TypeOK, HoldsLease
    <3>2. pc'[s] = "waiting" => Admissible(p, r)
      BY DEF Call, IInv, TypeOK
    <3>3. Admissible(p, r) => InputsStored(s)'
      BY <1>1, <1>5 DEF Call, Admissible, DependencyResolved, InputsStored, IInv, TypeOK, Request
    <3>4. QED
      BY <2>2, <3>1, <3>2, <3>3, <1>1, <1>5 DEF Call, IInv, TypeOK, HoldsLease
  <2>3. QED
    BY <2>1, <2>2
<1>8. QED
  BY <1>4, <1>6, <1>7 DEF IInv

(***************************************************************************)
(* Acquiring the mutex: a replay, a conflict, or a new binding.            *)
(***************************************************************************)
LEMMA AcquireStep ==
  ASSUME IInv, NEW s \in Sessions, Acquire(s)
  PROVE  IInv'
<1> DEFINE t == req[s].id
           b == [principal |-> caller[s], req |-> req[s]]
<1>1. /\ caller[s] \in Principals /\ req[s] \in Request /\ InputsStored(s)
      /\ t \in TaskIds /\ b \in Binding
  BY DEF Acquire, IInv, SessionInv, Request, Binding
<1>2. UNCHANGED <<disk, caller, req, inputs, acked>>
  BY DEF Acquire
<1>3. \/ UNCHANGED mem
      \/ /\ mem.binding[t] = None /\ mem.result[t] = None
         /\ mem' = [mem EXCEPT !.binding[t] = b]
  BY DEF Acquire, Replay, Conflict, Bind
<1>4. /\ mem' \in Store
      /\ mem'.result = mem.result /\ mem'.effect = mem.effect
      /\ \A x \in TaskIds : mem.binding[x] # None => mem'.binding[x] = mem.binding[x]
  <2>1. CASE UNCHANGED mem
    BY <2>1 DEF IInv, TypeOK
  <2>2. CASE mem.binding[t] = None /\ mem' = [mem EXCEPT !.binding[t] = b]
    <3> HIDE DEF t, b
    <3>1. /\ mem' = [mem EXCEPT !.binding = [mem.binding EXCEPT ![t] = b]]
          /\ mem \in Store
      BY <2>2 DEF IInv, TypeOK
    <3>2. [mem.binding EXCEPT ![t] = b] \in [TaskIds -> Binding \cup {None}]
      BY <1>1, <3>1 DEF Store
    <3>3. QED
      BY <1>1, <2>2, <3>1, <3>2 DEF Store
  <2>3. QED
    BY <1>3, <2>1, <2>2
<1>5. TypeOK'
  <2>1. pc' \in [Sessions -> PC] /\ lease' \in Sessions \cup {None}
    BY DEF Acquire, Replay, Conflict, Bind, IInv, TypeOK, PC, HoldsLease, Returned
  <2>2. QED
    BY <1>2, <1>4, <2>1 DEF IInv, TypeOK
<1>6. LedgerConsistent'
  <2>1. ResultsFromBoundCalls(mem')
    BY <1>4, NoneAssumption
       DEF IInv, LedgerConsistent, Consistent, ResultsFromBoundCalls, TypeOK, Store, Binding, Record
  <2>2. EffectsMatchResults(mem')
    BY <1>4 DEF IInv, LedgerConsistent, Consistent, EffectsMatchResults
  <2>3. QED
    BY <1>2, <2>1, <2>2 DEF IInv, LedgerConsistent, Consistent
<1>7. AckedIsDurable'
  BY <1>2 DEF IInv, AckedIsDurable
<1>8. DiskWithinMem'
  BY <1>2, <1>4 DEF IInv, DiskWithinMem, TypeOK, Store
<1>9. SessionInv'
  <2>1. /\ \A u \in Sessions \ {s} : pc'[u] = pc[u] /\ pc[u] \notin HoldsLease
        /\ \/ pc'[s] = "hit" /\ lease' = s /\ mem.result[t] # None
           \/ pc'[s] = "err" /\ lease' = None
           \/ pc'[s] = "bind" /\ lease' = s /\ mem.result[t] = None /\ mem'.binding[t] = b
    <3>1. \A u \in Sessions : pc[u] \notin HoldsLease
      BY NoneAssumption DEF Acquire, IInv, SessionInv
    <3>2. \A u \in Sessions \ {s} : pc'[u] = pc[u]
      BY DEF Acquire, Replay, Conflict, Bind, IInv, TypeOK
    <3>3. CASE Replay(s)
      BY <3>1, <3>2, <3>3 DEF Replay, IInv, TypeOK
    <3>4. CASE Conflict(s)
      BY <3>1, <3>2, <3>4 DEF Conflict, Acquire, IInv, TypeOK
    <3>5. CASE Bind(s)
      <4>1. mem'.binding[t] = b
        <5>1. CASE mem.binding[t] = None
          BY <1>1, <1>3, <3>5, <5>1, NoneAssumption DEF Bind, IInv, TypeOK, Store
        <5>2. CASE mem.binding[t] # None
          <6>1. mem.binding[t] \in Binding /\ SameCall(mem.binding[t], s) /\ UNCHANGED mem
            BY <1>1, <3>5, <5>2 DEF Bind, IInv, TypeOK, Store
          <6>2. QED
            BY <6>1 DEF SameCall, Binding
        <5>3. QED
          BY <5>1, <5>2
      <4>2. QED
        BY <3>1, <3>2, <3>5, <4>1 DEF Bind, IInv, TypeOK
    <3>6. QED
      BY <3>3, <3>4, <3>5 DEF Acquire
  <2>2. \A u \in Sessions : InputsStored(u) => InputsStored(u)'
    BY <1>2, <1>4 DEF InputsStored
  <2>3. ASSUME NEW u \in Sessions, u # s
        PROVE  /\ (pc'[u] \in HoldsLease) <=> (lease' = u)
               /\ pc'[u] \in HoldsLease \cup {"waiting"} =>
                    caller'[u] \in Principals /\ req'[u] \in Request /\ InputsStored(u)'
               /\ pc'[u] \notin {"bind", "prepare", "hit", "commit"}
    BY <2>1, <2>2, <2>3, <1>2, NoneAssumption DEF IInv, SessionInv, HoldsLease
  <2>4. /\ (pc'[s] \in HoldsLease) <=> (lease' = s)
        /\ caller'[s] \in Principals /\ req'[s] \in Request /\ InputsStored(s)'
        /\ pc'[s] \in {"bind", "prepare"} => mem'.result[req'[s].id] = None /\ mem'.binding[req'[s].id] = b
        /\ pc'[s] \in {"hit", "commit"} => mem'.result[req'[s].id] # None
    BY <2>1, <2>2, <1>1, <1>2, <1>4, NoneAssumption DEF HoldsLease
  <2>5. QED
    BY <2>3, <2>4, <1>2 DEF SessionInv
<1>10. QED
  BY <1>5, <1>6, <1>7, <1>8, <1>9 DEF IInv

-----------------------------------------------------------------------------
(***************************************************************************)
(* Steps of one session that leave the store the process sees alone, and   *)
(* the disk alone or equal to it: flushes, refusals, returns and           *)
(* cancellations.  lease' = u says who holds the mutex afterwards.         *)
(***************************************************************************)
LEMMA QuietStep ==
  ASSUME IInv, NEW s \in Sessions,
         UNCHANGED mem,
         disk' \in {disk, mem},
         TypeOK',
         AckedIsDurable',
         \A u \in Sessions \ {s} : /\ pc'[u] = pc[u] /\ caller'[u] = caller[u]
                                   /\ req'[u] = req[u] /\ inputs'[u] = inputs[u]
                                   /\ (lease' = u) <=> (lease = u),
         \/ pc'[s] \in {"ok", "err", "idle"} /\ lease' # s
         \/ /\ pc[s] = "bind" /\ pc'[s] = "prepare"
            /\ UNCHANGED <<lease, caller, req, inputs>>
  PROVE  IInv'
<1>1. LedgerConsistent'
  BY DEF IInv, LedgerConsistent
<1>2. DiskWithinMem'
  BY DEF IInv, DiskWithinMem
<1>3. SessionInv'
  <2> SUFFICES ASSUME NEW u \in Sessions
               PROVE  /\ (pc'[u] \in HoldsLease) <=> (lease' = u)
                      /\ pc'[u] \in HoldsLease \cup {"waiting"} =>
                           caller'[u] \in Principals /\ req'[u] \in Request /\ InputsStored(u)'
                      /\ pc'[u] \in {"bind", "prepare"} =>
                           /\ mem'.result[req'[u].id] = None
                           /\ mem'.binding[req'[u].id] = [principal |-> caller'[u], req |-> req'[u]]
                      /\ pc'[u] \in {"hit", "commit"} => mem'.result[req'[u].id] # None
    BY DEF SessionInv
  <2>1. CASE u # s
    BY <2>1 DEF IInv, SessionInv, InputsStored
  <2>2. CASE u = s /\ pc'[s] \in {"ok", "err", "idle"}
    BY <2>2 DEF HoldsLease
  <2>3. CASE u = s /\ pc[s] = "bind" /\ pc'[s] = "prepare" /\ UNCHANGED <<lease, caller, req, inputs>>
    BY <2>3 DEF IInv, SessionInv, InputsStored, HoldsLease
  <2>4. QED
    BY <2>1, <2>2, <2>3
<1>4. QED
  BY <1>1, <1>2, <1>3 DEF IInv

(***************************************************************************)
(* Flushes, acknowledgements and failed flushes.                           *)
(***************************************************************************)
LEMMA FlushStep ==
  ASSUME IInv, NEW s \in Sessions, Flushes(s)
  PROVE  IInv'
<1>1. UNCHANGED <<mem, caller, req, inputs>> /\ disk' \in {disk, mem}
  BY DEF Flushes, FlushBinding, Acknowledge, FlushFails
<1>2. lease = s /\ s # None /\ req[s] \in Request
  BY NoneAssumption DEF Flushes, FlushBinding, Acknowledge, FlushFails, IInv, SessionInv, HoldsLease
<1>3. acked' = acked \/ Acknowledge(s)
  BY DEF Flushes, FlushBinding, FlushFails
<1>4. Acknowledge(s) => mem.result[req[s].id] \in Record
  BY <1>2 DEF Acknowledge, IInv, SessionInv, TypeOK, Store, Request
<1>5. TypeOK'
  <2>1. acked' \subseteq Receipt
    BY <1>2, <1>3, <1>4 DEF Acknowledge, IInv, TypeOK, Receipt, Request
  <2>2. pc' \in [Sessions -> PC] /\ lease' \in Sessions \cup {None}
    BY DEF Flushes, FlushBinding, Acknowledge, FlushFails, Finish, IInv, TypeOK, PC, HoldsLease, Returned
  <2>3. QED
    BY <1>1, <2>1, <2>2 DEF IInv, TypeOK
<1>6. AckedIsDurable'
  <2>1. ASSUME NEW a \in acked PROVE disk'.result[a.id] = a.record
    <3>1. a.id \in TaskIds /\ a.record # None /\ disk.result[a.id] = a.record
      BY NoneAssumption DEF IInv, TypeOK, Receipt, AckedIsDurable
    <3>2. QED
      BY <1>1, <3>1 DEF IInv, DiskWithinMem
  <2>2. Acknowledge(s) => disk'.result[req[s].id] = mem.result[req[s].id]
    BY DEF Acknowledge
  <2>3. QED
    BY <1>3, <2>1, <2>2 DEF AckedIsDurable, Acknowledge
<1>7. \A u \in Sessions \ {s} : pc'[u] = pc[u] /\ ((lease' = u) <=> (lease = u))
  BY <1>2, NoneAssumption
     DEF Flushes, FlushBinding, Acknowledge, FlushFails, Finish, IInv, TypeOK
<1>8. \/ pc'[s] \in {"ok", "err", "idle"} /\ lease' # s
      \/ pc[s] = "bind" /\ pc'[s] = "prepare" /\ UNCHANGED lease
  BY <1>2 DEF Flushes, FlushBinding, Acknowledge, FlushFails, Finish, IInv, TypeOK
<1>9. QED
  BY <1>1, <1>5, <1>6, <1>7, <1>8, QuietStep

(***************************************************************************)
(* Refused preparations, returns and cancelled calls.                      *)
(***************************************************************************)
LEMMA LeaveStep ==
  ASSUME IInv, NEW s \in Sessions, PrepareRefused(s) \/ Return(s) \/ Cancel(s)
  PROVE  IInv'
<1>1. UNCHANGED <<mem, disk, acked>>
  BY DEF PrepareRefused, Return, Cancel
<1>2. /\ pc' \in [Sessions -> PC] /\ lease' \in Sessions \cup {None}
      /\ pc'[s] \in {"ok", "err", "idle"} /\ lease' # s
      /\ \A u \in Sessions \ {s} : pc'[u] = pc[u] /\ ((lease' = u) <=> (lease = u))
  <2>1. CASE PrepareRefused(s)
    BY <2>1, NoneAssumption DEF PrepareRefused, Finish, IInv, TypeOK, PC, Returned
  <2>2. CASE Return(s)
    BY <2>2, NoneAssumption DEF Return, IInv, SessionInv, TypeOK, PC, HoldsLease, Returned
  <2>3. CASE Cancel(s)
    BY <2>3, NoneAssumption DEF Cancel, Finish, IInv, TypeOK, PC
  <2>4. QED
    BY <2>1, <2>2, <2>3
<1>3. /\ caller' \in [Sessions -> Principals \cup {None}]
      /\ req' \in [Sessions -> Request \cup {None}]
      /\ inputs' \in [Sessions -> [TaskIds -> Outputs \cup {None}]]
      /\ \A u \in Sessions \ {s} :
           caller'[u] = caller[u] /\ req'[u] = req[u] /\ inputs'[u] = inputs[u]
  <2>1. CASE PrepareRefused(s)
    BY <2>1 DEF PrepareRefused, IInv, TypeOK
  <2>2. CASE DropLocals(s)
    <3>1. NoInputs \in [TaskIds -> Outputs \cup {None}]
      BY DEF NoInputs
    <3>2. QED
      BY <2>2, <3>1 DEF DropLocals, IInv, TypeOK
  <2>3. QED
    BY <2>1, <2>2 DEF Return, Cancel
<1>4. TypeOK'
  BY <1>1, <1>2, <1>3 DEF IInv, TypeOK
<1>5. AckedIsDurable'
  BY <1>1 DEF IInv, AckedIsDurable
<1>6. QED
  BY <1>1, <1>2, <1>3, <1>4, <1>5, QuietStep

-----------------------------------------------------------------------------
(***************************************************************************)
(* The handler's outcome is committed in one transaction, or refused by    *)
(* it.                                                                     *)
(***************************************************************************)
LEMMA CommitStep ==
  ASSUME IInv, NEW s \in Sessions, NEW success \in BOOLEAN, NEW output \in Outputs,
         NEW effects \in SUBSET EffectKeys, Prepared(s, success, output, effects)
  PROVE  IInv'
<1> DEFINE t == req[s].id
           p == caller[s]
           rec == [principal |-> p, req |-> req[s], success |-> success,
                   output |-> output, effects |-> effects, used |-> inputs[s]]
           eff == [k \in EffectKeys |-> IF k \in effects THEN t ELSE mem.effect[p][k]]
<1>1. /\ p \in Principals /\ req[s] \in Request /\ t \in TaskIds /\ InputsStored(s)
      /\ mem.result[t] = None /\ mem.binding[t] = [principal |-> p, req |-> req[s]]
      /\ lease = s /\ s # None
  BY NoneAssumption DEF Prepared, IInv, SessionInv, HoldsLease, Request
<1>2. UNCHANGED <<disk, caller, req, inputs, acked>>
  BY DEF Prepared
<1>3. CASE \E k \in effects : mem.effect[p][k] # None
  <2>1. UNCHANGED mem /\ Finish(s, "err")
    BY <1>3 DEF Prepared, Transaction
  <2>2. /\ pc' \in [Sessions -> PC] /\ lease' = None /\ pc'[s] = "err"
        /\ \A u \in Sessions \ {s} : pc'[u] = pc[u]
    BY <1>1, <2>1 DEF Finish, IInv, TypeOK, PC, Returned
  <2>3. TypeOK'
    BY <1>2, <2>1, <2>2 DEF IInv, TypeOK
  <2>4. AckedIsDurable'
    BY <1>2 DEF IInv, AckedIsDurable
  <2>5. QED
    BY <1>1, <1>2, <2>1, <2>2, <2>3, <2>4, NoneAssumption, QuietStep
<1>4. CASE \A k \in effects : mem.effect[p][k] = None
  <2>1. /\ mem' = [mem EXCEPT !.result[t] = rec, !.effect[p] = eff]
        /\ pc' = [pc EXCEPT ![s] = "commit"] /\ lease' = lease
    BY <1>1, <1>4 DEF Prepared, Transaction
  <2>2. mem \in Store
    BY DEF IInv, TypeOK
  <2>3. rec \in Record
    BY <1>1 DEF IInv, TypeOK, Record
  <2>4. eff \in [EffectKeys -> TaskIds \cup {None}]
    BY <1>1, <2>2 DEF Store
  <2>5. /\ rec.principal = p /\ rec.req = req[s] /\ rec.success = success
        /\ rec.output = output /\ rec.effects = effects /\ rec.used = inputs[s]
        /\ \A k \in EffectKeys : eff[k] = IF k \in effects THEN t ELSE mem.effect[p][k]
        /\ rec # None /\ t # None
    BY <1>1, <2>3, NoneAssumption
  <2>6. success \/ effects = {}
    BY DEF Prepared
  <2>7. req[s].id = t
    OBVIOUS
  <2> HIDE DEF t, p, rec, eff
  <2>8. /\ mem'.binding = mem.binding
        /\ mem'.result = [mem.result EXCEPT ![t] = rec]
        /\ mem'.effect = [mem.effect EXCEPT ![p] = eff]
        /\ mem' \in Store
    <3>1. mem' = [mem EXCEPT !.result = [mem.result EXCEPT ![t] = rec],
                             !.effect = [mem.effect EXCEPT ![p] = eff]]
      BY <2>1, <2>2 DEF Store
    <3>2. [mem.result EXCEPT ![t] = rec] \in [TaskIds -> Record \cup {None}]
      BY <2>2, <2>3 DEF Store
    <3>3. [mem.effect EXCEPT ![p] = eff] \in [Principals -> [EffectKeys -> TaskIds \cup {None}]]
      BY <2>2, <2>4 DEF Store
    <3>4. QED
      BY <2>2, <3>1, <3>2, <3>3 DEF Store
  <2>9. /\ mem'.result[t] = rec
        /\ \A x \in TaskIds : x # t => mem'.result[x] = mem.result[x]
        /\ \A k \in EffectKeys : mem'.effect[p][k] = IF k \in effects THEN t ELSE mem.effect[p][k]
        /\ \A q \in Principals : q # p => mem'.effect[q] = mem.effect[q]
    BY <1>1, <2>2, <2>5, <2>8 DEF Store
  <2>10. TypeOK'
    <3>1. pc' \in [Sessions -> PC]
      BY <2>1 DEF IInv, TypeOK, PC, HoldsLease
    <3>2. QED
      BY <1>2, <2>1, <2>8, <3>1 DEF IInv, TypeOK
  <2>11. ResultsFromBoundCalls(mem')
    <3> SUFFICES ASSUME NEW x \in TaskIds, mem'.result[x] # None
                 PROVE  /\ mem'.result[x].req.id = x
                        /\ mem'.binding[x] = [principal |-> mem'.result[x].principal,
                                              req |-> mem'.result[x].req]
                        /\ \A d \in mem'.result[x].req.deps :
                             /\ mem'.result[d] # None
                             /\ mem'.result[d].success
                             /\ mem'.result[d].principal = mem'.result[x].principal
                             /\ mem'.result[d].output = mem'.result[x].used[d]
      BY DEF ResultsFromBoundCalls
    <3>1. CASE x = t
      <4>1. \A d \in req[s].deps : d # t /\ d \in TaskIds
        BY <1>1 DEF InputsStored, Request
      <4>2. QED
        BY <1>1, <2>5, <2>7, <2>8, <2>9, <3>1, <4>1 DEF InputsStored, p
    <3>2. CASE x # t
      <4>1. mem'.result[x] = mem.result[x] /\ mem.result[x] \in Record
        BY <2>2, <2>9, <3>2 DEF Store
      <4>2. \A d \in mem.result[x].req.deps : d \in TaskIds /\ mem.result[d] # None
        <5>1. mem.result[x].req.deps \subseteq TaskIds
          BY <4>1 DEF Record, Request
        <5>2. mem.result[x] # None
          BY <4>1, NoneAssumption
        <5>3. ResultsFromBoundCalls(mem)
          BY DEF IInv, LedgerConsistent, Consistent
        <5>4. \A d \in mem.result[x].req.deps : mem.result[d] # None
          BY <5>2, <5>3, Zenon DEF ResultsFromBoundCalls
        <5>5. QED
          BY <5>1, <5>4
      <4>3. \A d \in mem.result[x].req.deps : d # t
        BY <1>1, <4>2
      <4>4. QED
        BY <2>8, <2>9, <4>1, <4>2, <4>3
           DEF IInv, LedgerConsistent, Consistent, ResultsFromBoundCalls
    <3>3. QED
      BY <3>1, <3>2
  <2>12. EffectsMatchResults(mem')
    <3>1. ASSUME NEW x \in TaskIds, mem'.result[x] # None, NEW k \in mem'.result[x].effects
          PROVE  mem'.effect[mem'.result[x].principal][k] = x
      <4>1. CASE x = t
        BY <2>5, <2>9, <3>1, <4>1
      <4>2. CASE x # t
        <5>1. mem'.result[x] = mem.result[x] /\ mem.result[x] \in Record
          BY <2>2, <2>9, <3>1, <4>2 DEF Store
        <5>2. /\ mem.result[x].principal \in Principals /\ k \in EffectKeys
              /\ mem.effect[mem.result[x].principal][k] = x
          BY <3>1, <5>1 DEF Record, IInv, LedgerConsistent, Consistent, EffectsMatchResults
        <5>3. mem.result[x].principal = p => k \notin effects
          BY <1>4, <5>2, NoneAssumption DEF p
        <5>4. QED
          BY <2>9, <5>1, <5>2, <5>3
      <4>3. QED
        BY <4>1, <4>2
    <3>2. ASSUME NEW q \in Principals, NEW k \in EffectKeys, mem'.effect[q][k] # None
          PROVE  /\ mem'.result[mem'.effect[q][k]] # None
                 /\ mem'.result[mem'.effect[q][k]].success
                 /\ mem'.result[mem'.effect[q][k]].principal = q
                 /\ k \in mem'.result[mem'.effect[q][k]].effects
      <4>1. CASE q = p /\ k \in effects
        BY <2>5, <2>6, <2>9, <4>1
      <4>2. CASE ~(q = p /\ k \in effects)
        <5>1. mem'.effect[q][k] = mem.effect[q][k]
          BY <2>9, <4>2
        <5>2. mem.effect[q][k] \in TaskIds /\ mem.result[mem.effect[q][k]] # None
          BY <2>2, <3>2, <5>1 DEF Store, IInv, LedgerConsistent, Consistent, EffectsMatchResults
        <5>3. mem'.result[mem.effect[q][k]] = mem.result[mem.effect[q][k]]
          BY <1>1, <2>9, <5>2
        <5>4. QED
          BY <3>2, <5>1, <5>3 DEF IInv, LedgerConsistent, Consistent, EffectsMatchResults
      <4>3. QED
        BY <4>1, <4>2
    <3>3. QED
      BY <3>1, <3>2 DEF EffectsMatchResults
  <2>13. LedgerConsistent' /\ AckedIsDurable'
    BY <1>2, <2>11, <2>12 DEF IInv, LedgerConsistent, AckedIsDurable, Consistent
  <2>14. DiskWithinMem'
    <3>1. \A x \in TaskIds : disk.result[x] # None => x # t
      BY <1>1 DEF IInv, DiskWithinMem
    <3>2. \A k \in EffectKeys : disk.effect[p][k] # None => k \notin effects
      BY <1>1, <1>4 DEF IInv, DiskWithinMem, p
    <3>3. QED
      BY <1>2, <2>8, <2>9, <3>1, <3>2 DEF IInv, DiskWithinMem
  <2>15. SessionInv'
    <3>1. \A u \in Sessions : u # s => pc'[u] = pc[u] /\ pc[u] \notin HoldsLease
      BY <1>1, <2>1 DEF IInv, SessionInv, TypeOK
    <3>2. pc'[s] = "commit"
      BY <2>1 DEF IInv, TypeOK
    <3>3. ASSUME NEW u \in Sessions, req[u] \in Request, InputsStored(u) PROVE InputsStored(u)'
      <4>1. \A d \in req[u].deps : d # t /\ d \in TaskIds
        BY <1>1, <3>3 DEF InputsStored, Request
      <4>2. QED
        BY <1>2, <2>9, <3>3, <4>1 DEF InputsStored
    <3>4. ASSUME NEW u \in Sessions, u # s
          PROVE  /\ (pc'[u] \in HoldsLease) <=> (lease' = u)
                 /\ pc'[u] \in HoldsLease \cup {"waiting"} =>
                      caller'[u] \in Principals /\ req'[u] \in Request /\ InputsStored(u)'
                 /\ pc'[u] \notin {"bind", "prepare", "hit", "commit"}
      BY <1>1, <1>2, <2>1, <3>1, <3>3, <3>4 DEF IInv, SessionInv, HoldsLease
    <3>5. /\ lease' = s
          /\ caller'[s] \in Principals /\ req'[s] \in Request /\ InputsStored(s)'
          /\ mem'.result[req'[s].id] # None
      BY <1>1, <1>2, <2>1, <2>5, <2>7, <2>9, <3>3 DEF p
    <3>6. QED
      BY <3>2, <3>4, <3>5 DEF SessionInv, HoldsLease
  <2>16. QED
    BY <2>10, <2>13, <2>14, <2>15 DEF IInv
<1>5. QED
  BY <1>3, <1>4

(***************************************************************************)
(* A background flush, and a crash with recovery from disk.                *)
(***************************************************************************)
LEMMA ProcessStep ==
  ASSUME IInv, BackgroundFlush \/ Crash
  PROVE  IInv'
<1>1. CASE BackgroundFlush
  <2>1. TypeOK' /\ LedgerConsistent' /\ DiskWithinMem'
    BY <1>1 DEF BackgroundFlush, IInv, TypeOK, LedgerConsistent, DiskWithinMem
  <2>2. AckedIsDurable'
    <3>1. ASSUME NEW a \in acked PROVE mem.result[a.id] = a.record
      BY NoneAssumption DEF IInv, TypeOK, Receipt, AckedIsDurable, DiskWithinMem
    <3>2. QED
      BY <1>1, <3>1 DEF BackgroundFlush, AckedIsDurable
  <2>3. SessionInv'
    BY <1>1 DEF BackgroundFlush, IInv, SessionInv, InputsStored
  <2>4. QED
    BY <2>1, <2>2, <2>3 DEF IInv
<1>2. CASE Crash
  <2>1. TypeOK'
    BY <1>2 DEF Crash, IInv, TypeOK, NoInputs, PC
  <2>2. LedgerConsistent' /\ AckedIsDurable' /\ DiskWithinMem'
    BY <1>2 DEF Crash, IInv, LedgerConsistent, AckedIsDurable, DiskWithinMem
  <2>3. SessionInv'
    BY <1>2, NoneAssumption DEF Crash, SessionInv, HoldsLease
  <2>4. QED
    BY <2>1, <2>2, <2>3 DEF IInv
<1>3. QED
  BY <1>1, <1>2

-----------------------------------------------------------------------------
(***************************************************************************)
(* Every step of the ledger preserves the invariant.                       *)
(***************************************************************************)
LEMMA NextIInv == IInv /\ [Next]_ledgerVars => IInv'
<1> SUFFICES ASSUME IInv, [Next]_ledgerVars PROVE IInv'
  OBVIOUS
<1>1. CASE UNCHANGED ledgerVars
  <2>1. TypeOK' /\ LedgerConsistent' /\ AckedIsDurable' /\ DiskWithinMem'
    BY <1>1 DEF ledgerVars, IInv, TypeOK, LedgerConsistent, AckedIsDurable, DiskWithinMem
  <2>2. SessionInv'
    BY <1>1 DEF ledgerVars, IInv, SessionInv, InputsStored
  <2>3. QED
    BY <2>1, <2>2 DEF IInv
<1>2. ASSUME NEW s \in Sessions, NEW p \in Principals, NEW r \in Requests, Call(s, p, r)
      PROVE  IInv'
  BY <1>2, CallStep
<1>3. ASSUME NEW s \in Sessions, Acquire(s) \/ Flushes(s) PROVE IInv'
  BY <1>3, AcquireStep, FlushStep
<1>4. ASSUME NEW s \in Sessions, HandlerReturns(s) PROVE IInv'
  BY <1>4, LeaveStep, CommitStep DEF HandlerReturns
<1>5. ASSUME NEW s \in Sessions, Return(s) \/ Cancel(s) PROVE IInv'
  BY <1>5, LeaveStep
<1>6. QED
  BY <1>1, <1>2, <1>3, <1>4, <1>5, ProcessStep DEF Next

(***************************************************************************)
(* The inductive invariant holds in every reachable state of the ledger.   *)
(***************************************************************************)
THEOREM InvariantHolds == Spec => []IInv
  BY InitIInv, NextIInv, PTL DEF Spec

(***************************************************************************)
(* Type correctness of the ledger, its sessions and its receipts.          *)
(***************************************************************************)
THEOREM TypeCorrect == Spec => []TypeOK
<1>1. IInv => TypeOK
  BY DEF IInv
<1>2. QED
  BY <1>1, InvariantHolds, PTL

(***************************************************************************)
(* The ledger a process sees and the one a crash would leave are           *)
(* consistent: results come from the bound call and from the stored        *)
(* outputs of its dependencies, and effects and results are one.           *)
(***************************************************************************)
THEOREM ConsistencyHolds == Spec => []LedgerConsistent
<1>1. IInv => LedgerConsistent
  BY DEF IInv
<1>2. QED
  BY <1>1, InvariantHolds, PTL

(***************************************************************************)
(* Every result returned by execute_with_dependencies is what a restart    *)
(* would recover.                                                          *)
(***************************************************************************)
THEOREM AcknowledgedResultsSurvive == Spec => []AckedIsDurable
<1>1. IInv => AckedIsDurable
  BY DEF IInv
<1>2. QED
  BY <1>1, InvariantHolds, PTL

(***************************************************************************)
(* The handler never runs for a task that has a stored or acknowledged     *)
(* result, and never for two calls at once.                                *)
(***************************************************************************)
THEOREM ReplayBypassesHandler == Spec => []HandlerOnlyBeforeReceipt
<1>1. IInv => HandlerOnlyBeforeReceipt
  <2> SUFFICES ASSUME IInv, NEW s \in Sessions, pc[s] = "prepare"
               PROVE  /\ mem.result[req[s].id] = None
                      /\ \A a \in acked : a.id # req[s].id
                      /\ \A o \in Sessions \ {s} : pc[o] \notin HoldsLease
    BY DEF HandlerOnlyBeforeReceipt
  <2>1. mem.result[req[s].id] = None /\ lease = s
    BY DEF IInv, SessionInv, HoldsLease
  <2>2. \A a \in acked : mem.result[a.id] = a.record /\ a.record # None
    BY NoneAssumption DEF IInv, TypeOK, Receipt, AckedIsDurable, DiskWithinMem
  <2>3. QED
    BY <2>1, <2>2 DEF IInv, SessionInv
<1>2. QED
  BY <1>1, InvariantHolds, PTL

(***************************************************************************)
(* No step, a crash and recovery included, removes or replaces a flushed   *)
(* binding, result or effect.                                              *)
(***************************************************************************)
THEOREM DurableStateIsFinal == Spec => DurableIsFinal
<1> DEFINE Keeps == /\ \A t \in TaskIds :
                         /\ disk.binding[t] # None => disk'.binding[t] = disk.binding[t]
                         /\ disk.result[t] # None => disk'.result[t] = disk.result[t]
                    /\ \A p \in Principals, k \in EffectKeys :
                         disk.effect[p][k] # None => disk'.effect[p][k] = disk.effect[p][k]
<1>1. IInv /\ [Next]_ledgerVars => [Keeps]_ledgerVars
  <2>1. [Next]_ledgerVars => disk' \in {disk, mem}
    BY DEF Next, ledgerVars, Call, Acquire, Flushes, FlushBinding, Acknowledge, FlushFails,
           HandlerReturns, PrepareRefused, Prepared, Return, Cancel, BackgroundFlush, Crash
  <2>2. IInv /\ disk' \in {disk, mem} => Keeps
    BY DEF IInv, DiskWithinMem
  <2>3. QED
    BY <2>1, <2>2
<1>2. QED
  BY <1>1, InvariantHolds, PTL DEF Spec, DurableIsFinal

-----------------------------------------------------------------------------
(***************************************************************************)
(* The ledger implements TaskReceipts.  Publication is whole because the   *)
(* disk only ever becomes a consistent memory that contains it: an effect  *)
(* that is new on disk cannot belong to a result that was there before,    *)
(* since that result's effects were there with it.                         *)
(***************************************************************************)
THEOREM LedgerImplementsPromise == Spec => KeepsPromise
<1>1. Init => Promise!Init
  BY DEF Init, EmptyStore, Promise!Init
<1>2. IInv /\ IInv' /\ [Next]_ledgerVars => [Promise!Publish]_Promise!receiptVars
  <2> SUFFICES ASSUME IInv, IInv', [Next]_ledgerVars PROVE Promise!Publish
    BY DEF Promise!receiptVars
  <2>1. /\ disk' \in {disk, mem}
        /\ acked' = acked \/ \E s \in Sessions : Acknowledge(s)
    BY DEF Next, ledgerVars, Call, Acquire, Flushes, FlushBinding, FlushFails, Acknowledge,
           HandlerReturns, PrepareRefused, Prepared, Return, Cancel, BackgroundFlush, Crash
  <2>2. Promise!Keeps
    BY <2>1 DEF IInv, DiskWithinMem, Promise!Keeps
  <2>3. EffectsMatchResults(disk) /\ EffectsMatchResults(disk')
    BY DEF IInv, LedgerConsistent, Consistent
  <2>4. disk' \in Store /\ disk \in Store
    BY DEF IInv, TypeOK
  <2>5. Promise!Whole
    <3>1. \A t \in TaskIds : disk'.result[t] # None =>
            \A k \in disk'.result[t].effects : disk'.effect[disk'.result[t].principal][k] = t
      BY <2>3 DEF EffectsMatchResults
    <3>2. ASSUME NEW p \in Principals, NEW k \in EffectKeys,
                 disk.effect[p][k] = None, disk'.effect[p][k] # None
          PROVE  /\ disk.result[disk'.effect[p][k]] = None
                 /\ disk'.result[disk'.effect[p][k]] # None
                 /\ k \in disk'.result[disk'.effect[p][k]].effects
      <4> DEFINE t == disk'.effect[p][k]
      <4>1. t \in TaskIds
        BY <2>4, <3>2 DEF Store
      <4>2. disk'.result[t] # None /\ k \in disk'.result[t].effects /\ disk'.result[t].principal = p
        BY <2>3, <3>2 DEF EffectsMatchResults
      <4> HIDE DEF t
      <4>3. disk.result[t] # None => disk.result[t] = disk'.result[t]
        BY <2>2, <4>1 DEF Promise!Keeps
      <4>4. disk.result[t] # None => disk.effect[p][k] = t
        BY <2>3, <4>1, <4>2, <4>3 DEF EffectsMatchResults
      <4>5. disk.result[t] = None
        BY <3>2, <4>1, <4>4, NoneAssumption
      <4>6. QED
        BY <4>2, <4>5 DEF t
    <3>3. QED
      BY <3>1, <3>2 DEF Promise!Whole
  <2>6. Promise!Honest
    <3>1. \A r \in acked' : disk'.result[r.id] = r.record /\ r.record # None
      BY NoneAssumption DEF IInv, AckedIsDurable, TypeOK, Receipt
    <3>2. acked \subseteq acked'
      BY <2>1 DEF Acknowledge
    <3>3. QED
      BY <3>1, <3>2 DEF Promise!Honest
  <2>7. QED
    BY <2>2, <2>5, <2>6 DEF Promise!Publish
<1>3. QED
  BY <1>1, <1>2, InvariantHolds, PTL DEF Spec, KeepsPromise, Promise!Spec

-----------------------------------------------------------------------------
(***************************************************************************)
(* The worker is a caller of the ledger like any other (it implements the  *)
(* ledger's specification), so that the ledger's invariant is its own;     *)
(* what it adds is where each session stands with its ledger call, its     *)
(* connection and its reply.                                               *)
(***************************************************************************)
\* In store v, a record is the result of what was asked, for whom it was asked.
Answers(v, a, record) ==
  /\ record \in Record
  /\ v.result[a.req.id] = record
  /\ record.principal = Verify[a.cred]
  /\ record.req = a.req

\* The store holds bindings and results of allowed pairs only.
Authorized(v) ==
  \A t \in TaskIds :
    /\ v.binding[t] # None => <<v.binding[t].principal, v.binding[t].req>> \in Authorize
    /\ v.result[t] # None => <<v.result[t].principal, v.result[t].req>> \in Authorize

\* A session in the ledger carries the permitted request it read, and a
\* result it holds, or has flushed, is of that very request.
CallInv ==
  \A s \in Sessions :
    /\ (phase[s] = "execute") <=> (pc[s] # "idle")
    /\ pc[s] # "idle" =>
         /\ work[s] \in Ask
         /\ Permitted(work[s].cred, work[s].req)
         /\ caller[s] = Verify[work[s].cred]
         /\ req[s] = work[s].req
    /\ pc[s] \in {"hit", "commit"} => SameCall(mem.result[req[s].id], s)
    /\ pc[s] = "ok" => Answers(disk, work[s], disk.result[req[s].id])

\* A session at work has a request; the client at its other end, if it is
\* still there, sent it and waits on this session alone; a reply is honest.
ConnectionInv ==
  /\ \A s \in Sessions :
       /\ phase[s] \in Live => work[s] \in Ask
       /\ phase[s] = "reply" => answer[s] = Rejected \/ Answers(disk, work[s], answer[s])
       /\ peer[s] # None =>
            /\ phase[s] \in Live
            /\ link[peer[s]] = "served"
            /\ ask[peer[s]] = work[s]
            /\ \A u \in Sessions : peer[u] = peer[s] => u = s
  /\ \A c \in Clients :
       /\ link[c] # "none" => ask[c] \in Ask
       /\ link[c] # "closed" => reply[c] = None
       /\ reply[c] \in {None, Rejected} \/ Answers(disk, ask[c], reply[c])

\* Nothing is at work in a worker that has stopped.
QuietInv == worker = "stopped" => \A s \in Sessions : phase[s] = "free"

\* The inductive invariant, on top of the ledger's.
WorkerInv ==
  /\ WorkerTypeOK
  /\ CallInv
  /\ ConnectionInv
  /\ QuietInv
  /\ ReceiptsHonest
  /\ Authorized(mem)
  /\ Authorized(disk)

-----------------------------------------------------------------------------
(* The worker is a caller of the ledger *)

(***************************************************************************)
(* A ledger without a call holds nothing, and nobody is connected.         *)
(***************************************************************************)
LEMMA InitWorkerInv == WorkerInit => WorkerInv
<1> SUFFICES ASSUME WorkerInit PROVE WorkerInv
  OBVIOUS
<1>1. WorkerTypeOK
  BY InitIInv DEF WorkerInit, WorkerTypeOK, IInv, Live
<1>2. CallInv
  BY DEF WorkerInit, Init, CallInv
<1>3. ConnectionInv /\ QuietInv /\ ReceiptsHonest
  BY DEF WorkerInit, ConnectionInv, QuietInv, ReceiptsHonest, Live
<1>4. Authorized(mem) /\ Authorized(disk)
  BY DEF WorkerInit, Init, EmptyStore, Authorized
<1>5. QED
  BY <1>1, <1>2, <1>3, <1>4 DEF WorkerInv

(***************************************************************************)
(* A permitted request is called with a principal, never with None.        *)
(***************************************************************************)
LEMMA PermittedCall ==
  ASSUME NEW a \in Ask, Permitted(a.cred, a.req)
  PROVE  /\ Verify[a.cred] \in Principals
         /\ a.req \in Requests
         /\ a.req \in Request
         /\ a.req.id \in TaskIds
         /\ <<Verify[a.cred], a.req>> \in Authorize
  BY VerifyAssumption, RequestsAssumption DEF Ask, Permitted, Request

(***************************************************************************)
(* Every step of the worker is a step of the ledger or leaves it alone.    *)
(***************************************************************************)
LEMMA WorkerStepIsLedgerStep ==
  ASSUME WorkerInv, [WorkerNext]_systemVars
  PROVE  [Next]_ledgerVars
<1>1. ASSUME NEW s \in Sessions, ReadRequest(s) PROVE [Next]_ledgerVars
  <2>1. work[s] \in Ask
    BY <1>1 DEF ReadRequest, WorkerInv, ConnectionInv, Live
  <2>2. CASE Permitted(work[s].cred, work[s].req)
    BY <1>1, <2>1, <2>2, PermittedCall DEF ReadRequest, Next
  <2>3. CASE ~Permitted(work[s].cred, work[s].req)
    BY <1>1, <2>3 DEF ReadRequest
  <2>4. QED
    BY <2>2, <2>3
<1>2. ASSUME NEW s \in Sessions,
             ReadFails(s) \/ Execute(s) \/ ExecuteReturns(s) \/ SendReply(s) \/ ReplyFails(s)
               \/ SessionTimeout(s) \/ Abort(s) \/ Reap(s)
      PROVE  [Next]_ledgerVars
  BY <1>2 DEF ReadFails, Execute, ExecuteReturns, SendReply, ReplyFails, SessionTimeout, Abort,
              DropSession, Reap, Next
<1>3. QED
  BY <1>1, <1>2 DEF WorkerNext, SessionStep, systemVars, Submit, ClientTimeout, ClientReads, Accept,
              Shutdown, Drained, AcceptFails, WorkerCrash, Restart, Next

-----------------------------------------------------------------------------
(* What a ledger step keeps *)

(***************************************************************************)
(* A durable answer stays the durable answer.                              *)
(***************************************************************************)
LEMMA AnswersStay ==
  ASSUME IInv, [Next]_ledgerVars, NEW a \in Ask, NEW r, Answers(disk, a, r)
  PROVE  Answers(disk', a, r)
<1>1. disk' \in {disk, mem}
  BY DEF Next, ledgerVars, Call, Acquire, Flushes, FlushBinding, Acknowledge, FlushFails,
         HandlerReturns, PrepareRefused, Prepared, Return, Cancel, BackgroundFlush, Crash
<1>2. a.req.id \in TaskIds
  BY RequestsAssumption DEF Ask, Request
<1>3. disk.result[a.req.id] # None
  BY NoneAssumption DEF Answers
<1>4. QED
  BY <1>1, <1>2, <1>3 DEF Answers, IInv, DiskWithinMem

(***************************************************************************)
(* A session at work in the ledger binds and commits its own permitted     *)
(* request only.                                                           *)
(***************************************************************************)
LEMMA ExecuteStores ==
  ASSUME IInv, WorkerInv, NEW s \in Sessions, Execute(s)
  PROVE  Authorized(mem') /\ Authorized(disk')
<1> DEFINE t == req[s].id
<1>1. pc[s] # "idle"
  BY DEF Execute, Acquire, Flushes, FlushBinding, Acknowledge, FlushFails, HandlerReturns,
         PrepareRefused, Prepared
<1>2. <<caller[s], req[s]>> \in Authorize /\ t \in TaskIds
  BY <1>1, PermittedCall DEF WorkerInv, CallInv
<1>3. disk' \in {disk, mem}
  BY DEF Execute, Acquire, Flushes, FlushBinding, Acknowledge, FlushFails, HandlerReturns,
         PrepareRefused, Prepared
<1>4. mem \in Store /\ Authorized(mem) /\ Authorized(disk)
  BY DEF WorkerInv, IInv, TypeOK
<1>5. CASE UNCHANGED mem
  BY <1>3, <1>4, <1>5
<1>6. CASE mem' = [mem EXCEPT !.binding[t] = [principal |-> caller[s], req |-> req[s]]]
  <2> DEFINE b == [principal |-> caller[s], req |-> req[s]]
  <2>1. b.principal = caller[s] /\ b.req = req[s] /\ mem' = [mem EXCEPT !.binding[t] = b]
    BY <1>6
  <2> HIDE DEF b, t
  <2>2. mem'.result = mem.result
    BY <1>4, <2>1 DEF Store
  <2>3. \A x \in TaskIds : mem'.binding[x] = IF x = t THEN b ELSE mem.binding[x]
    BY <1>2, <1>4, <2>1 DEF Store
  <2>4. QED
    BY <1>2, <1>3, <1>4, <2>1, <2>2, <2>3 DEF Authorized
<1>7. ASSUME NEW success, NEW output, NEW effects, Transaction(s, success, output, effects), mem' # mem
      PROVE  Authorized(mem')
  <2> DEFINE r == [principal |-> caller[s], req |-> req[s], success |-> success,
                   output |-> output, effects |-> effects, used |-> inputs[s]]
             e == [k \in EffectKeys |-> IF k \in effects THEN t ELSE mem.effect[caller[s]][k]]
  <2>1. mem' = [mem EXCEPT !.result[t] = r, !.effect[caller[s]] = e]
    BY <1>7 DEF Transaction
  <2>2. r.principal = caller[s] /\ r.req = req[s]
    OBVIOUS
  <2> HIDE DEF r, e
  <2>3. mem'.binding = mem.binding
    BY <1>4, <2>1 DEF Store
  <2>4. \A x \in TaskIds : mem'.result[x] = IF x = t THEN r ELSE mem.result[x]
    BY <1>2, <1>4, <2>1 DEF Store
  <2>5. QED
    BY <1>2, <1>4, <2>2, <2>3, <2>4 DEF Authorized
<1>8. QED
  BY <1>3, <1>4, <1>5, <1>6, <1>7
     DEF Execute, Acquire, Replay, Conflict, Bind, Flushes, FlushBinding, Acknowledge, FlushFails,
         HandlerReturns, PrepareRefused, Prepared

(***************************************************************************)
(* Nothing unauthorized is stored by any step.                             *)
(***************************************************************************)
LEMMA AuthorizedStep ==
  ASSUME IInv, WorkerInv, [WorkerNext]_systemVars
  PROVE  Authorized(mem') /\ Authorized(disk')
<1>1. ASSUME NEW s \in Sessions, Execute(s) PROVE Authorized(mem') /\ Authorized(disk')
  BY <1>1, ExecuteStores
<1>2. \/ \E s \in Sessions : Execute(s)
      \/ mem' \in {mem, disk} /\ disk' \in {disk, mem}
  BY DEF WorkerNext, systemVars, ledgerVars, SessionStep, Submit, ClientTimeout, ClientReads, Accept,
         ReadRequest, Call, ReadFails, ExecuteReturns, Return, SendReply, ReplyFails, SessionTimeout, Abort,
         DropSession, Cancel, Reap, Shutdown, Drained, AcceptFails, WorkerCrash, Crash, Restart,
         BackgroundFlush
<1>3. QED
  BY <1>1, <1>2 DEF WorkerInv

-----------------------------------------------------------------------------
(* Steps of clients and sessions that leave the ledger alone *)

(***************************************************************************)
(* A client submits.                                                       *)
(***************************************************************************)
LEMMA SubmitStep ==
  ASSUME WorkerInv, NEW c \in Clients, NEW cred \in Credentials, NEW r \in Requests, Submit(c, cred, r)
  PROVE  WorkerTypeOK' /\ CallInv' /\ ConnectionInv' /\ QuietInv' /\ ReceiptsHonest'
<1>1. [cred |-> cred, req |-> r] \in Ask
  BY DEF Ask
<1>2. WorkerTypeOK'
  BY <1>1 DEF Submit, WorkerInv, WorkerTypeOK, TypeOK, ledgerVars
<1>3. CallInv' /\ QuietInv' /\ ReceiptsHonest'
  BY DEF Submit, WorkerInv, CallInv, QuietInv, ReceiptsHonest, SameCall, ledgerVars
<1>4. ConnectionInv'
  <2>1. \A s \in Sessions : peer[s] # None => peer[s] # c
    BY DEF Submit, WorkerInv, ConnectionInv
  <2>2. reply[c] = None
    BY DEF Submit, WorkerInv, ConnectionInv
  <2>3. QED
    BY <1>1, <2>1, <2>2 DEF Submit, WorkerInv, ConnectionInv, WorkerTypeOK, ledgerVars
<1>5. QED
  BY <1>2, <1>3, <1>4

(***************************************************************************)
(* A client gives up or takes what the closed connection holds.            *)
(***************************************************************************)
LEMMA HangupStep ==
  ASSUME WorkerInv, NEW c \in Clients, ClientTimeout(c) \/ ClientReads(c)
  PROVE  WorkerTypeOK' /\ CallInv' /\ ConnectionInv' /\ QuietInv' /\ ReceiptsHonest'
<1>1. Hangup(c) /\ UNCHANGED <<ledgerVars, worker, phase, work, answer>>
  BY DEF ClientTimeout, ClientReads
<1>2. \/ UNCHANGED received
      \/ /\ Answers(disk, ask[c], reply[c])
         /\ ask[c] \in Ask /\ reply[c] \in Record
         /\ received' = received \cup {[ask |-> ask[c], record |-> reply[c]]}
  BY DEF ClientTimeout, ClientReads, WorkerInv, ConnectionInv, Answers
<1>3. WorkerTypeOK'
  BY <1>1, <1>2 DEF Hangup, WorkerInv, WorkerTypeOK, TypeOK, ledgerVars
<1>4. CallInv' /\ QuietInv'
  BY <1>1 DEF WorkerInv, CallInv, QuietInv, SameCall, ledgerVars
<1>5. ReceiptsHonest'
  BY <1>1, <1>2 DEF WorkerInv, ReceiptsHonest, Answers, ledgerVars
<1>6. ConnectionInv'
  <2>1. /\ link' \in [Clients -> {"none", "queued", "served", "closed"}]
        /\ link'[c] = "none" /\ reply'[c] = None
        /\ \A d \in Clients \ {c} : link'[d] = link[d] /\ ask'[d] = ask[d] /\ reply'[d] = reply[d]
        /\ \A s \in Sessions : peer'[s] = IF peer[s] = c THEN None ELSE peer[s]
    BY <1>1 DEF Hangup, WorkerInv, WorkerTypeOK
  <2>2. \A s \in Sessions : peer[s] \in Clients \cup {None}
    BY DEF WorkerInv, WorkerTypeOK
  <2>3. QED
    BY <1>1, <2>1, <2>2, ClientsAssumption DEF WorkerInv, ConnectionInv, ledgerVars
<1>7. QED
  BY <1>3, <1>4, <1>5, <1>6

(***************************************************************************)
(* A connection is accepted.                                               *)
(***************************************************************************)
LEMMA AcceptStep ==
  ASSUME WorkerInv, NEW c \in Clients, NEW s \in Sessions, Accept(c, s)
  PROVE  WorkerTypeOK' /\ CallInv' /\ ConnectionInv' /\ QuietInv' /\ ReceiptsHonest'
<1>1. ask[c] \in Ask /\ pc[s] = "idle" /\ peer[s] = None
  BY DEF Accept, WorkerInv, ConnectionInv, CallInv, Live
<1>2. WorkerTypeOK'
  BY <1>1 DEF Accept, WorkerInv, WorkerTypeOK, TypeOK, ledgerVars, Live
<1>3. CallInv'
  BY <1>1 DEF Accept, WorkerInv, WorkerTypeOK, CallInv, SameCall, ledgerVars
<1>4. QuietInv' /\ ReceiptsHonest'
  BY DEF Accept, WorkerInv, QuietInv, ReceiptsHonest, ledgerVars
<1>5. ConnectionInv'
  <2>1. \A u \in Sessions : peer[u] # c
    BY ClientsAssumption DEF Accept, WorkerInv, ConnectionInv
  <2>2. /\ phase'[s] = "read" /\ work'[s] = ask[c] /\ peer'[s] = c
        /\ \A u \in Sessions \ {s} : phase'[u] = phase[u] /\ work'[u] = work[u] /\ peer'[u] = peer[u]
        /\ link'[c] = "served" /\ \A d \in Clients \ {c} : link'[d] = link[d]
        /\ UNCHANGED <<disk, answer, ask, reply>>
    BY DEF Accept, WorkerInv, WorkerTypeOK, ledgerVars
  <2>3. \A u \in Sessions : peer[u] \in Clients \cup {None}
    BY DEF WorkerInv, WorkerTypeOK
  <2>4. link[c] = "queued"
    BY DEF Accept
  <2>5. QED
    BY <1>1, <2>1, <2>2, <2>3, <2>4, ClientsAssumption DEF WorkerInv, ConnectionInv, Live
<1>6. QED
  BY <1>2, <1>3, <1>4, <1>5

(***************************************************************************)
(* A session closes its connection with an honest reply or with none,      *)
(* whether it ends, fails, times out or is aborted.                        *)
(***************************************************************************)
LEMMA CloseStep ==
  ASSUME IInv, IInv', WorkerInv, NEW s \in Sessions, phase[s] \in Live, NEW r, CloseWith(s, r),
         r \in {None, Rejected} \/ Answers(disk, work[s], r),
         \/ phase[s] # "execute" /\ UNCHANGED ledgerVars
         \/ phase[s] = "execute" /\ Cancel(s)
  PROVE  WorkerTypeOK' /\ CallInv' /\ ConnectionInv' /\ QuietInv' /\ ReceiptsHonest'
<1>1. UNCHANGED <<mem, disk>>
  BY DEF ledgerVars, Cancel
<1>2. r \in Record \cup {None, Rejected}
  BY DEF Answers
<1>3. WorkerTypeOK'
  BY <1>2 DEF CloseWith, WorkerInv, WorkerTypeOK, IInv, Live
<1>4. CallInv'
  <2>1. /\ \A u \in Sessions \ {s} : /\ phase'[u] = phase[u] /\ work'[u] = work[u]
                                     /\ pc'[u] = pc[u] /\ caller'[u] = caller[u] /\ req'[u] = req[u]
        /\ phase'[s] = "done" /\ pc'[s] = "idle"
    <3>1. CASE phase[s] # "execute" /\ UNCHANGED ledgerVars
      BY <3>1 DEF CloseWith, WorkerInv, WorkerTypeOK, CallInv, ledgerVars
    <3>2. CASE Cancel(s)
      BY <3>2 DEF CloseWith, Cancel, Finish, DropLocals, WorkerInv, WorkerTypeOK, TypeOK
    <3>3. QED
      BY <3>1, <3>2
  <2>2. QED
    BY <1>1, <2>1 DEF WorkerInv, CallInv, SameCall
<1>5. QuietInv' /\ ReceiptsHonest'
  BY <1>1 DEF CloseWith, WorkerInv, QuietInv, ReceiptsHonest, Live
<1>6. ConnectionInv'
  <2>1. /\ phase'[s] = "done" /\ peer'[s] = None
        /\ \A u \in Sessions \ {s} : /\ phase'[u] = phase[u] /\ work'[u] = work[u]
                                     /\ peer'[u] = peer[u] /\ answer'[u] = answer[u]
        /\ \A c \in Clients : link'[c] = IF c = peer[s] THEN "closed" ELSE link[c]
        /\ \A c \in Clients : reply'[c] = IF c = peer[s] THEN r ELSE reply[c]
        /\ UNCHANGED ask
    BY DEF CloseWith, WorkerInv, WorkerTypeOK
  <2>2. \A u \in Sessions : peer[u] \in Clients \cup {None}
    BY DEF WorkerInv, WorkerTypeOK
  <2>3. \A u \in Sessions \ {s} : peer[u] # None => peer[u] # peer[s]
    BY DEF WorkerInv, ConnectionInv
  <2>4. ASSUME NEW c \in Clients
        PROVE  /\ link'[c] # "none" => ask'[c] \in Ask
               /\ link'[c] # "closed" => reply'[c] = None
               /\ reply'[c] \in {None, Rejected} \/ Answers(disk', ask'[c], reply'[c])
    <3>1. CASE c = peer[s]
      BY <1>1, <2>1, <2>2, <3>1, ClientsAssumption DEF WorkerInv, ConnectionInv
    <3>2. CASE c # peer[s]
      BY <1>1, <2>1, <3>2 DEF WorkerInv, ConnectionInv
    <3>3. QED
      BY <3>1, <3>2
  <2>5. ASSUME NEW u \in Sessions
        PROVE  /\ phase'[u] \in Live => work'[u] \in Ask
               /\ phase'[u] = "reply" => answer'[u] = Rejected \/ Answers(disk', work'[u], answer'[u])
               /\ peer'[u] # None =>
                    /\ phase'[u] \in Live
                    /\ link'[peer'[u]] = "served"
                    /\ ask'[peer'[u]] = work'[u]
                    /\ \A o \in Sessions : peer'[o] = peer'[u] => o = u
    <3>1. CASE u = s
      BY <2>1, <3>1 DEF Live
    <3>2. CASE u # s
      BY <1>1, <2>1, <2>2, <2>3, <3>2 DEF WorkerInv, ConnectionInv
    <3>3. QED
      BY <3>1, <3>2
  <2>6. QED
    BY <2>4, <2>5 DEF ConnectionInv
<1>7. QED
  BY <1>3, <1>4, <1>5, <1>6

(***************************************************************************)
(* Joining a finished session, shutting down, failing to accept and        *)
(* binding again.                                                          *)
(***************************************************************************)
LEMMA RunStep ==
  ASSUME WorkerInv,
         \/ \E s \in Sessions : Reap(s)
         \/ Shutdown \/ Drained \/ AcceptFails \/ Restart
  PROVE  WorkerTypeOK' /\ CallInv' /\ ConnectionInv' /\ QuietInv' /\ ReceiptsHonest'
<1>1. UNCHANGED <<ledgerVars, work, peer, answer, ask, reply, received>>
  BY DEF Reap, Shutdown, Drained, AcceptFails, Restart
<1>2. ReceiptsHonest'
  BY <1>1 DEF WorkerInv, ReceiptsHonest, ledgerVars
<1>3. CASE \E s \in Sessions : Reap(s)
  <2>1. PICK s \in Sessions : Reap(s)
    BY <1>3
  <2>2. WorkerTypeOK' /\ QuietInv'
    BY <1>1, <2>1 DEF Reap, WorkerInv, WorkerTypeOK, TypeOK, QuietInv, ledgerVars
  <2>3. CallInv'
    BY <1>1, <2>1 DEF Reap, WorkerInv, WorkerTypeOK, CallInv, SameCall, ledgerVars
  <2>4. ConnectionInv'
    BY <1>1, <2>1 DEF Reap, WorkerInv, WorkerTypeOK, ConnectionInv, Live, ledgerVars
  <2>5. QED
    BY <1>2, <2>2, <2>3, <2>4
<1>4. CASE Shutdown \/ Drained \/ AcceptFails \/ Restart
  <2>1. /\ UNCHANGED phase
        /\ \A c \in Clients : link'[c] = link[c] \/ (link[c] = "queued" /\ link'[c] = "closed")
        /\ link' \in [Clients -> {"none", "queued", "served", "closed"}]
    BY <1>4 DEF Shutdown, Drained, AcceptFails, Restart, ResetBacklog, WorkerInv, WorkerTypeOK
  <2>2. WorkerTypeOK' /\ QuietInv'
    BY <1>1, <1>4, <2>1
       DEF Shutdown, Drained, AcceptFails, Restart, WorkerInv, WorkerTypeOK, TypeOK, QuietInv, ledgerVars
  <2>3. CallInv'
    BY <1>1, <2>1 DEF WorkerInv, CallInv, SameCall, ledgerVars
  <2>4. ConnectionInv'
    <3>1. \A s \in Sessions : peer[s] \in Clients \cup {None}
      BY DEF WorkerInv, WorkerTypeOK
    <3>2. QED
      BY <1>1, <2>1, <3>1 DEF WorkerInv, ConnectionInv, ledgerVars
  <2>5. QED
    BY <1>2, <2>2, <2>3, <2>4
<1>5. QED
  BY <1>3, <1>4

-----------------------------------------------------------------------------
(* Steps through the ledger *)

(***************************************************************************)
(* A session reads, verifies and authorizes a request and calls the        *)
(* ledger, or refuses it.                                                  *)
(***************************************************************************)
LEMMA ReadStep ==
  ASSUME IInv, IInv', WorkerInv, NEW s \in Sessions, ReadRequest(s)
  PROVE  WorkerTypeOK' /\ CallInv' /\ ConnectionInv' /\ QuietInv' /\ ReceiptsHonest'
<1>1. /\ phase[s] = "read" /\ work[s] \in Ask /\ pc[s] = "idle"
      /\ UNCHANGED <<mem, disk, worker, work, peer, link, ask, reply, received>>
  BY DEF ReadRequest, Call, ledgerVars, WorkerInv, ConnectionInv, CallInv, Live
<1>2. \/ /\ Permitted(work[s].cred, work[s].req)
         /\ Call(s, Verify[work[s].cred], work[s].req)
         /\ phase' = [phase EXCEPT ![s] = "execute"]
         /\ UNCHANGED answer
      \/ /\ phase' = [phase EXCEPT ![s] = "reply"]
         /\ answer' = [answer EXCEPT ![s] = Rejected]
         /\ UNCHANGED ledgerVars
  BY DEF ReadRequest
<1>3. WorkerTypeOK'
  BY <1>1, <1>2 DEF WorkerInv, WorkerTypeOK, IInv, Live
<1>4. QuietInv' /\ ReceiptsHonest'
  BY <1>1 DEF WorkerInv, QuietInv, ReceiptsHonest
<1>5. CallInv'
  <2>1. /\ \A u \in Sessions \ {s} : /\ phase'[u] = phase[u] /\ pc'[u] = pc[u]
                                     /\ caller'[u] = caller[u] /\ req'[u] = req[u]
        /\ \/ /\ phase'[s] = "execute" /\ pc'[s] \in {"waiting", "err"}
              /\ Permitted(work[s].cred, work[s].req)
              /\ caller'[s] = Verify[work[s].cred] /\ req'[s] = work[s].req
           \/ phase'[s] = "reply" /\ pc'[s] = "idle"
    BY <1>1, <1>2 DEF Call, WorkerInv, WorkerTypeOK, TypeOK, ledgerVars
  <2>2. QED
    BY <1>1, <2>1 DEF WorkerInv, CallInv, SameCall
<1>6. ConnectionInv'
  <2>1. /\ \A u \in Sessions \ {s} : phase'[u] = phase[u] /\ answer'[u] = answer[u]
        /\ phase'[s] = "execute" \/ (phase'[s] = "reply" /\ answer'[s] = Rejected)
    BY <1>2 DEF WorkerInv, WorkerTypeOK
  <2>2. QED
    BY <1>1, <2>1 DEF WorkerInv, ConnectionInv, Live
<1>7. QED
  BY <1>3, <1>4, <1>5, <1>6

(***************************************************************************)
(* What one step of a ledger call tells its session: a result that is      *)
(* replayed or committed is of this very call, and it is durable once the  *)
(* call has returned it.                                                   *)
(***************************************************************************)
LEMMA ExecuteKnows ==
  ASSUME IInv, IInv', WorkerInv, NEW s \in Sessions, Execute(s)
  PROVE  /\ \A u \in Sessions \ {s} : pc'[u] = pc[u]
         /\ UNCHANGED <<caller, req>>
         /\ pc'[s] # "idle"
         /\ \A t \in TaskIds : mem.result[t] # None => mem'.result[t] = mem.result[t]
         /\ pc'[s] \in {"hit", "commit"} => SameCall(mem'.result[req[s].id], s)
         /\ pc'[s] = "ok" => Answers(disk', work[s], disk'.result[req[s].id])
<1> DEFINE t == req[s].id
<1>1. pc[s] # "idle"
  BY DEF Execute, Acquire, Flushes, FlushBinding, Acknowledge, FlushFails, HandlerReturns,
         PrepareRefused, Prepared
<1>2. /\ work[s] \in Ask /\ caller[s] = Verify[work[s].cred] /\ req[s] = work[s].req
      /\ caller[s] \in Principals /\ t \in TaskIds
  BY <1>1, PermittedCall DEF WorkerInv, CallInv
<1>3. mem \in Store
  BY DEF IInv, TypeOK
<1>4. CASE Acquire(s)
  <2>1. mem'.result = mem.result
    BY <1>3, <1>4 DEF Acquire, Replay, Conflict, Bind, Store
  <2>2. QED
    BY <1>4, <2>1 DEF Acquire, Replay, Conflict, Bind, SameCall, WorkerInv, WorkerTypeOK, TypeOK
<1>5. CASE FlushBinding(s) \/ FlushFails(s) \/ PrepareRefused(s)
  BY <1>5 DEF FlushBinding, FlushFails, PrepareRefused, Finish, WorkerInv, WorkerTypeOK, TypeOK
<1>6. CASE Acknowledge(s)
  <2>1. /\ mem.result[t] # None /\ SameCall(mem.result[t], s)
        /\ UNCHANGED <<mem, caller, req>> /\ disk' = mem
        /\ pc' = [pc EXCEPT ![s] = "ok"]
    BY <1>6 DEF Acknowledge, Finish, IInv, SessionInv, WorkerInv, CallInv
  <2>2. mem.result[t] \in Record
    BY <1>2, <1>3, <2>1 DEF Store
  <2>3. Answers(disk', work[s], disk'.result[t])
    BY <1>2, <2>1, <2>2 DEF Answers, SameCall
  <2>4. QED
    BY <2>1, <2>3 DEF WorkerInv, WorkerTypeOK, TypeOK
<1>7. ASSUME NEW success, NEW output, NEW effects, Prepared(s, success, output, effects)
      PROVE  /\ \A u \in Sessions \ {s} : pc'[u] = pc[u]
             /\ UNCHANGED <<caller, req>>
             /\ pc'[s] \in {"err", "commit"}
             /\ \A x \in TaskIds : mem.result[x] # None => mem'.result[x] = mem.result[x]
             /\ pc'[s] = "commit" => SameCall(mem'.result[t], s)
  <2> DEFINE r == [principal |-> caller[s], req |-> req[s], success |-> success,
                   output |-> output, effects |-> effects, used |-> inputs[s]]
             e == [k \in EffectKeys |-> IF k \in effects THEN t ELSE mem.effect[caller[s]][k]]
  <2>1. \/ mem' = mem /\ pc' = [pc EXCEPT ![s] = "err"]
        \/ /\ mem' = [mem EXCEPT !.result[t] = r, !.effect[caller[s]] = e]
           /\ pc' = [pc EXCEPT ![s] = "commit"]
           /\ mem.result[t] = None
    BY <1>7 DEF Prepared, Transaction, Finish
  <2>2. r.principal = caller[s] /\ r.req = req[s]
    OBVIOUS
  <2>3. UNCHANGED <<caller, req>>
    BY <1>7 DEF Prepared
  <2> HIDE DEF r, e, t
  <2>4. CASE mem' = [mem EXCEPT !.result[t] = r, !.effect[caller[s]] = e]
    <3>1. \A x \in TaskIds : mem'.result[x] = IF x = t THEN r ELSE mem.result[x]
      BY <1>2, <1>3, <2>4 DEF Store
    <3>2. QED
      BY <1>2, <2>1, <2>2, <2>3, <3>1 DEF SameCall, WorkerInv, WorkerTypeOK, TypeOK
  <2>5. CASE mem' = mem /\ pc' = [pc EXCEPT ![s] = "err"]
    BY <2>3, <2>5 DEF WorkerInv, WorkerTypeOK, TypeOK
  <2>6. QED
    BY <2>1, <2>4, <2>5
<1>8. QED
  BY <1>4, <1>5, <1>6, <1>7 DEF Execute, Flushes, HandlerReturns

(***************************************************************************)
(* A ledger call of a session proceeds.                                    *)
(***************************************************************************)
LEMMA ExecuteStep ==
  ASSUME IInv, IInv', WorkerInv, [Next]_ledgerVars, NEW s \in Sessions, Execute(s)
  PROVE  WorkerTypeOK' /\ CallInv' /\ ConnectionInv' /\ QuietInv' /\ ReceiptsHonest'
<1>1. UNCHANGED workerVars /\ phase[s] = "execute"
  BY DEF Execute
<1>2. WorkerTypeOK' /\ QuietInv'
  BY <1>1 DEF WorkerInv, WorkerTypeOK, QuietInv, IInv, workerVars
<1>3. CallInv'
  <2>1. ASSUME NEW u \in Sessions, u # s
        PROVE  /\ pc'[u] \in {"hit", "commit"} => SameCall(mem'.result[req[u].id], u)
               /\ pc'[u] = "ok" => Answers(disk', work[u], disk'.result[req[u].id])
    <3>1. pc'[u] = pc[u]
      BY <2>1, ExecuteKnows
    <3>2. CASE pc[u] \in {"hit", "commit"}
      <4>1. mem.result[req[u].id] # None /\ SameCall(mem.result[req[u].id], u) /\ req[u].id \in TaskIds
        BY <3>2, PermittedCall DEF IInv, SessionInv, WorkerInv, CallInv
      <4>2. QED
        BY <3>1, <3>2, <4>1, ExecuteKnows
    <3>3. CASE pc[u] = "ok"
      <4>1. Answers(disk, work[u], disk.result[req[u].id]) /\ work[u] \in Ask /\ req[u] = work[u].req
        BY <3>3 DEF WorkerInv, CallInv
      <4>2. Answers(disk', work[u], disk.result[req[u].id])
        BY <4>1, AnswersStay
      <4>3. QED
        BY <3>1, <3>3, <4>1, <4>2 DEF Answers
    <3>4. QED
      BY <3>1, <3>2, <3>3
  <2>2. /\ pc'[s] \in {"hit", "commit"} => SameCall(mem'.result[req[s].id], s)
        /\ pc'[s] = "ok" => Answers(disk', work[s], disk'.result[req[s].id])
        /\ pc'[s] # "idle" /\ pc[s] # "idle"
    BY <1>1, ExecuteKnows DEF WorkerInv, CallInv
  <2>3. /\ \A u \in Sessions \ {s} : pc'[u] = pc[u]
        /\ UNCHANGED <<caller, req, phase, work>>
    BY <1>1, ExecuteKnows DEF workerVars
  <2>4. QED
    BY <1>1, <2>1, <2>2, <2>3 DEF WorkerInv, CallInv, SameCall
<1>4. ConnectionInv'
  <2>1. \A a \in Ask : \A r : Answers(disk, a, r) => Answers(disk', a, r)
    BY AnswersStay
  <2>2. \A c \in Clients : reply[c] = None \/ ask[c] \in Ask
    BY DEF WorkerInv, ConnectionInv
  <2>3. QED
    BY <1>1, <2>1, <2>2 DEF WorkerInv, ConnectionInv, workerVars, Live
<1>5. ReceiptsHonest'
  <2>1. ASSUME NEW e \in received PROVE Answers(disk', e.ask, e.record)
    BY AnswersStay DEF WorkerInv, WorkerTypeOK, ReceiptsHonest, Answers
  <2>2. QED
    BY <1>1, <2>1 DEF ReceiptsHonest, Answers, workerVars
<1>6. QED
  BY <1>2, <1>3, <1>4, <1>5

(***************************************************************************)
(* The call has returned: what it returned as a success is the reply.      *)
(***************************************************************************)
LEMMA ReturnStep ==
  ASSUME IInv, IInv', WorkerInv, NEW s \in Sessions, ExecuteReturns(s)
  PROVE  WorkerTypeOK' /\ CallInv' /\ ConnectionInv' /\ QuietInv' /\ ReceiptsHonest'
<1>1. /\ phase[s] = "execute" /\ pc[s] \in Returned /\ UNCHANGED <<mem, disk>>
      /\ UNCHANGED <<worker, work, peer, link, ask, reply, received>>
      /\ phase' = [phase EXCEPT ![s] = "reply"]
      /\ answer' = [answer EXCEPT ![s] = IF pc[s] = "ok" THEN mem.result[req[s].id] ELSE Rejected]
  BY DEF ExecuteReturns, Return
<1>2. pc[s] = "ok" => Answers(disk, work[s], mem.result[req[s].id])
  <2> SUFFICES ASSUME pc[s] = "ok" PROVE Answers(disk, work[s], mem.result[req[s].id])
    OBVIOUS
  <2>1. Answers(disk, work[s], disk.result[req[s].id]) /\ req[s].id \in TaskIds
    BY PermittedCall DEF WorkerInv, CallInv
  <2>2. disk.result[req[s].id] # None
    BY <2>1, NoneAssumption DEF Answers
  <2>3. QED
    BY <2>1, <2>2 DEF IInv, DiskWithinMem
<1>3. WorkerTypeOK'
  BY <1>1, <1>2 DEF WorkerInv, WorkerTypeOK, IInv, Live, Answers
<1>4. QuietInv' /\ ReceiptsHonest'
  BY <1>1 DEF WorkerInv, QuietInv, ReceiptsHonest
<1>5. CallInv'
  <2>1. /\ \A u \in Sessions \ {s} : /\ phase'[u] = phase[u] /\ pc'[u] = pc[u]
                                     /\ caller'[u] = caller[u] /\ req'[u] = req[u]
        /\ phase'[s] = "reply" /\ pc'[s] = "idle"
    BY <1>1 DEF ExecuteReturns, Return, DropLocals, WorkerInv, WorkerTypeOK, TypeOK
  <2>2. QED
    BY <1>1, <2>1 DEF WorkerInv, CallInv, SameCall
<1>6. ConnectionInv'
  <2>1. /\ \A u \in Sessions \ {s} : phase'[u] = phase[u] /\ answer'[u] = answer[u]
        /\ phase'[s] = "reply"
        /\ answer'[s] = Rejected \/ Answers(disk, work[s], answer'[s])
    BY <1>1, <1>2 DEF WorkerInv, WorkerTypeOK
  <2>2. QED
    BY <1>1, <2>1 DEF WorkerInv, ConnectionInv, Live
<1>7. QED
  BY <1>3, <1>4, <1>5, <1>6

(***************************************************************************)
(* The process dies: sessions and connections are gone, receipts are not.  *)
(***************************************************************************)
LEMMA CrashStep ==
  ASSUME IInv, IInv', WorkerInv, WorkerCrash
  PROVE  WorkerTypeOK' /\ CallInv' /\ ConnectionInv' /\ QuietInv' /\ ReceiptsHonest'
<1>1. WorkerTypeOK'
  BY DEF WorkerCrash, WorkerInv, WorkerTypeOK, IInv, Live
<1>2. CallInv' /\ QuietInv' /\ ReceiptsHonest'
  BY DEF WorkerCrash, Crash, WorkerInv, CallInv, QuietInv, ReceiptsHonest
<1>3. ConnectionInv'
  BY DEF WorkerCrash, Crash, WorkerInv, WorkerTypeOK, ConnectionInv, Live
<1>4. QED
  BY <1>1, <1>2, <1>3

(***************************************************************************)
(* Sled flushes on its own.                                                *)
(***************************************************************************)
LEMMA BackgroundStep ==
  ASSUME IInv, IInv', WorkerInv, [Next]_ledgerVars, BackgroundFlush, UNCHANGED workerVars
  PROVE  WorkerTypeOK' /\ CallInv' /\ ConnectionInv' /\ QuietInv' /\ ReceiptsHonest'
<1>1. UNCHANGED <<mem, pc, caller, req>>
  BY DEF BackgroundFlush
<1>2. \A a \in Ask : \A r : Answers(disk, a, r) => Answers(disk', a, r)
  BY AnswersStay
<1>3. WorkerTypeOK' /\ QuietInv'
  BY DEF WorkerInv, WorkerTypeOK, QuietInv, IInv, workerVars
<1>4. CallInv'
  <2>1. ASSUME NEW u \in Sessions, pc[u] = "ok" PROVE Answers(disk', work[u], disk'.result[req[u].id])
    <3>1. work[u] \in Ask /\ req[u] = work[u].req /\ Answers(disk, work[u], disk.result[req[u].id])
      BY <2>1 DEF WorkerInv, CallInv
    <3>2. QED
      BY <1>2, <3>1 DEF Answers
  <2>2. QED
    BY <1>1, <2>1 DEF WorkerInv, CallInv, SameCall, workerVars
<1>5. ConnectionInv'
  <2>1. \A c \in Clients : reply[c] = None \/ ask[c] \in Ask
    BY DEF WorkerInv, ConnectionInv
  <2>2. QED
    BY <1>2, <2>1 DEF WorkerInv, ConnectionInv, workerVars, Live
<1>6. ReceiptsHonest'
  <2>1. ASSUME NEW e \in received PROVE Answers(disk', e.ask, e.record)
    BY <1>2 DEF WorkerInv, WorkerTypeOK, ReceiptsHonest, Answers
  <2>2. QED
    BY <2>1 DEF ReceiptsHonest, Answers, workerVars
<1>7. QED
  BY <1>3, <1>4, <1>5, <1>6

(***************************************************************************)
(* Every step of clients, sessions, worker and process keeps the invariant.*)
(***************************************************************************)
LEMMA NextWorkerInv == IInv /\ IInv' /\ WorkerInv /\ [WorkerNext]_systemVars => WorkerInv'
<1> SUFFICES ASSUME IInv, IInv', WorkerInv, [WorkerNext]_systemVars PROVE WorkerInv'
  OBVIOUS
<1> DEFINE Goal == WorkerTypeOK' /\ CallInv' /\ ConnectionInv' /\ QuietInv' /\ ReceiptsHonest'
<1>1. [Next]_ledgerVars /\ Authorized(mem') /\ Authorized(disk')
  BY WorkerStepIsLedgerStep, AuthorizedStep
<1>2. CASE UNCHANGED systemVars
  BY <1>2 DEF systemVars, workerVars, ledgerVars, WorkerInv, WorkerTypeOK, TypeOK, CallInv, ConnectionInv,
              QuietInv, ReceiptsHonest, SameCall
<1>3. ASSUME NEW s \in Sessions,
             ReadFails(s) \/ SendReply(s) \/ ReplyFails(s) \/ SessionTimeout(s) \/ Abort(s)
      PROVE  Goal
  <2>1. CASE SendReply(s)
    <3>1. answer[s] \in {None, Rejected} \/ Answers(disk, work[s], answer[s])
      BY <2>1 DEF SendReply, WorkerInv, ConnectionInv
    <3>2. QED
      BY <2>1, <3>1, CloseStep DEF SendReply, Live
  <2>2. CASE ReadFails(s) \/ ReplyFails(s)
    BY <2>2, CloseStep DEF ReadFails, ReplyFails, Live
  <2>3. CASE SessionTimeout(s) \/ Abort(s)
    <3>1. CloseWith(s, None) /\ phase[s] \in Live
      BY <2>3 DEF SessionTimeout, Abort, DropSession
    <3>2. \/ phase[s] # "execute" /\ UNCHANGED ledgerVars
          \/ phase[s] = "execute" /\ Cancel(s)
      BY <2>3 DEF SessionTimeout, Abort, DropSession
    <3>3. QED
      BY <3>1, <3>2, CloseStep
  <2>4. QED
    BY <1>3, <2>1, <2>2, <2>3
<1>4. ASSUME NEW s \in Sessions, ReadRequest(s) \/ Execute(s) \/ ExecuteReturns(s) PROVE Goal
  BY <1>1, <1>4, ReadStep, ExecuteStep, ReturnStep
<1>5. ASSUME NEW c \in Clients PROVE ClientTimeout(c) \/ ClientReads(c) => Goal
  BY HangupStep
<1>6. ASSUME NEW c \in Clients, NEW s \in Sessions, Accept(c, s) PROVE Goal
  BY <1>6, AcceptStep
<1>7. ASSUME NEW c \in Clients, NEW cred \in Credentials, NEW r \in Requests, Submit(c, cred, r) PROVE Goal
  BY <1>7, SubmitStep
<1>8. ASSUME WorkerCrash \/ (BackgroundFlush /\ UNCHANGED workerVars) PROVE Goal
  BY <1>1, <1>8, CrashStep, BackgroundStep
<1>9. ASSUME (\E s \in Sessions : Reap(s)) \/ Shutdown \/ Drained \/ AcceptFails \/ Restart PROVE Goal
  BY <1>9, RunStep
<1> HIDE DEF Goal
<1>10. WorkerNext => Goal
  BY <1>3, <1>4, <1>5, <1>6, <1>7, <1>8, <1>9 DEF WorkerNext, SessionStep
<1>11. QED
  BY <1>1, <1>2, <1>10 DEF Goal, WorkerInv

-----------------------------------------------------------------------------
(* Theorems *)

(***************************************************************************)
(* Both invariants hold in every reachable state of worker and clients.    *)
(***************************************************************************)
LEMMA WorkerInvariantHolds == WorkerSpec => [](IInv /\ WorkerInv)
<1>1. WorkerInit => IInv /\ WorkerInv
  BY InitIInv, InitWorkerInv DEF WorkerInit
<1>2. IInv /\ WorkerInv /\ [WorkerNext]_systemVars => IInv' /\ WorkerInv'
  BY WorkerStepIsLedgerStep, NextIInv, NextWorkerInv
<1>3. QED
  BY <1>1, <1>2, PTL DEF WorkerSpec

(***************************************************************************)
(* The worker uses the ledger as a caller may: with its sessions, its      *)
(* verifier, its clients, its deadlines and its restarts it implements the *)
(* ledger's specification.                                                 *)
(***************************************************************************)
THEOREM WorkerImplementsLedger == WorkerSpec => Spec
<1>1. WorkerInit => Init
  BY DEF WorkerInit
<1>2. WorkerInv /\ [WorkerNext]_systemVars => [Next]_ledgerVars
  BY WorkerStepIsLedgerStep
<1>3. QED
  BY <1>1, <1>2, WorkerInvariantHolds, PTL DEF WorkerSpec, Spec

(***************************************************************************)
(* And so the worker keeps the promise of TaskReceipts: what its clients   *)
(* are acknowledged is published whole, once, and survives every crash.    *)
(***************************************************************************)
THEOREM WorkerKeepsPromise == WorkerSpec => KeepsPromise
  BY WorkerImplementsLedger, LedgerImplementsPromise, PTL

(***************************************************************************)
(* What submit returns is durable, of the task submitted and of the        *)
(* principal it was submitted for; nothing unauthorized is stored; a       *)
(* worker that has stopped has no session left in the ledger.              *)
(***************************************************************************)
THEOREM WorkerIsSafe == WorkerSpec => []WorkerSafe
<1>1. IInv /\ WorkerInv => WorkerSafe
  <2> SUFFICES ASSUME IInv, WorkerInv PROVE WorkerSafe
    OBVIOUS
  <2>1. OnlyAuthorizedStored
    BY DEF WorkerInv, Authorized, OnlyAuthorizedStored
  <2>2. StoppedIsQuiet
    <3> SUFFICES ASSUME worker = "stopped"
                 PROVE  lease = None /\ \A s \in Sessions : pc[s] = "idle" /\ peer[s] = None
      BY DEF StoppedIsQuiet
    <3>1. \A s \in Sessions : pc[s] = "idle" /\ peer[s] = None
      BY DEF WorkerInv, QuietInv, CallInv, ConnectionInv, Live
    <3>2. lease = None
      BY <3>1 DEF IInv, TypeOK, SessionInv, HoldsLease
    <3>3. QED
      BY <3>1, <3>2
  <2>3. QED
    BY <2>1, <2>2 DEF WorkerInv, WorkerSafe
<1>2. QED
  BY <1>1, WorkerInvariantHolds, PTL
=============================================================================
