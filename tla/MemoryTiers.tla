---------------------------- MODULE MemoryTiers ----------------------------
(***************************************************************************)
(* The memory manager and the consolidator over one store. Recalls, the    *)
(* compaction and the consolidation all work on copies read earlier and    *)
(* write them back with update, which looks whether the memory exists and  *)
(* then inserts it, whatever became of it in between.                      *)
(***************************************************************************)
EXTENDS Integers, FiniteSets, FiniteSetsExt, Maps, Sequences, SequencesExt

CONSTANTS
  MaxMemories,   \* bound on the memories ever stored
  Drafts,        \* what callers store: kind, importance and content, similar to itself only
  Recallers,     \* tasks that call get and recall
  Compactors,    \* tasks that run compact
  Consolidators, \* tasks that run consolidate
  ToWarm, ToHot, \* promotion thresholds
  MaxAccess,     \* bound on access_count
  MaxRecalls     \* bound on the recalls

ASSUME MemoryAssumption ==
  /\ MaxMemories \in Nat /\ ToWarm \in Nat /\ ToHot \in Nat /\ MaxAccess \in Nat
  /\ MaxRecalls \in Nat
  /\ \A d \in Drafts : d.importance \in Nat

VARIABLES
  stored,        \* per memory in the store, what it holds
  memCount,      \* memories stored so far: the next id
  expired,       \* memories past their ttl
  recalls,       \* recalls so far
  job,           \* per task, what it is doing and the copies it works on
  forgotten,     \* history: memories whose forget has returned
  absorbed,      \* history: <<keeper, other>> pairs whose merge was persisted
  mergedAway     \* history: memories deleted by a merge

memoryVars == <<stored, memCount, expired, recalls, job, forgotten, absorbed, mergedAway>>

MemTasks == Recallers \cup Compactors \cup Consolidators
NoCopy == [id |-> 0]
NoJob == [op |-> "idle", todo |-> {}, copy |-> NoCopy, other |-> NoCopy, step |-> "none"]
TopImportance == 2

Memory(id, kind, imp, content, from, tier) ==
  [id |-> id, kind |-> kind, importance |-> imp, content |-> content, from |-> from,
   tier |-> tier, access |-> 0]

MemoryInit ==
  /\ stored = EmptyMap /\ memCount = 0 /\ expired = {} /\ recalls = 0
  /\ job = [p \in MemTasks |-> NoJob]
  /\ forgotten = {} /\ absorbed = {} /\ mergedAway = {}

Copies(ids) == {stored[i] : i \in ids}
Works(p, with) == job' = [job EXCEPT ![p] = with]

-----------------------------------------------------------------------------
(* The manager *)

AssignInitialTier(kind, imp) ==
  IF kind = "Working" \/ imp >= TopImportance THEN "Hot" ELSE "Warm"

StoreMemory(d) ==
  LET id == memCount + 1 IN
  /\ id <= MaxMemories
  /\ memCount' = id
  /\ stored' = Put(stored, id, Memory(id, d.kind, d.importance, d.content, 0,
                                     AssignInitialTier(d.kind, d.importance)))
  /\ UNCHANGED <<expired, recalls, job, forgotten, absorbed, mergedAway>>

Expires(i) ==
  /\ i \in DOMAIN stored /\ expired' = expired \cup {i}
  /\ UNCHANGED <<stored, memCount, recalls, job, forgotten, absorbed, mergedAway>>

Forget(i) ==
  /\ stored' = Drop(stored, i)
  /\ forgotten' = forgotten \cup {i}
  /\ UNCHANGED <<memCount, expired, recalls, job, absorbed, mergedAway>>

\* get reads one memory, recall every one that matches; none past its ttl.
Recall(p, ids) ==
  /\ job[p] = NoJob /\ recalls < MaxRecalls /\ recalls' = recalls + 1
  /\ Works(p, [NoJob EXCEPT !.op = "recall", !.todo = Copies(ids \ expired)])
  /\ UNCHANGED <<stored, memCount, expired, forgotten, absorbed, mergedAway>>

CheckPromotion(m) ==
  IF m.tier = "Cold" /\ m.access >= ToWarm THEN "Warm"
  ELSE IF m.tier = "Warm" /\ m.access >= ToHot THEN "Hot" ELSE m.tier

Accessed(m) == [m EXCEPT !.access = IF @ < MaxAccess THEN @ + 1 ELSE @]
Promoted(m) == [m EXCEPT !.tier = CheckPromotion(m)]

\* Hours since the last access decide; `long` says whether they are too many.
CheckDemotion(m, long) ==
  IF ~long THEN m.tier ELSE IF m.tier = "Hot" THEN "Warm" ELSE "Cold"

Demoted(m, long) ==
  [m EXCEPT !.importance = IF long /\ @ > 0 THEN @ - 1 ELSE @, !.tier = CheckDemotion(m, long)]

CompactBegins(p) ==
  /\ job[p] = NoJob
  /\ Works(p, [NoJob EXCEPT !.op = "compact", !.todo = Copies(DOMAIN stored)])
  /\ UNCHANGED <<stored, memCount, expired, recalls, forgotten, absorbed, mergedAway>>

\* The next memory of a recall or a compaction.
NextRecalled(p, m) ==
  /\ job[p].op = "recall" /\ job[p].copy = NoCopy /\ m \in job[p].todo
  /\ Works(p, [job[p] EXCEPT !.todo = @ \ {m}, !.copy = Promoted(Accessed(m)), !.step = "check"])
  /\ UNCHANGED <<stored, memCount, expired, recalls, forgotten, absorbed, mergedAway>>

NextCompacted(p, m, long) ==
  /\ job[p].op = "compact" /\ job[p].copy = NoCopy /\ m \in job[p].todo
  /\ IF m.id \in expired
     THEN stored' = Drop(stored, m.id) /\ Works(p, [job[p] EXCEPT !.todo = @ \ {m}])
     ELSE /\ Works(p, [job[p] EXCEPT !.todo = @ \ {m}, !.copy = Demoted(m, long), !.step = "check"])
          /\ UNCHANGED stored
  /\ UNCHANGED <<memCount, expired, recalls, forgotten, absorbed, mergedAway>>

-----------------------------------------------------------------------------
(* MemoryStore.update *)

\* Mutant: the merge goes on although its keeper could not be persisted.
AfterFailure_GoesOn(j) ==
  IF j.op = "merge" THEN [j EXCEPT !.step = "delete"] ELSE [j EXCEPT !.copy = NoCopy, !.step = "none"]

\* A recall, a compaction and a reinforcement log the failure; a merge returns
\* it, which ends the consolidation.
AfterFailure(j) ==
  IF j.op = "merge" THEN NoJob ELSE [j EXCEPT !.copy = NoCopy, !.step = "none"]

UpdateChecks(p) ==
  LET j == job[p] IN
  /\ j.step = "check"
  /\ Works(p, IF j.copy.id \in DOMAIN stored THEN [j EXCEPT !.step = "insert"] ELSE AfterFailure(j))
  /\ UNCHANGED <<stored, memCount, expired, recalls, forgotten, absorbed, mergedAway>>

UpdateInserts(p) ==
  LET j == job[p] IN
  /\ j.step = "insert"
  /\ stored' = Put(stored, j.copy.id, j.copy)
  /\ IF j.op = "merge"
     THEN /\ Works(p, [j EXCEPT !.step = "delete"])
          /\ absorbed' = absorbed \cup {<<j.copy.id, j.other.id>>}
     ELSE Works(p, [j EXCEPT !.copy = NoCopy, !.step = "none"]) /\ UNCHANGED absorbed
  /\ UNCHANGED <<memCount, expired, recalls, forgotten, mergedAway>>

JobEnds(p) ==
  /\ job[p].op \in {"recall", "compact", "reinforce"} /\ job[p].todo = {} /\ job[p].copy = NoCopy
  /\ Works(p, NoJob)
  /\ UNCHANGED <<stored, memCount, expired, recalls, forgotten, absorbed, mergedAway>>

-----------------------------------------------------------------------------
(* The consolidator: distill, merge, reinforce *)

\* `other` holds nothing yet; todo is what was created within the lookback.
ConsolidateBegins(p) ==
  /\ job[p] = NoJob
  /\ Works(p, [NoJob EXCEPT !.op = "distill", !.todo = Copies(DOMAIN stored \ expired),
                            !.other = [id |-> 0, left |-> Copies(DOMAIN stored \ expired)]])
  /\ UNCHANGED <<stored, memCount, expired, recalls, forgotten, absorbed, mergedAway>>

\* Mutant: the provenance tag is not looked up.
Distillable_Again(m) == m.kind = "Episodic" /\ m.importance >= 1

\* list_by_tag finds the memory distilled from this one earlier.
Distillable(m) ==
  /\ m.kind = "Episodic" /\ m.importance >= 1
  /\ ~\E i \in DOMAIN stored : stored[i].from = m.id

DistillLooks(p, m) ==
  LET j == job[p] IN
  /\ j.op = "distill" /\ j.copy = NoCopy /\ m \in j.other.left
  /\ Works(p, [j EXCEPT !.other.left = @ \ {m}, !.copy = IF Distillable(m) THEN m ELSE NoCopy])
  /\ UNCHANGED <<stored, memCount, expired, recalls, forgotten, absorbed, mergedAway>>

DistillStores(p) ==
  LET j == job[p]  id == memCount + 1 IN
  /\ j.op = "distill" /\ j.copy # NoCopy /\ id <= MaxMemories
  /\ memCount' = id
  /\ stored' = Put(stored, id, Memory(id, "Semantic", j.copy.importance, j.copy.content, j.copy.id, "Warm"))
  /\ Works(p, [j EXCEPT !.copy = NoCopy])
  /\ UNCHANGED <<expired, recalls, forgotten, absorbed, mergedAway>>

DistillEnds(p) ==
  /\ job[p].op = "distill" /\ job[p].copy = NoCopy /\ job[p].other.left = {}
  /\ Works(p, [job[p] EXCEPT !.op = "merge", !.other = NoCopy])
  /\ UNCHANGED <<stored, memCount, expired, recalls, forgotten, absorbed, mergedAway>>

\* Of one kind, one owner, one provenance, and alike.
Mergeable(m, n) ==
  m.id < n.id /\ m.kind = n.kind /\ m.from = n.from /\ m.content = n.content

\* The older of a pair is the keeper, and the oldest comes first; it is read
\* again, the other is the copy read at the beginning.
MergeReads(p, m, n) ==
  LET j == job[p] IN
  /\ j.op = "merge" /\ j.copy = NoCopy /\ {m, n} \subseteq j.todo /\ Mergeable(m, n)
  /\ m.id \in DOMAIN stored
  /\ \A k \in j.todo : Mergeable(k, m) => k.id \notin DOMAIN stored
  /\ LET keeper == stored[m.id]
     IN Works(p, [j EXCEPT !.other = n, !.step = "check", !.copy =
          [keeper EXCEPT !.access = IF @ + n.access > MaxAccess THEN MaxAccess ELSE @ + n.access,
                         !.importance = IF n.importance > @ THEN n.importance ELSE @]])
  /\ UNCHANGED <<stored, memCount, expired, recalls, forgotten, absorbed, mergedAway>>

MergeDeletes(p) ==
  LET j == job[p] IN
  /\ j.op = "merge" /\ j.step = "delete"
  /\ stored' = Drop(stored, j.other.id)
  /\ mergedAway' = mergedAway \cup {j.other.id}
  /\ Works(p, [j EXCEPT !.todo = @ \ {j.other}, !.other = NoCopy, !.copy = NoCopy, !.step = "none"])
  /\ UNCHANGED <<memCount, expired, recalls, forgotten, absorbed>>

\* The survivors are read again; those accessed more than average are boosted.
MergeEnds(p) ==
  LET survivors == Copies({m.id : m \in job[p].todo} \cap DOMAIN stored)
      total == FoldSet(LAMBDA m, n : n + m.access, 0, survivors)
  IN
  /\ job[p].op = "merge" /\ job[p].copy = NoCopy
  /\ \A m, n \in job[p].todo : Mergeable(m, n) => m.id \notin DOMAIN stored
  /\ Works(p, [NoJob EXCEPT !.op = "reinforce",
       !.todo = {m \in survivors : m.access > 1 /\ m.access * Cardinality(survivors) > total}])
  /\ UNCHANGED <<stored, memCount, expired, recalls, forgotten, absorbed, mergedAway>>

NextReinforced(p, m) ==
  /\ job[p].op = "reinforce" /\ job[p].copy = NoCopy /\ m \in job[p].todo
  /\ Works(p, [job[p] EXCEPT !.todo = @ \ {m}, !.step = "check", !.copy =
       [m EXCEPT !.importance = IF @ < TopImportance THEN @ + 1 ELSE @]])
  /\ UNCHANGED <<stored, memCount, expired, recalls, forgotten, absorbed, mergedAway>>

-----------------------------------------------------------------------------
MemoryUse ==
  \/ \E d \in Drafts : StoreMemory(d)
  \/ \E i \in DOMAIN stored : Forget(i)
  \/ \E p \in MemTasks : UpdateChecks(p) \/ UpdateInserts(p) \/ JobEnds(p)

RecallNext ==
  \E p \in Recallers :
    \/ \E ids \in SUBSET DOMAIN stored : Recall(p, ids)
    \/ \E m \in job[p].todo : NextRecalled(p, m)

CompactNext ==
  \/ \E i \in DOMAIN stored : Expires(i)
  \/ \E p \in Compactors :
       CompactBegins(p) \/ \E m \in job[p].todo, long \in BOOLEAN : NextCompacted(p, m, long)

ConsolidateNext ==
  \E p \in Consolidators :
    \/ ConsolidateBegins(p) \/ DistillStores(p) \/ DistillEnds(p) \/ MergeDeletes(p) \/ MergeEnds(p)
    \/ \E m \in job[p].todo :
         \/ DistillLooks(p, m) \/ NextReinforced(p, m)
         \/ \E n \in job[p].todo : MergeReads(p, m, n)

MemoryNext == MemoryUse \/ RecallNext \/ CompactNext \/ ConsolidateNext

MemorySpec == MemoryInit /\ [][MemoryNext]_memoryVars

-----------------------------------------------------------------------------
(***************************************************************************)
(* However often the consolidation runs, beside recalls, compactions and   *)
(* forgets, at most one memory in the store was distilled from another:    *)
(* what was learned once is not learned twice. (A memory that was          *)
(* forgotten, had expired or was merged away may come back.)               *)
(***************************************************************************)
DistilledOnce ==
  \A i, j \in DOMAIN stored \ (forgotten \cup expired \cup mergedAway) :
    stored[i].from # 0 /\ stored[i].from = stored[j].from => i = j

(***************************************************************************)
(* "Never delete evidence when persisting its merged replacement failed":  *)
(* a memory a merge deleted was absorbed by another that was in the store  *)
(* when the merge was persisted.                                           *)
(***************************************************************************)
MergedWereAbsorbed == \A j \in mergedAway : \E e \in absorbed : e[2] = j

(***************************************************************************)
(* Consolidation, beside recalls and compactions, neither loses what it    *)
(* merges nor learns it twice.                                             *)
(***************************************************************************)
TiersSound == MergedWereAbsorbed /\ DistilledOnce

-----------------------------------------------------------------------------
(***************************************************************************)
(* The working memory of an agent (daf-memory context.rs): a bounded       *)
(* context that evicts what was used longest ago, filled from the store by *)
(* load_context and written back by save_context. The store is awaited     *)
(* between the entries of a save and before those of a load, so other      *)
(* tasks use the context meanwhile.                                        *)
(***************************************************************************)

CONSTANTS
  ContextIds,      \* memories
  ContextCapacity, \* WorkingMemory.capacity
  About,           \* per memory: words, tags, and the ranks of its access time, accesses and importance
  Queries          \* what load_context is asked for: a word, tags, max_memories

ASSUME CapacityAssumption == ContextCapacity \in Nat \ {0} /\ \A q \in Queries : q.max \in Nat

VARIABLES
  context,         \* WorkingMemory.entries, most recently used last
  saved,           \* the store: memory to its kind
  loading,         \* load_context: what the recall returned and is not added yet
  saving,          \* save_context: the snapshot's rest
  recency,         \* history: all memories that were used, by their last use
  evicted          \* history: memories that are out because of the capacity

contextVars == <<context, saved, loading, saving, recency, evicted>>

ContextInit ==
  /\ context = <<>> /\ saved \in {EmptyMap} \cup {Put(EmptyMap, x, "Episodic") : x \in ContextIds}
  /\ loading = <<>> /\ saving = <<>>
  /\ recency = <<>> /\ evicted = {}

Ids(entries) == {entries[k].id : k \in DOMAIN entries}

\* s without what is at these places, of which there is one at most.
WithoutAt(s, places) == IF places = {} THEN s ELSE RemoveAt(s, CHOOSE k \in places : TRUE)

Apart(entries, x) == WithoutAt(entries, {k \in DOMAIN entries : entries[k].id = x})

\* Mutant: a memory that is there already is added again where it is.
Readded_InPlace(m) == IF m.id \in Ids(context) THEN context ELSE Append(context, m)

\* add, before eviction: what has the same ID goes, the memory comes last.
Readded(m) == Append(Apart(context, m.id), m)

Uses(x) == recency' = Append(WithoutAt(recency, {k \in DOMAIN recency : recency[k] = x}), x)

\* add: the front is evicted when there was no room.
Add(m) ==
  LET full == Len(Readded(m)) > ContextCapacity IN
  /\ context' = IF full THEN Tail(Readded(m)) ELSE Readded(m)
  /\ evicted' = (evicted \ {m.id}) \cup IF full THEN {Head(Readded(m)).id} ELSE {}
  /\ Uses(m.id)

\* update_context: a new observation, of the kind that is not persisted.
Observe(x) ==
  /\ x \notin Ids(context) /\ x \notin DOMAIN saved
  /\ Add([id |-> x, kind |-> "Working"])
  /\ UNCHANGED <<saved, loading, saving>>

GetMemory(x) ==
  /\ x \in Ids(context)
  /\ \E k \in DOMAIN context : context[k].id = x /\ Add(context[k])
  /\ UNCHANGED <<saved, loading, saving>>

RemoveMemory(x) ==
  /\ x \in Ids(context)
  /\ context' = Apart(context, x)
  /\ UNCHANGED <<saved, loading, saving, recency, evicted>>

ClearContext ==
  /\ context # <<>> /\ context' = <<>>
  /\ UNCHANGED <<saved, loading, saving, recency, evicted>>

-----------------------------------------------------------------------------
(* load_context and save_context *)

\* relevance_score grows with each of the three; the weights are those of
\* RecallQuery::new, the scale of each is left out.
Relevance(x) == 4 * About[x].accessed + 2 * About[x].accesses + 4 * About[x].importance

\* The filters of execute_recall that load_context sets: content and tags.
Matching(q) == {x \in DOMAIN saved : q.word \in About[x].words /\ q.tags \subseteq About[x].tags}

\* Ranked, the best first and ties in any order, then cut to the limit.
Recalled(q) ==
  {SubSeq(s, 1, Min({q.max, Len(s)})) :
     s \in {r \in SetToSeqs(Matching(q)) : \A j, k \in DOMAIN r : j < k => Relevance(r[j]) >= Relevance(r[k])}}

LoadContext(q) ==
  /\ loading = <<>>
  /\ \E found \in Recalled(q) :
       loading' = [k \in DOMAIN found |-> [id |-> found[k], kind |-> saved[found[k]]]]
  /\ UNCHANGED <<context, saved, saving, recency, evicted>>

LoadNext ==
  /\ loading # <<>>
  /\ Add(Head(loading)) /\ loading' = Tail(loading)
  /\ UNCHANGED <<saved, saving>>

SaveContext ==
  /\ saving = <<>> /\ context # <<>>
  /\ saving' = context
  /\ UNCHANGED <<context, saved, loading, recency, evicted>>

Upgraded(kind) == IF kind = "Working" THEN "Episodic" ELSE kind

\* One entry the store takes or refuses: either way the save goes on.
SaveNext ==
  LET m == Head(saving) IN
  /\ saving # <<>> /\ saving' = Tail(saving)
  /\ saved' = Put(saved, m.id, Upgraded(m.kind)) \/ UNCHANGED saved
  /\ UNCHANGED <<context, loading, recency, evicted>>

-----------------------------------------------------------------------------
ContextNext ==
  \/ \E x \in ContextIds : Observe(x) \/ GetMemory(x) \/ RemoveMemory(x)
  \/ ClearContext
  \/ \E q \in Queries : LoadContext(q)
  \/ LoadNext \/ SaveContext \/ SaveNext

ContextSpec == ContextInit /\ [][ContextNext]_contextVars

-----------------------------------------------------------------------------
(***************************************************************************)
(* "When capacity is exceeded, the least recently used memory is evicted": *)
(* whatever loads, observations and reads came between, the context holds  *)
(* each memory once, within its capacity and in the order of last use, and *)
(* nothing that was evicted was used later than something still there.     *)
(***************************************************************************)
LeastRecentEvicted ==
  LET at(x) == CHOOSE k \in DOMAIN recency : recency[k] = x IN
  /\ Len(context) <= ContextCapacity
  /\ \A j, k \in DOMAIN context : j < k => at(context[j].id) < at(context[k].id)
  /\ \A x \in evicted, y \in Ids(context) : at(x) < at(y)

(***************************************************************************)
(* Neither the tiers nor the working context in front of them forgets what *)
(* it should keep.                                                         *)
(***************************************************************************)
MemorySound == TiersSound /\ LeastRecentEvicted
=============================================================================
