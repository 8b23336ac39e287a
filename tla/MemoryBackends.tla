--------------------------- MODULE MemoryBackends ---------------------------
(***************************************************************************)
(* The three stores behind MemoryStore: a concurrent map that a restart    *)
(* empties, sled, whose writes are buffered until a flush, and RocksDB.    *)
(* Searches and lists walk the store entry by entry beside the writers:    *)
(* in the map and in sled they see it as it is when they get there, in     *)
(* RocksDB as it was when the iterator was created. A memory is an id, the *)
(* key it is ordered by, and a label, which stands for its content and     *)
(* its tags.                                                               *)
(***************************************************************************)
EXTENDS Integers, FiniteSets, FiniteSetsExt, SequencesExt, Maps

CONSTANTS
  StoreClients,  \* tasks that call the store
  MemoryKeys,    \* ids of the memories, in key order
  Labels,        \* what searches and tags tell apart
  MaxWrites,     \* bound on the writes in the log
  MaxRestarts    \* bound on the crashes

ASSUME BackendAssumption ==
  MemoryKeys \subseteq Nat \ {0} /\ MaxWrites \in Nat /\ MaxRestarts \in Nat

VARIABLES
  backend,       \* which of the three stores this is
  held,          \* per id, the label of the memory reads see
  writeLog,       \* the writes, in order: <<id, label>>, or <<id, Gone>> for a delete
  durable,       \* how many of them are on disk
  promised,      \* history: the writes a returned flush has fenced
  storeCall,     \* per client, the call it is in
  during,        \* history: per client, what the store held throughout and ever during its scan
  restarts

backendVars == <<backend, held, writeLog, durable, promised, storeCall, during, restarts>>

All == "all"
Gone == "gone"
Backends == {"memory", "sled", "rocks"}
NoCall == [op |-> "none", id |-> 0, label |-> Gone, at |-> 0, limit |-> 0, got |-> {}, from |-> EmptyMap,
           mark |-> 0]
NothingSeen == [steady |-> {}, ever |-> {}]

Pairs(m) == {<<i, m[i]>> : i \in DOMAIN m}
AfterWrite(m, w) == IF w[2] = Gone THEN Drop(m, w[1]) ELSE Put(m, w[1], w[2])

\* The log replayed: per id its last write, unless that is a delete.
Standing(ws) ==
  {k \in DOMAIN ws : ws[k][2] # Gone /\ \A j \in DOMAIN ws : j > k => ws[j][1] # ws[k][1]}
Replayed(ws) ==
  [i \in {ws[k][1] : k \in Standing(ws)} |-> ws[CHOOSE k \in Standing(ws) : ws[k][1] = i][2]]

BackendInit ==
  /\ backend \in Backends
  /\ held = EmptyMap /\ writeLog = <<>> /\ durable = 0 /\ promised = <<>> /\ restarts = 0
  /\ storeCall = [c \in StoreClients |-> NoCall]
  /\ during = [c \in StoreClients |-> NothingSeen]

Calls(c, with) == storeCall' = [storeCall EXCEPT ![c] = with]

Writes(w) ==
  /\ Len(writeLog) < MaxWrites
  /\ held' = AfterWrite(held, w)
  /\ writeLog' = Append(writeLog, w)
  /\ during' = [c \in StoreClients |->
       IF storeCall[c].op # "scan" THEN during[c]
       ELSE [steady |-> during[c].steady \cap Pairs(held'), ever |-> during[c].ever \cup Pairs(held')]]
  /\ UNCHANGED <<backend, durable, promised, restarts>>

-----------------------------------------------------------------------------
(* store and delete: one write; an error of the database leaves the store *)

InMemoryStore(i, l) == backend = "memory" /\ Writes(<<i, l>>) /\ UNCHANGED storeCall
SledStore(i, l) == backend = "sled" /\ Writes(<<i, l>>) /\ UNCHANGED storeCall
RocksStore(i, l) == backend = "rocks" /\ Writes(<<i, l>>) /\ UNCHANGED storeCall

\* No-op when there is no such memory.
Deletes(i) == i \in DOMAIN held /\ Writes(<<i, Gone>>) /\ UNCHANGED storeCall

InMemoryDelete(i) == backend = "memory" /\ Deletes(i)
SledDelete(i) == backend = "sled" /\ Deletes(i)
RocksDelete(i) == backend = "rocks" /\ Deletes(i)

-----------------------------------------------------------------------------
(* update: a look, and then an insert whatever happened in between *)

Looks(c, i, l) ==
  /\ storeCall[c] = NoCall /\ i \in DOMAIN held
  /\ Calls(c, [NoCall EXCEPT !.op = "update", !.id = i, !.label = l])
  /\ UNCHANGED <<backend, held, writeLog, durable, promised, during, restarts>>

Inserts(c) ==
  /\ storeCall[c].op = "update"
  /\ Writes(<<storeCall[c].id, storeCall[c].label>>)
  /\ Calls(c, NoCall)

InMemoryUpdate(c, i, l) == backend = "memory" /\ (Looks(c, i, l) \/ Inserts(c))
SledUpdate(c, i, l) == backend = "sled" /\ (Looks(c, i, l) \/ Inserts(c))
RocksUpdate(c, i, l) == backend = "rocks" /\ (Looks(c, i, l) \/ Inserts(c))

-----------------------------------------------------------------------------
(* search, list_by_tag, list_all *)

MatchesLabel(q, l) == q = All \/ q = l

\* Mutant: the limit counts the entries looked at instead of those that match.
LimitReached_Looked(s, view) == Cardinality({i \in DOMAIN view : i <= s.at}) >= s.limit

LimitReached(s, view) == Cardinality(s.got) >= s.limit

WalkStarts(c, q, limit, view) ==
  /\ storeCall[c] = NoCall
  /\ Calls(c, [NoCall EXCEPT !.op = "scan", !.label = q, !.limit = limit, !.from = view])
  /\ during' = [during EXCEPT ![c] = [steady |-> Pairs(held), ever |-> Pairs(held)]]
  /\ UNCHANGED <<backend, held, writeLog, durable, promised, restarts>>

\* The walk s has got to the entry of i.
Advanced(s, view, i) ==
  [s EXCEPT !.at = i,
            !.got = IF MatchesLabel(s.label, view[i]) THEN @ \cup {<<i, view[i]>>} ELSE @]

\* The next entry of the walk, or its end.
WalkGoesOn(c, view) ==
  LET s == storeCall[c]
      ahead == {i \in DOMAIN view : i > s.at}
  IN
  /\ s.op = "scan"
  /\ IF ahead = {} \/ LimitReached(s, view)
     THEN Calls(c, [s EXCEPT !.op = "done", !.from = EmptyMap])
     ELSE Calls(c, Advanced(s, view, Min(ahead)))
  /\ UNCHANGED <<backend, held, writeLog, durable, promised, during, restarts>>

InMemorySearch(c, q, n) ==
  backend = "memory" /\ (WalkStarts(c, q, n, EmptyMap) \/ WalkGoesOn(c, held))

InMemoryList(c, n) ==
  backend = "memory" /\ (WalkStarts(c, All, n, EmptyMap) \/ WalkGoesOn(c, held))

SledSearch(c, q, n) ==
  backend = "sled" /\ (WalkStarts(c, q, n, EmptyMap) \/ WalkGoesOn(c, held))

SledList(c, n) ==
  backend = "sled" /\ (WalkStarts(c, All, n, EmptyMap) \/ WalkGoesOn(c, held))

RocksSearch(c, q, n) ==
  backend = "rocks" /\ (WalkStarts(c, q, n, held) \/ WalkGoesOn(c, storeCall[c].from))

RocksList(c, n) ==
  backend = "rocks" /\ (WalkStarts(c, All, n, held) \/ WalkGoesOn(c, storeCall[c].from))

\* An error of the database, or an entry that does not deserialize, ends it.
WalkFails(c) ==
  /\ backend # "memory" /\ storeCall[c].op = "scan"
  /\ Calls(c, NoCall) /\ during' = [during EXCEPT ![c] = NothingSeen]
  /\ UNCHANGED <<backend, held, writeLog, durable, promised, restarts>>

WalkReturns(c) ==
  /\ storeCall[c].op = "done"
  /\ Calls(c, NoCall) /\ during' = [during EXCEPT ![c] = NothingSeen]
  /\ UNCHANGED <<backend, held, writeLog, durable, promised, restarts>>

-----------------------------------------------------------------------------
(* SledStore.flush, and what a crash leaves *)

FlushBegins(c) ==
  /\ backend = "sled" /\ storeCall[c] = NoCall
  /\ Calls(c, [NoCall EXCEPT !.op = "flush", !.mark = Len(writeLog)])
  /\ UNCHANGED <<backend, held, writeLog, durable, promised, during, restarts>>

\* Mutant: flush hands the writes to the background and does not await them.
FlushReturns_Unawaited(c) ==
  /\ storeCall[c].op = "flush"
  /\ promised' = IF storeCall[c].mark > Len(promised) THEN SubSeq(writeLog, 1, storeCall[c].mark) ELSE promised
  /\ Calls(c, NoCall)
  /\ UNCHANGED <<backend, held, writeLog, durable, during, restarts>>

FlushReturns(c) ==
  LET n == storeCall[c].mark IN
  /\ storeCall[c].op = "flush"
  /\ durable' = IF n > durable THEN n ELSE durable
  /\ promised' = IF n > Len(promised) THEN SubSeq(writeLog, 1, n) ELSE promised
  /\ Calls(c, NoCall)
  /\ UNCHANGED <<backend, held, writeLog, during, restarts>>

FlushFails(c) ==
  /\ storeCall[c].op = "flush"
  /\ Calls(c, NoCall)
  /\ UNCHANGED <<backend, held, writeLog, durable, promised, during, restarts>>

\* The databases write in the background, in the order of the log.
WritesBack ==
  /\ backend # "memory" /\ durable < Len(writeLog)
  /\ durable' = durable + 1
  /\ UNCHANGED <<backend, held, writeLog, promised, storeCall, during, restarts>>

\* SledStore.open, RocksStore.open: what is on disk, read again; every call is gone.
Reopen ==
  /\ restarts < MaxRestarts /\ restarts' = restarts + 1
  /\ writeLog' = IF backend = "memory" THEN <<>> ELSE SubSeq(writeLog, 1, durable)
  /\ held' = Replayed(writeLog')
  /\ storeCall' = [c \in StoreClients |-> NoCall]
  /\ durable' = Len(writeLog')
  /\ during' = [c \in StoreClients |-> NothingSeen]
  /\ UNCHANGED <<backend, promised>>

-----------------------------------------------------------------------------
BackendNext ==
  \/ Reopen \/ WritesBack
  \/ \E i \in MemoryKeys : InMemoryDelete(i) \/ SledDelete(i) \/ RocksDelete(i)
  \/ \E i \in MemoryKeys, l \in Labels : InMemoryStore(i, l) \/ SledStore(i, l) \/ RocksStore(i, l)
  \/ \E c \in StoreClients :
       \/ FlushBegins(c) \/ FlushReturns(c) \/ FlushFails(c) \/ WalkFails(c) \/ WalkReturns(c)
       \/ \E i \in MemoryKeys, l \in Labels :
            InMemoryUpdate(c, i, l) \/ SledUpdate(c, i, l) \/ RocksUpdate(c, i, l)
       \/ \E n \in 1..Cardinality(MemoryKeys) :
            \/ InMemoryList(c, n) \/ SledList(c, n) \/ RocksList(c, n)
            \/ \E q \in Labels : InMemorySearch(c, q, n) \/ SledSearch(c, q, n) \/ RocksSearch(c, q, n)

BackendSpec == BackendInit /\ [][BackendNext]_backendVars

-----------------------------------------------------------------------------
(***************************************************************************)
(* A search or a list beside any writers returns at most its limit, only   *)
(* matching memories the store held at some time during the call, and,     *)
(* when it returns fewer than its limit, every matching memory that was    *)
(* there unchanged from its beginning to its end: an entry deleted or      *)
(* inserted next to the walk never makes it skip another.                  *)
(***************************************************************************)
ScansComplete ==
  \A c \in StoreClients :
    LET s == storeCall[c]
        match(ps) == {p \in ps : MatchesLabel(s.label, p[2])}
    IN s.op = "done" =>
         /\ s.got \subseteq match(during[c].ever)
         /\ Cardinality(s.got) <= s.limit
         /\ Cardinality(s.got) < s.limit => match(during[c].steady) \subseteq s.got

(***************************************************************************)
(* "Call SledStore::flush before acknowledging a durability-sensitive      *)
(* operation": whatever was written before a flush that returned is still  *)
(* in the store, in its order, after any crash, and the store then holds   *)
(* what a prefix of the writes left.                                       *)
(***************************************************************************)
FlushedSurvives == IsPrefix(promised, writeLog) /\ held = Replayed(writeLog)

(***************************************************************************)
(* The three backends keep what they were given: scans beside writers miss *)
(* nothing, and what was flushed survives.                                 *)
(***************************************************************************)
BackendsFaithful == ScansComplete /\ FlushedSurvives
=============================================================================
