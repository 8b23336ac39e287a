---------------------------- MODULE CoreServices ----------------------------
(***************************************************************************)
(* Two services of the core crate that every other crate may share: the    *)
(* in-memory event bus, which delivers to whoever subscribed and has room, *)
(* and the resource pool with its guards that give back what they took.    *)
(***************************************************************************)
EXTENDS Integers, Sequences, FiniteSets, Maps

CONSTANTS
  Events,        \* events that may be published: kind, source and tags
  Filters,       \* filters of subscribers: sets of kinds, sources and tags
  SubIds,        \* subscription ids
  SubBuffer,     \* events a subscriber's channel holds
  MaxPublished,  \* bound on the events published
  Kinds,         \* kinds of resource
  Holders,       \* owners of a resource guard
  PoolMax        \* max_amount of every limit

ASSUME CoreAssumption ==
  SubBuffer \in Nat /\ MaxPublished \in Nat /\ PoolMax \in Nat /\ IsFiniteSet(Holders)

VARIABLES
  published,     \* history: the events published, in order
  subs,          \* per subscription, its filter and whether its receiver is alive
  inbox,         \* per subscription, the events in its channel
  seen,          \* history: per subscription, from where it counts, what it received, its losses
  usage,         \* per kind with a limit, current_usage
  guards,        \* per holder, the kind and amount of its guard, or none
  disturbed      \* history: a limit was replaced or reset while a guard was out

busVars == <<published, subs, inbox, seen>>
poolVars == <<usage, guards, disturbed>>
coreVars == <<busVars, poolVars>>

NoGuard == [kind |-> "none", amount |-> 0]

CoreInit ==
  /\ published = <<>> /\ subs = EmptyMap
  /\ inbox = [s \in SubIds |-> <<>>]
  /\ seen = [s \in SubIds |-> [from |-> 0, got |-> <<>>, lost |-> 0]]
  /\ usage = EmptyMap
  /\ guards = [h \in Holders |-> NoGuard]
  /\ disturbed = FALSE

-----------------------------------------------------------------------------
(* The event bus *)

\* Mutant: a filter's tags must all be on the event.
Matches_AllTags(f, e) ==
  /\ f.kinds = {} \/ e.kind \in f.kinds
  /\ f.sources = {} \/ e.source \in f.sources
  /\ f.tags \subseteq e.tags

Matches(f, e) ==
  /\ f.kinds = {} \/ e.kind \in f.kinds
  /\ f.sources = {} \/ e.source \in f.sources
  /\ f.tags = {} \/ f.tags \cap e.tags # {}

SubscribeEvents(s, f) ==
  /\ s \notin DOMAIN subs /\ seen[s].from = 0
  /\ subs' = Put(subs, s, [filter |-> f, alive |-> TRUE])
  /\ seen' = [seen EXCEPT ![s].from = Len(published) + 1]
  /\ UNCHANGED <<published, inbox, poolVars>>

UnsubscribeEvents(s) ==
  /\ subs' = Drop(subs, s)
  /\ UNCHANGED <<published, inbox, seen, poolVars>>

\* The receiver goes away and the entry stays: every later try_send fails.
ReceiverDropped(s) ==
  /\ subs[s].alive
  /\ subs' = [subs EXCEPT ![s].alive = FALSE]
  /\ inbox' = [inbox EXCEPT ![s] = <<>>]
  /\ UNCHANGED <<published, seen, poolVars>>

\* The whole loop runs under the lock; a full or dropped receiver is skipped.
Publish(e) ==
  LET addressed == {s \in DOMAIN subs : Matches(subs[s].filter, e)}
      served == {s \in addressed : subs[s].alive /\ Len(inbox[s]) < SubBuffer}
  IN
  /\ Len(published) < MaxPublished
  /\ published' = Append(published, e)
  /\ inbox' = [s \in SubIds |-> IF s \in served THEN Append(inbox[s], e) ELSE inbox[s]]
  /\ seen' = [s \in SubIds |-> IF s \in addressed \ served THEN [seen[s] EXCEPT !.lost = @ + 1]
                               ELSE seen[s]]
  /\ UNCHANGED <<subs, poolVars>>

ReceiveEvent(s) ==
  /\ inbox[s] # <<>>
  /\ seen' = [seen EXCEPT ![s].got = Append(@, Head(inbox[s]))]
  /\ inbox' = [inbox EXCEPT ![s] = Tail(@)]
  /\ UNCHANGED <<published, subs, poolVars>>

EventBusNext ==
  \/ \E s \in SubIds : ReceiveEvent(s) \/ \E f \in Filters : SubscribeEvents(s, f)
  \/ \E s \in DOMAIN subs : UnsubscribeEvents(s) \/ ReceiverDropped(s)
  \/ \E e \in Events : Publish(e)

-----------------------------------------------------------------------------
(* The resource pool *)

GuardsOut == {h \in Holders : guards[h] # NoGuard}

\* A second limit for a kind replaces the first, with nothing in use.
AddLimit(k) ==
  /\ usage' = Put(usage, k, 0)
  /\ disturbed' = (disturbed \/ \E h \in GuardsOut : guards[h].kind = k)
  /\ UNCHANGED <<guards, busVars>>

ResetUsage ==
  /\ usage' = [k \in DOMAIN usage |-> 0]
  /\ disturbed' = (disturbed \/ GuardsOut # {})
  /\ UNCHANGED <<guards, busVars>>

AcquireGuard(h, k, n) ==
  /\ guards[h] = NoGuard
  /\ k \in DOMAIN usage /\ PoolMax - usage[k] >= n
  /\ usage' = [usage EXCEPT ![k] = @ + n]
  /\ guards' = [guards EXCEPT ![h] = [kind |-> k, amount |-> n]]
  /\ UNCHANGED <<disturbed, busVars>>

SaturatingSub(a, b) == IF a > b THEN a - b ELSE 0

\* Mutant: release does not mark the guard, and its drop releases once more.
GivenBack_Twice(g) == SaturatingSub(SaturatingSub(usage[g.kind], g.amount), g.amount)

GivenBack(g) == SaturatingSub(usage[g.kind], g.amount)

\* release and drop alike: the flag keeps the second from releasing again.
ReleaseGuard(h) ==
  /\ guards[h] # NoGuard
  /\ usage' = [usage EXCEPT ![guards[h].kind] = GivenBack(guards[h])]
  /\ guards' = [guards EXCEPT ![h] = NoGuard]
  /\ UNCHANGED <<disturbed, busVars>>

PoolNext ==
  \/ ResetUsage \/ \E k \in Kinds : AddLimit(k)
  \/ \E h \in Holders :
       ReleaseGuard(h) \/ \E k \in Kinds, n \in 1..PoolMax : AcquireGuard(h, k, n)

CoreSpec == CoreInit /\ [][EventBusNext \/ PoolNext]_coreVars

-----------------------------------------------------------------------------
Wanted(f, e) ==
  /\ f.kinds # {} => e.kind \in f.kinds
  /\ f.sources # {} => e.source \in f.sources
  /\ f.tags # {} => \E t \in f.tags : t \in e.tags

\* Places of the published events that subscription s is about.
WantedPlaces(s) == {i \in seen[s].from..Len(published) : Wanted(subs[s].filter, published[i])}

\* The events of q are those of p at some of these places, in the order of p.
PickedInOrder(q, p, places) ==
  \E at \in [DOMAIN q -> places] :
    /\ \A i \in DOMAIN q : q[i] = p[at[i]]
    /\ \A i, j \in DOMAIN q : i < j => at[i] < at[j]

\* What s has received and what is in its channel.
Has(s) == seen[s].got \o inbox[s]

(***************************************************************************)
(* Whatever a subscriber has received or finds in its channel are events   *)
(* published since it subscribed that have one of its kinds, one of its    *)
(* sources and one of its tags (none named: any), none twice and in the    *)
(* order they were published; and a live subscriber misses exactly as many *)
(* of them as found its channel full.                                      *)
(***************************************************************************)
SubscriberSeesMatching ==
  \A s \in DOMAIN subs :
    /\ PickedInOrder(Has(s), published, WantedPlaces(s))
    /\ subs[s].alive => Len(Has(s)) + seen[s].lost = Cardinality(WantedPlaces(s))

\* Units of kind k that are out, each by its holder and its number.
UnitsHeld(k) ==
  {u \in Holders \X (1..PoolMax) : guards[u[1]].kind = k /\ u[2] <= guards[u[1]].amount}
Held(k) == Cardinality(UnitsHeld(k))

(***************************************************************************)
(* Unless somebody replaced or reset a limit while a guard was out, what   *)
(* the pool counts as used is what the guards hold together, and that is   *)
(* within the limit, whichever guards were released and dropped before.    *)
(***************************************************************************)
PoolAccountsForGuards ==
  ~disturbed => \A k \in DOMAIN usage : usage[k] = Held(k) /\ Held(k) <= PoolMax

(***************************************************************************)
(* The event bus and the resource pool account for everything they handed  *)
(* out.                                                                    *)
(***************************************************************************)
CoreSound == SubscriberSeesMatching /\ PoolAccountsForGuards
=============================================================================
