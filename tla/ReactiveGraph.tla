-------------------------- MODULE ReactiveGraph --------------------------
(***************************************************************************)
(* The dependency graph of the ambient reactive runtime                    *)
(* (core/reactive/graph.rs, ReactiveGraph): one shared partition and one   *)
(* partition per World owner.  A shared source has one identity; each      *)
(* owner keeps only a proxy of it, to which its own consumers subscribe.   *)
(*                                                                         *)
(* The graph is driven by a client (core/reactive/mod.rs) that may hold    *)
(* any key ever handed out, however stale.  A method that returns an error *)
(* changes nothing, so it is a step that stutters and only the successful  *)
(* outcome is written as an action.                                        *)
(*                                                                         *)
(* The consumer revision and reclamation stamp of an owner are left out:   *)
(* nothing here reads them.                                                *)
(***************************************************************************)
EXTENDS BitGraph

CONSTANTS
  Worlds,       \* the WorldIds an owner may be added for
  MaxOwners,    \* the largest owner capacity: usize::MAX in the code
  MaxEpoch,     \* the last owner epoch: u64::MAX in the code
  Growth        \* bound: the largest capacity the client reserves

ASSUME OwnerAssumption == MaxOwners \in Nat /\ MaxEpoch \in Nat \ {0}
ASSUME SharedIsNoWorld == "shared" \notin Worlds

VARIABLES
  shared,           \* the shared partition
  owners,           \* Seq of [key, graph, sharedSources]
  capacity,         \* GraphCapacity: the limits every partition is built with
  nextOwnerEpoch

vars == <<shared, owners, capacity, nextOwnerEpoch>>

Shared == [world |-> "shared", epoch |-> 0]
OwnerKeyOf(world, epoch) == [world |-> world, epoch |-> epoch]

\* An owner's sharedSources entry of a removed shared source.
NoProxy == [slot |-> 0, generation |-> 0]

GraphCapacity ==
  [sharedSources : Nat, sharedConsumers : Nat, ownerSources : Nat,
   ownerConsumers : Nat, owners : Nat]

NoCapacity ==
  [sharedSources |-> 0, sharedConsumers |-> 0, ownerSources |-> 0,
   ownerConsumers |-> 0, owners |-> 0]

Init ==
  /\ shared = NewGraph(0, 0)
  /\ owners = << >>
  /\ capacity = NoCapacity
  /\ nextOwnerEpoch = 1

-----------------------------------------------------------------------------
(***************************************************************************)
(* Keys.  A client holds keys of the shared partition and of owners, live  *)
(* or long removed; an owner key never comes back, as epochs grow.         *)
(***************************************************************************)
PartitionKeys ==
  {Shared} \cup {OwnerKeyOf(w, e) : w \in Worlds, e \in 1..nextOwnerEpoch - 1}

SlotIds == [slot : 1..SlotLimit, generation : 1..MaxGeneration]

Keys == [partition : PartitionKeys, slot : SlotIds]

\* A proxy is known to the graph alone: its id is in no key.
Proxies(owner) == {owner.sharedSources[s] : s \in DOMAIN owner.sharedSources} \ {NoProxy}

SourceKeys ==
  {key \in Keys : \A i \in DOMAIN owners :
     owners[i].key = key.partition => key.slot \notin Proxies(owners[i])}

LiveSource(o) == {s \in DOMAIN o.sources : o.sources[s].live}

OwnerIndex(key) == {i \in DOMAIN owners : owners[i].key = key}
OwnerOfWorld(world) == {i \in DOMAIN owners : owners[i].key.world = world}

\* owner.shared_sources.get(slot): NoProxy where the entry is None or absent.
ProxyIn(owner, slot) ==
  IF slot \in DOMAIN owner.sharedSources THEN owner.sharedSources[slot] ELSE NoProxy

\* Every owner with its graph changed by Op.
MapOwners(Op(_)) == [i \in DOMAIN owners |-> Op(owners[i])]

SetGraph(i, g) == owners' = [owners EXCEPT ![i].graph = g]

-----------------------------------------------------------------------------
(***************************************************************************)
(* Structural growth.  reserve builds every replacement buffer before it   *)
(* changes anything; a limit above SlotLimit fails there.                  *)
(***************************************************************************)
Larger(a, b) == IF a >= b THEN a ELSE b

Reserve(requested) ==
  LET next ==
        [sharedSources |-> Larger(capacity.sharedSources, requested.sharedSources),
         sharedConsumers |-> Larger(capacity.sharedConsumers, requested.sharedConsumers),
         ownerSources |-> Larger(capacity.ownerSources, requested.ownerSources),
         ownerConsumers |-> Larger(capacity.ownerConsumers, requested.ownerConsumers),
         owners |-> Larger(capacity.owners, requested.owners)]
      growShared == \/ next.sharedSources # capacity.sharedSources
                    \/ next.sharedConsumers # capacity.sharedConsumers
      growOwners == \/ next.ownerSources # capacity.ownerSources
                    \/ next.ownerConsumers # capacity.ownerConsumers
      GrowOwner(o) == [o EXCEPT !.graph = Grown(@, next.ownerSources, next.ownerConsumers)]
  IN  /\ \A f \in DOMAIN next : next[f] <= Growth[f]
      /\ growShared => CanAllocate(next.sharedSources, next.sharedConsumers)
      /\ growOwners /\ owners # << >> =>
           CanAllocate(next.ownerSources, next.ownerConsumers)
      /\ capacity' = next
      /\ shared' = Grown(shared, next.sharedSources, next.sharedConsumers)
      /\ owners' = MapOwners(GrowOwner)
      /\ UNCHANGED nextOwnerEpoch

\* reserve_for_shared_source
ReserveForSharedSource ==
  Reserve([capacity EXCEPT
    !.sharedSources = IF CanAddSource(shared) THEN @ ELSE @ + 1,
    !.ownerSources = IF \A i \in DOMAIN owners : CanAddSource(owners[i].graph)
                       THEN @ ELSE @ + 1])

\* reserve_for_owner_source
ReserveForOwnerSource(world) ==
  \E i \in OwnerOfWorld(world) :
    /\ ~CanAddSource(owners[i].graph)
    /\ Reserve([capacity EXCEPT !.ownerSources = @ + 1])

\* reserve_for_consumer
ReserveForConsumer(key) ==
  \/ /\ key = Shared
     /\ ~CanAddConsumer(shared)
     /\ Reserve([capacity EXCEPT !.sharedConsumers = @ + 1])
  \/ \E i \in OwnerIndex(key) :
       /\ ~CanAddConsumer(owners[i].graph)
       /\ Reserve([capacity EXCEPT !.ownerConsumers = @ + 1])

\* reserve_owner_consumer_headroom, and reserve_owner_consumer_for when key is
\* an owner's: that owner needs one slot more than the headroom.
ReserveOwnerConsumers(key, headroom) ==
  LET Missing(n, have) == IF n > have THEN n - have ELSE 0
      lacking(i) == Missing(headroom + (IF owners[i].key = key THEN 1 ELSE 0),
                            AvailableConsumerSlots(owners[i].graph))
      deficits == {lacking(i) : i \in DOMAIN owners}
                    \cup {Missing(headroom, capacity.ownerConsumers)}
  IN  /\ key = Shared \/ OwnerIndex(key) # {}
      /\ \E deficit \in deficits :
           /\ \A d \in deficits : deficit >= d
           /\ deficit > 0
           /\ Reserve([capacity EXCEPT !.ownerConsumers = @ + deficit])

\* reserve_for_owner
ReserveForOwner ==
  /\ Len(owners) = capacity.owners => capacity.owners < MaxOwners
  /\ Reserve([capacity EXCEPT
       !.owners = IF Len(owners) = @ THEN @ + 1 ELSE @,
       !.ownerSources = Larger(@, Cardinality(LiveSource(shared)))])

-----------------------------------------------------------------------------
(***************************************************************************)
(* Owners.                                                                 *)
(***************************************************************************)

\* The graph and links of a new owner: a proxy per live shared source, in
\* slot order, and None for the others.
ProxySlot(slot) == Cardinality({s \in LiveSource(shared) : s <= slot})

NewOwner(key) ==
  LET proxies == Cardinality(LiveSource(shared))
      empty == NewGraph(capacity.ownerSources, capacity.ownerConsumers)
  IN  [key |-> key,
       graph |-> [empty EXCEPT
          !.sources = [s \in 1..proxies |-> [generation |-> 1, live |-> TRUE]]],
       sharedSources |->
          [s \in DOMAIN shared.sources |->
             IF shared.sources[s].live
               THEN [slot |-> ProxySlot(s), generation |-> 1]
               ELSE NoProxy]]

\* Mutant: the epoch is handed out twice.
AddOwnerSameEpoch(world) ==
  /\ OwnerOfWorld(world) = {}
  /\ Len(owners) # capacity.owners
  /\ nextOwnerEpoch < MaxEpoch
  /\ Cardinality(LiveSource(shared)) <= capacity.ownerSources
  /\ owners' = Append(owners, NewOwner(OwnerKeyOf(world, nextOwnerEpoch)))
  /\ nextOwnerEpoch' = Larger(nextOwnerEpoch, 2)
  /\ UNCHANGED <<shared, capacity>>

AddOwner(world) ==
  /\ OwnerOfWorld(world) = {}
  /\ Len(owners) # capacity.owners
  /\ nextOwnerEpoch < MaxEpoch
  /\ Cardinality(LiveSource(shared)) <= capacity.ownerSources
  /\ CanAllocate(capacity.ownerSources, capacity.ownerConsumers)
  /\ owners' = Append(owners, NewOwner(OwnerKeyOf(world, nextOwnerEpoch)))
  /\ nextOwnerEpoch' = nextOwnerEpoch + 1
  /\ UNCHANGED <<shared, capacity>>

\* swap_remove: the last owner takes the place of the removed one.
RemoveOwner(world) ==
  \E i \in OwnerOfWorld(world) :
    /\ owners' = [j \in 1..Len(owners) - 1 |->
                    IF j = i THEN owners[Len(owners)] ELSE owners[j]]
    /\ UNCHANGED <<shared, capacity, nextOwnerEpoch>>

-----------------------------------------------------------------------------
(***************************************************************************)
(* Sources.  A shared source and its proxies are added and removed in one  *)
(* step, and only after every partition was found able to.                 *)
(***************************************************************************)
RegisterSharedSource ==
  LET id == NextId(shared.sources)
      AddProxy(o) ==
        [o EXCEPT !.graph = AddSource(@),
                  !.sharedSources = Place(@, id.slot, NextId(o.graph.sources))]
  IN  /\ CanAddSource(shared)
      /\ \A i \in DOMAIN owners : CanAddSource(owners[i].graph)
      /\ shared' = AddSource(shared)
      /\ owners' = MapOwners(AddProxy)
      /\ UNCHANGED <<capacity, nextOwnerEpoch>>

RegisterOwnerSource(world) ==
  \E i \in OwnerOfWorld(world) :
    /\ CanAddSource(owners[i].graph)
    /\ SetGraph(i, AddSource(owners[i].graph))
    /\ UNCHANGED <<shared, capacity, nextOwnerEpoch>>

\* renew_owner_source: ModelSource::retire makes every key handed out stale.
RenewOwnerSource(source) ==
  \E i \in OwnerIndex(source.partition) :
    /\ SourceIsLive(owners[i].graph, source.slot)
    /\ SetGraph(i, RenewSource(owners[i].graph, source.slot))
    /\ UNCHANGED <<shared, capacity, nextOwnerEpoch>>

\* Mutant: an owner keeps the link to its removed proxy.
RemoveSharedSourceKeepingLink(source) ==
  LET slot == source.slot.slot
      DropProxy(o) == [o EXCEPT !.graph = RemoveSource(@, ProxyIn(o, slot))]
  IN  /\ source.partition = Shared
      /\ SourceIsLive(shared, source.slot)
      /\ \A i \in DOMAIN owners : SourceIsLive(owners[i].graph, ProxyIn(owners[i], slot))
      /\ shared' = RemoveSource(shared, source.slot)
      /\ owners' = MapOwners(DropProxy)
      /\ UNCHANGED <<capacity, nextOwnerEpoch>>

RemoveSharedSource(source) ==
  LET slot == source.slot.slot
      DropProxy(o) == [o EXCEPT !.graph = RemoveSource(@, ProxyIn(o, slot)),
                                !.sharedSources[slot] = NoProxy]
  IN  /\ source.partition = Shared
      /\ SourceIsLive(shared, source.slot)
      /\ \A i \in DOMAIN owners : SourceIsLive(owners[i].graph, ProxyIn(owners[i], slot))
      /\ shared' = RemoveSource(shared, source.slot)
      /\ owners' = MapOwners(DropProxy)
      /\ UNCHANGED <<capacity, nextOwnerEpoch>>

RemoveOwnerSource(source) ==
  \E i \in OwnerIndex(source.partition) :
    /\ SourceIsLive(owners[i].graph, source.slot)
    /\ SetGraph(i, RemoveSource(owners[i].graph, source.slot))
    /\ UNCHANGED <<shared, capacity, nextOwnerEpoch>>

-----------------------------------------------------------------------------
(***************************************************************************)
(* Consumers and subscriptions.                                            *)
(***************************************************************************)

\* One partition changed by Op, if it is there and passes Test.
OnPartition(key, Test(_), Op(_)) ==
  /\ \/ /\ key = Shared
        /\ Test(shared)
        /\ shared' = Op(shared)
        /\ UNCHANGED owners
     \/ \E i \in OwnerIndex(key) :
          /\ Test(owners[i].graph)
          /\ SetGraph(i, Op(owners[i].graph))
          /\ UNCHANGED shared
  /\ UNCHANGED <<capacity, nextOwnerEpoch>>

\* register_consumer and register_explicit_consumer: a widget needs an owner.
RegisterConsumer(key, target) ==
  LET Op(g) == AddConsumer(g, target)
  IN  /\ key = Shared => target \notin Widgets
      /\ OnPartition(key, CanAddConsumer, Op)

ClearConsumerEdges(consumer) ==
  LET Test(g) == ConsumerIsLive(g, consumer.slot)
      Op(g) == ClearConsumer(g, consumer.slot)
  IN  OnPartition(consumer.partition, Test, Op)

RemoveConsumerNode(consumer) ==
  LET Test(g) == ConsumerIsLive(g, consumer.slot)
      Op(g) == RemoveConsumer(g, consumer.slot)
  IN  OnPartition(consumer.partition, Test, Op)

\* The key of a source inside the partition of a subscriber: a shared source
\* is known to an owner by its proxy, and other partitions never meet.
LocalSource(source, i) ==
  IF source.partition = Shared
    THEN ProxyIn(owners[i], source.slot.slot)
    ELSE source.slot

SubscribeShared(source, consumer) ==
  LET Test(g) == SourceIsLive(g, source.slot) /\ ConsumerIsLive(g, consumer.slot)
      Op(g) == Subscribe(g, source.slot, consumer.slot)
  IN  /\ source.partition = Shared
      /\ consumer.partition = Shared
      /\ OnPartition(Shared, Test, Op)

SubscribeInOwner(source, consumer) ==
  \E i \in OwnerIndex(consumer.partition) :
    LET local == LocalSource(source, i)
    IN  /\ \/ source.partition = Shared /\ SourceIsLive(shared, source.slot)
           \/ source.partition = consumer.partition
        /\ SourceIsLive(owners[i].graph, local)
        /\ ConsumerIsLive(owners[i].graph, consumer.slot)
        /\ SetGraph(i, Subscribe(owners[i].graph, local, consumer.slot))
        /\ UNCHANGED <<shared, capacity, nextOwnerEpoch>>

-----------------------------------------------------------------------------
(***************************************************************************)
(* Publication and the pending queues.                                     *)
(***************************************************************************)

\* publish_kind of a shared source: every partition is checked, then every
\* partition is published to.
PublishShared(source, kind) ==
  LET Proxy(o) == ProxyIn(o, source.slot.slot)
      Wake(o) == [o EXCEPT !.graph = PublishChecked(@, Proxy(o), kind)]
  IN  /\ source.partition = Shared
      /\ CheckPublish(shared, source.slot, kind)
      /\ \A i \in DOMAIN owners : CheckPublish(owners[i].graph, Proxy(owners[i]), kind)
      /\ shared' = PublishChecked(shared, source.slot, kind)
      /\ owners' = MapOwners(Wake)
      /\ UNCHANGED <<capacity, nextOwnerEpoch>>

PublishOwner(source, kind) ==
  \E i \in OwnerIndex(source.partition) :
    /\ CheckPublish(owners[i].graph, source.slot, kind)
    /\ SetGraph(i, PublishChecked(owners[i].graph, source.slot, kind))
    /\ UNCHANGED <<shared, capacity, nextOwnerEpoch>>

\* take_pending_any_kind: the shared queue first, then the owners in order.
\* A queue scanned in vain still loses its stale entries.
TakePendingAnyKind(kind) ==
  LET ready == {i \in DOMAIN owners : Takeable(owners[i].graph, kind) # {}}
      turn == CHOOSE i \in ready : \A j \in ready : i <= j
      scanned == IF Takeable(shared, kind) # {} THEN {}
                 ELSE {i \in DOMAIN owners : ready # {} => i <= turn}
  IN  /\ shared' = TakePendingKind(shared, kind)
      /\ owners' = [i \in DOMAIN owners |->
                      IF i \in scanned
                        THEN [owners[i] EXCEPT !.graph = TakePendingKind(@, kind)]
                        ELSE owners[i]]
      /\ UNCHANGED <<capacity, nextOwnerEpoch>>

-----------------------------------------------------------------------------
(***************************************************************************)
(* The graph and its client.                                               *)
(***************************************************************************)

\* The owner consumer headroom the runtime keeps for its ownerless effects.
Headrooms == 0..1

Structure ==
  \/ ReserveForSharedSource
  \/ ReserveForOwner
  \/ \E w \in Worlds : ReserveForOwnerSource(w) \/ AddOwner(w) \/ RemoveOwner(w)
  \/ \E key \in PartitionKeys :
       \/ ReserveForConsumer(key)
       \/ \E headroom \in Headrooms : ReserveOwnerConsumers(key, headroom)

SourceStep ==
  \/ RegisterSharedSource
  \/ \E w \in Worlds : RegisterOwnerSource(w)
  \/ \E source \in SourceKeys :
       \/ RenewOwnerSource(source)
       \/ RemoveSharedSource(source)
       \/ RemoveOwnerSource(source)
       \/ \E kind \in {"Any", "Computed"} :
            PublishShared(source, kind) \/ PublishOwner(source, kind)

ConsumerStep ==
  \/ \E key \in PartitionKeys, target \in Subscriber :
       RegisterConsumer(key, target)
  \/ \E consumer \in Keys :
       \/ ClearConsumerEdges(consumer)
       \/ RemoveConsumerNode(consumer)
       \/ \E source \in SourceKeys :
            SubscribeShared(source, consumer) \/ SubscribeInOwner(source, consumer)
  \/ \E kind \in {"NonComputed", "Computed"} : TakePendingAnyKind(kind)

Next == Structure \/ SourceStep \/ ConsumerStep

Spec == Init /\ [][Next]_vars

-----------------------------------------------------------------------------
(***************************************************************************)
(* Correctness.                                                            *)
(***************************************************************************)
Graphs == {shared} \cup {owners[i].graph : i \in DOMAIN owners}

Owner ==
  [key : [world : Worlds, epoch : Nat], graph : Graph,
   sharedSources : Seq(SlotId \cup {NoProxy})]

\* The state has its type, and every partition has the limits of capacity.
TypeOK ==
  /\ capacity \in GraphCapacity
  /\ nextOwnerEpoch \in 1..MaxEpoch
  /\ GraphTypeOK(shared)
  /\ shared.sourceLimit = capacity.sharedSources
  /\ shared.consumerLimit = capacity.sharedConsumers
  /\ owners \in Seq(Owner)
  /\ Len(owners) <= capacity.owners
  /\ \A i \in DOMAIN owners :
       /\ GraphTypeOK(owners[i].graph)
       /\ owners[i].graph.sourceLimit = capacity.ownerSources
       /\ owners[i].graph.consumerLimit = capacity.ownerConsumers
       /\ Len(owners[i].sharedSources) = Len(shared.sources)

\* A subscription joins a live source and a live consumer, so a slot that is
\* reused never inherits the subscriptions of its last occupant.
EdgesJoinLiveSlots == \A g \in Graphs : EdgesLive(g)

\* The pending queue and the pending flags say the same thing: the queue holds
\* each flagged consumer once, under its current generation, and no other; a
\* removed consumer is flagged no more.
QueueMatchesFlags == \A g \in Graphs : QueueExact(g)

\* Every owner has exactly one live proxy for every live shared source, two
\* sources never share one, and a removed source has none.
ProxiesFaithful ==
  \A i \in DOMAIN owners :
    LET o == owners[i]
    IN  /\ DOMAIN o.sharedSources = DOMAIN shared.sources
        /\ \A s \in DOMAIN shared.sources :
             IF shared.sources[s].live
               THEN SourceIsLive(o.graph, o.sharedSources[s])
               ELSE o.sharedSources[s] = NoProxy
        /\ \A s, t \in LiveSource(shared) :
             o.sharedSources[s] = o.sharedSources[t] => s = t

\* One owner per World, under an epoch that was never used before.
OwnersDistinct ==
  /\ \A i \in DOMAIN owners :
       owners[i].key.world \in Worlds /\ owners[i].key.epoch \in 1..nextOwnerEpoch - 1
  /\ \A i, j \in DOMAIN owners :
       \/ owners[i].key.world = owners[j].key.world
       \/ owners[i].key.epoch = owners[j].key.epoch
       => i = j

\* Publishing a live source never finds the queue full: GraphError::Full of
\* kind Pending cannot happen, whatever was published or removed before, so the
\* runtime's expect("bounded signal publication") never fires on it.
PublishFits ==
  \A g \in Graphs : \A s \in LiveSource(g), kind \in PendingKind :
    CheckPublish(g, [slot |-> s, generation |-> g.sources[s].generation], kind)

\* The keys under which a source or consumer can be used.
GraphOf(key) ==
  IF key = Shared THEN {shared} ELSE {owners[i].graph : i \in OwnerIndex(key)}

UsableSource(k) == \E g \in GraphOf(k.partition) : SourceIsLive(g, k.slot)
UsableConsumer(k) == \E g \in GraphOf(k.partition) : ConsumerIsLive(g, k.slot)

\* The generation a slot has reached, and the keys handed out so far: those of
\* a removed owner, and those up to that generation.
Reached(nodes, slot) == IF slot \in DOMAIN nodes THEN nodes[slot].generation ELSE 0

IssuedSource(k) ==
  \A g \in GraphOf(k.partition) : k.slot.generation <= Reached(g.sources, k.slot.slot)
IssuedConsumer(k) ==
  \A g \in GraphOf(k.partition) : k.slot.generation <= Reached(g.consumers, k.slot.slot)

(***************************************************************************)
(* The graph as its client sees it: proxies are the sources they stand     *)
(* for, and a bit of a row is a dependency between two keys.               *)
(***************************************************************************)
Key(partition, slot, nodes) ==
  [partition |-> partition, slot |-> [slot |-> slot, generation |-> nodes[slot].generation]]

LiveKeys(partition, nodes, hidden) ==
  {k \in {Key(partition, s, nodes) : s \in {t \in DOMAIN nodes : nodes[t].live}} :
     k.slot \notin hidden}

depSources ==
  LiveKeys(Shared, shared.sources, {}) \cup
  UNION {LiveKeys(owners[i].key, owners[i].graph.sources, Proxies(owners[i])) :
           i \in DOMAIN owners}

depConsumers ==
  LET keys == LiveKeys(Shared, shared.consumers, {}) \cup
              UNION {LiveKeys(owners[i].key, owners[i].graph.consumers, {}) :
                       i \in DOMAIN owners}
      Target(k) == (CHOOSE g \in GraphOf(k.partition) : TRUE).consumers[k.slot.slot].target
  IN  [k \in keys |-> Target(k)]

\* The shared source a source slot of an owner stands for, or its own key.
SourceBehind(owner, slot) ==
  LET id == [slot |-> slot, generation |-> owner.graph.sources[slot].generation]
  IN  IF id \in Proxies(owner)
        THEN Key(Shared, CHOOSE s \in DOMAIN owner.sharedSources :
                           owner.sharedSources[s] = id, shared.sources)
        ELSE [partition |-> owner.key, slot |-> id]

depEdges ==
  {<<Key(Shared, e[1], shared.sources), Key(Shared, e[2], shared.consumers)>> :
     e \in shared.rows}
  \cup UNION
  {{<<SourceBehind(owners[i], e[1]), Key(owners[i].key, e[2], owners[i].graph.consumers)>> :
      e \in owners[i].graph.rows} : i \in DOMAIN owners}

depPending ==
  LET Queued(partition, g) ==
        {[partition |-> partition, slot |-> g.pending[i]] : i \in DOMAIN g.pending}
  IN  Queued(Shared, shared) \cup
      UNION {Queued(owners[i].key, owners[i].graph) : i \in DOMAIN owners}

Ids ==
  [partition : {Shared} \cup {OwnerKeyOf(w, e) : w \in Worlds, e \in 1..MaxEpoch},
   slot : SlotIds]

Dep == INSTANCE Dependencies WITH
  sources <- depSources, consumers <- depConsumers, deps <- depEdges, pending <- depPending

\* The graph keeps the promise of Dependencies: a publication makes exactly the
\* dependents due, in all partitions at once and through proxies; renewal and
\* removal drop the old dependencies; growth and a failed call change nothing.
ImplementsDependencies == Dep!Spec

\* A key whose source or consumer was removed, renewed or lost with its owner
\* stays stale for ever: what reuses the slot, or the World, has another key.
StaleKeysStayStale ==
  [][ \A k \in Keys :
        /\ IssuedSource(k) /\ ~UsableSource(k) => ~UsableSource(k)'
        /\ IssuedConsumer(k) /\ ~UsableConsumer(k) => ~UsableConsumer(k)' ]_vars
=============================================================================
