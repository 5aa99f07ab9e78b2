------------------------ MODULE ReactiveGraph_proofs ------------------------
(***************************************************************************)
(* The safety of the dependency graph for every number of Worlds, slots,   *)
(* generations and subscribers, and that it implements Dependencies.       *)
(***************************************************************************)
EXTENDS ReactiveGraph, BitGraph_proofs

\* The inductive invariant: every partition is well formed and within the
\* limits that capacity gives it.
IInv == TypeOK /\ EdgesJoinLiveSlots /\ QueueMatchesFlags

\* The same, partition by partition.
PartitionInv ==
  /\ capacity \in GraphCapacity
  /\ nextOwnerEpoch \in 1..MaxEpoch
  /\ GraphInv(shared)
  /\ shared.sourceLimit = capacity.sharedSources
  /\ shared.consumerLimit = capacity.sharedConsumers
  /\ owners \in Seq(Owner)
  /\ Len(owners) <= capacity.owners
  /\ \A i \in DOMAIN owners :
       /\ GraphInv(owners[i].graph)
       /\ owners[i].graph.sourceLimit = capacity.ownerSources
       /\ owners[i].graph.consumerLimit = capacity.ownerConsumers
       /\ Len(owners[i].sharedSources) = Len(shared.sources)

LEMMA IInvIsPartitionInv == IInv <=> PartitionInv
BY DEF IInv, PartitionInv, TypeOK, EdgesJoinLiveSlots, QueueMatchesFlags, Graphs, GraphInv

LEMMA InitPartition == Init => PartitionInv
<1> SUFFICES ASSUME Init PROVE PartitionInv
  OBVIOUS
<1>1. GraphInv(shared)
  BY NewGraphInv DEF Init
<1>2. owners \in Seq(Owner) /\ Len(owners) = 0 /\ DOMAIN owners = {}
  BY DEF Init
<1> QED
  BY <1>1, <1>2, OwnerAssumption
  DEF Init, PartitionInv, GraphCapacity, NoCapacity, NewGraph

-----------------------------------------------------------------------------
(***************************************************************************)
(* One partition changes and the rest stays.                               *)
(***************************************************************************)
LEMMA SharedChanges ==
  ASSUME PartitionInv, GraphInv(shared'), SameFrame(shared, shared'),
         UNCHANGED <<owners, capacity, nextOwnerEpoch>>
  PROVE  PartitionInv'
BY DEF PartitionInv, SameFrame

LEMMA OwnerChanges ==
  ASSUME PartitionInv, NEW i \in DOMAIN owners, NEW h, GraphInv(h),
         h.sourceLimit = owners[i].graph.sourceLimit,
         h.consumerLimit = owners[i].graph.consumerLimit,
         SetGraph(i, h), UNCHANGED <<shared, capacity, nextOwnerEpoch>>
  PROVE  PartitionInv'
<1> DEFINE n == Len(owners)
           o == [owners[i] EXCEPT !.graph = h]
<1>1. owners \in Seq(Owner) /\ n \in Nat /\ DOMAIN owners = 1..n /\ owners[i] \in Owner
  BY DEF PartitionInv
<1>2. h \in Graph
  BY DEF GraphInv, GraphTypeOK
<1>3. /\ o \in Owner /\ o.graph = h /\ o.key = owners[i].key
      /\ o.sharedSources = owners[i].sharedSources
  BY <1>1, <1>2 DEF Owner
<1>4. owners' = [owners EXCEPT ![i] = o]
  BY <1>1 DEF SetGraph
<1> HIDE DEF o
<1>5. /\ owners' \in Seq(Owner) /\ Len(owners') = n /\ DOMAIN owners' = DOMAIN owners
      /\ owners'[i] = o
      /\ \A j \in DOMAIN owners : j # i => owners'[j] = owners[j]
  BY <1>1, <1>3, <1>4
<1>6. \A j \in DOMAIN owners' :
        /\ GraphInv(owners'[j].graph)
        /\ owners'[j].graph.sourceLimit = capacity.ownerSources
        /\ owners'[j].graph.consumerLimit = capacity.ownerConsumers
        /\ Len(owners'[j].sharedSources) = Len(shared.sources)
  BY <1>3, <1>5 DEF PartitionInv
<1> QED BY <1>5, <1>6 DEF PartitionInv

\* An owner as PartitionInv wants it, for a capacity and a number of shared sources.
OwnerOK(o, limits, count) ==
  /\ o \in Owner
  /\ GraphInv(o.graph)
  /\ o.graph.sourceLimit = limits.ownerSources
  /\ o.graph.consumerLimit = limits.ownerConsumers
  /\ Len(o.sharedSources) = count

LEMMA OwnersAreOK ==
  ASSUME PartitionInv, NEW i \in DOMAIN owners
  PROVE  OwnerOK(owners[i], capacity, Len(shared.sources))
BY DEF PartitionInv, OwnerOK

\* Every owner changes at once.
LEMMA OwnersChange ==
  ASSUME PartitionInv, GraphInv(shared'), capacity' \in GraphCapacity,
         shared'.sourceLimit = capacity'.sharedSources,
         shared'.consumerLimit = capacity'.sharedConsumers,
         capacity' = capacity \/ capacity.owners <= capacity'.owners,
         nextOwnerEpoch' = nextOwnerEpoch,
         NEW o, owners' = [i \in DOMAIN owners |-> o[i]],
         \A i \in DOMAIN owners : OwnerOK(o[i], capacity', Len(shared'.sources))
  PROVE  PartitionInv'
<1> DEFINE n == Len(owners)
<1>1. n \in Nat /\ DOMAIN owners = 1..n /\ n <= capacity.owners
  BY DEF PartitionInv
<1>2. \A i \in 1..n : o[i] \in Owner
  BY <1>1 DEF OwnerOK
<1> HIDE DEF n
<1>3. /\ owners' \in Seq(Owner) /\ Len(owners') = n /\ DOMAIN owners' = 1..n
      /\ \A i \in 1..n : owners'[i] = o[i]
  <2>1. owners' = [i \in 1..n |-> o[i]]
    BY <1>1
  <2>2. owners' \in [1..n -> Owner]
    BY <1>2, <2>1
  <2> QED BY <1>1, <2>1, <2>2
<1>4. Len(owners') <= capacity'.owners
  <2>1. capacity.owners \in Nat /\ capacity'.owners \in Nat
    BY DEF PartitionInv, GraphCapacity
  <2> QED BY <1>1, <1>3, <2>1
<1>5. \A j \in DOMAIN owners' :
        /\ GraphInv(owners'[j].graph)
        /\ owners'[j].graph.sourceLimit = capacity'.ownerSources
        /\ owners'[j].graph.consumerLimit = capacity'.ownerConsumers
        /\ Len(owners'[j].sharedSources) = Len(shared'.sources)
  BY <1>1, <1>3 DEF OwnerOK
<1> QED BY <1>3, <1>4, <1>5 DEF PartitionInv

-----------------------------------------------------------------------------
(***************************************************************************)
(* Growth.                                                                 *)
(***************************************************************************)
LEMMA ReservePartition ==
  ASSUME PartitionInv, NEW requested \in GraphCapacity, Reserve(requested)
  PROVE  PartitionInv'
<1> DEFINE o == [i \in DOMAIN owners |->
                   [owners[i] EXCEPT
                      !.graph = Grown(@, capacity'.ownerSources, capacity'.ownerConsumers)]]
<1>1. capacity \in GraphCapacity
  BY DEF PartitionInv
<1>2. /\ capacity' \in GraphCapacity
      /\ capacity.sharedSources <= capacity'.sharedSources
      /\ capacity.sharedConsumers <= capacity'.sharedConsumers
      /\ capacity.ownerSources <= capacity'.ownerSources
      /\ capacity.ownerConsumers <= capacity'.ownerConsumers
      /\ capacity.owners <= capacity'.owners
  BY <1>1 DEF Reserve, GraphCapacity, Larger
<1>3. /\ shared' = Grown(shared, capacity'.sharedSources, capacity'.sharedConsumers)
      /\ owners' = o
      /\ nextOwnerEpoch' = nextOwnerEpoch
  BY DEF Reserve, MapOwners
<1>4. /\ capacity'.sharedSources \in Nat /\ capacity'.sharedConsumers \in Nat
      /\ capacity'.ownerSources \in Nat /\ capacity'.ownerConsumers \in Nat
  BY <1>2 DEF GraphCapacity
<1>5. GraphInv(shared')
  <2>1. GraphInv(shared) /\ shared.sourceLimit <= capacity'.sharedSources
                         /\ shared.consumerLimit <= capacity'.sharedConsumers
    BY <1>2 DEF PartitionInv
  <2> QED BY <1>3, <1>4, <2>1, GrownInv
<1>6. /\ shared'.sourceLimit = capacity'.sharedSources
      /\ shared'.consumerLimit = capacity'.sharedConsumers
      /\ shared'.sources = shared.sources
  <2>1. shared \in Graph
    BY DEF PartitionInv, GraphInv, GraphTypeOK
  <2> QED BY <1>3, <2>1 DEF Grown, Graph
<1>7. \A i \in DOMAIN owners : OwnerOK(o[i], capacity', Len(shared'.sources))
  <2> SUFFICES ASSUME NEW i \in DOMAIN owners
               PROVE  OwnerOK(o[i], capacity', Len(shared'.sources))
    OBVIOUS
  <2> DEFINE g == Grown(owners[i].graph, capacity'.ownerSources, capacity'.ownerConsumers)
  <2>1. OwnerOK(owners[i], capacity, Len(shared.sources))
    BY OwnersAreOK
  <2>2. /\ GraphInv(owners[i].graph)
        /\ owners[i].graph.sourceLimit <= capacity'.ownerSources
        /\ owners[i].graph.consumerLimit <= capacity'.ownerConsumers
    BY <1>2, <2>1 DEF OwnerOK
  <2>3. GraphInv(g)
    BY <1>4, <2>2, GrownInv
  <2>4. /\ g \in Graph /\ g.sourceLimit = capacity'.ownerSources
        /\ g.consumerLimit = capacity'.ownerConsumers
    <3>1. owners[i].graph \in Graph /\ g \in Graph
      BY <2>2, <2>3 DEF GraphInv, GraphTypeOK
    <3> QED BY <3>1 DEF Grown, Graph
  <2>5. o[i] = [owners[i] EXCEPT !.graph = g]
    OBVIOUS
  <2> HIDE DEF g, o
  <2>6. /\ o[i] \in Owner /\ o[i].graph = g
        /\ o[i].sharedSources = owners[i].sharedSources
    BY <2>1, <2>4, <2>5 DEF OwnerOK, Owner
  <2> QED BY <1>6, <2>1, <2>3, <2>4, <2>6 DEF OwnerOK
<1> QED
  <2>1. owners' = [i \in DOMAIN owners |-> o[i]]
    BY <1>3
  <2> HIDE DEF o
  <2> QED BY <1>2, <1>3, <1>5, <1>6, <1>7, <2>1, OwnersChange

LEMMA GrowthPartition ==
  ASSUME PartitionInv,
         \/ ReserveForSharedSource
         \/ ReserveForOwner
         \/ \E w \in Worlds : ReserveForOwnerSource(w)
         \/ \E key \in PartitionKeys :
              \/ ReserveForConsumer(key)
              \/ \E headroom \in Headrooms : ReserveOwnerConsumers(key, headroom)
  PROVE  PartitionInv'
<1>1. capacity \in GraphCapacity
  BY DEF PartitionInv
<1>3. \A c \in Nat : [capacity EXCEPT !.ownerConsumers = @ + c] \in GraphCapacity
  BY <1>1 DEF GraphCapacity
<1>4. CASE ReserveForSharedSource
  <2> DEFINE a == IF CanAddSource(shared) THEN capacity.sharedSources
                                          ELSE capacity.sharedSources + 1
             b == IF \A i \in DOMAIN owners : CanAddSource(owners[i].graph)
                    THEN capacity.ownerSources ELSE capacity.ownerSources + 1
             r == [capacity EXCEPT !.sharedSources = a, !.ownerSources = b]
  <2>1. a \in Nat /\ b \in Nat
    BY <1>1 DEF GraphCapacity
  <2>2. Reserve(r)
    BY <1>4 DEF ReserveForSharedSource
  <2> HIDE DEF a, b
  <2>3. r \in GraphCapacity
    BY <1>1, <2>1 DEF GraphCapacity
  <2> HIDE DEF r
  <2> QED BY <2>2, <2>3, ReservePartition
<1>5. CASE ReserveForOwner
  <2> DEFINE live == Cardinality(LiveSource(shared))
             a == IF Len(owners) = capacity.owners THEN capacity.owners + 1 ELSE capacity.owners
             b == Larger(capacity.ownerSources, live)
             r == [capacity EXCEPT !.owners = a, !.ownerSources = b]
  <2>1. live \in Nat
    <3>1. shared.sources \in Seq(SourceNode)
      BY DEF PartitionInv, GraphInv, GraphTypeOK, Graph
    <3>2. LiveSource(shared) \in SUBSET (1..Len(shared.sources)) /\ Len(shared.sources) \in Nat
      BY <3>1 DEF LiveSource
    <3> QED BY <3>2, FiniteSlots
  <2> HIDE DEF live
  <2>2. a \in Nat /\ b \in Nat
    BY <1>1, <2>1 DEF GraphCapacity, Larger
  <2>3. Reserve(r)
    BY <1>5 DEF ReserveForOwner, live
  <2> HIDE DEF a, b
  <2>4. r \in GraphCapacity
    BY <1>1, <2>2 DEF GraphCapacity
  <2> HIDE DEF r
  <2> QED BY <2>3, <2>4, ReservePartition
<1>6. CASE \E w \in Worlds : ReserveForOwnerSource(w)
  <2> DEFINE r == [capacity EXCEPT !.ownerSources = @ + 1]
  <2>1. r \in GraphCapacity
    BY <1>1 DEF GraphCapacity
  <2>2. Reserve(r)
    BY <1>6 DEF ReserveForOwnerSource
  <2> HIDE DEF r
  <2> QED BY <2>1, <2>2, ReservePartition
<1>7. CASE \E key \in PartitionKeys : ReserveForConsumer(key)
  <2> DEFINE r == [capacity EXCEPT !.sharedConsumers = @ + 1]
             q == [capacity EXCEPT !.ownerConsumers = @ + 1]
  <2>1. r \in GraphCapacity /\ q \in GraphCapacity
    BY <1>1 DEF GraphCapacity
  <2>2. Reserve(r) \/ Reserve(q)
    BY <1>7 DEF ReserveForConsumer
  <2> HIDE DEF r, q
  <2> QED BY <2>1, <2>2, ReservePartition
<1>8. CASE \E key \in PartitionKeys : \E headroom \in Headrooms :
              ReserveOwnerConsumers(key, headroom)
  <2>1. PICK key \in PartitionKeys, headroom \in Headrooms :
               ReserveOwnerConsumers(key, headroom)
    BY <1>8
  <2>2. \A i \in DOMAIN owners : AvailableConsumerSlots(owners[i].graph) \in Int
    <3> SUFFICES ASSUME NEW i \in DOMAIN owners
                 PROVE  AvailableConsumerSlots(owners[i].graph) \in Int
      OBVIOUS
    <3> DEFINE nodes == owners[i].graph.consumers
    <3>1. owners[i].graph \in Graph
      BY DEF PartitionInv, GraphInv, GraphTypeOK
    <3>2. /\ nodes \in Seq(ConsumerNode) /\ Len(nodes) \in Nat /\ DOMAIN nodes = 1..Len(nodes)
          /\ owners[i].graph.consumerLimit \in Nat
      BY <3>1 DEF Graph
    <3>3. Reusable(nodes) \in SUBSET (1..Len(nodes))
      BY <3>2 DEF Reusable
    <3>4. Cardinality(Reusable(nodes)) \in Nat
      BY <3>2, <3>3, FiniteSlots
    <3> QED BY <3>2, <3>4 DEF AvailableConsumerSlots
  <2>3. headroom \in Nat /\ capacity.ownerConsumers \in Nat
    BY <1>1 DEF Headrooms, GraphCapacity
  <2>4. PICK deficit \in Nat : Reserve([capacity EXCEPT !.ownerConsumers = @ + deficit])
    BY <2>1, <2>2, <2>3 DEF ReserveOwnerConsumers
  <2> QED BY <1>3, <2>4, ReservePartition
<1> QED BY <1>4, <1>5, <1>6, <1>7, <1>8

-----------------------------------------------------------------------------
(***************************************************************************)
(* Owners.                                                                 *)
(***************************************************************************)
LEMMA AddOwnerPartition ==
  ASSUME PartitionInv, NEW w \in Worlds, AddOwner(w)
  PROVE  PartitionInv'
<1> DEFINE key == OwnerKeyOf(w, nextOwnerEpoch)
           n == Len(owners)
           o == NewOwner(key)
           live == Cardinality(LiveSource(shared))
           empty == NewGraph(capacity.ownerSources, capacity.ownerConsumers)
           proxies == [s \in 1..live |-> [generation |-> 1, live |-> TRUE]]
           links == [s \in DOMAIN shared.sources |->
                       IF shared.sources[s].live
                         THEN [slot |-> ProxySlot(s), generation |-> 1]
                         ELSE NoProxy]
<1>1. /\ capacity \in GraphCapacity /\ owners \in Seq(Owner) /\ n \in Nat
      /\ n <= capacity.owners /\ shared.sources \in Seq(SourceNode)
      /\ nextOwnerEpoch \in 1..MaxEpoch /\ MaxEpoch \in Nat
      /\ MaxGeneration \in Nat \ {0}
  BY OwnerAssumption, GenerationAssumption
  DEF PartitionInv, GraphInv, GraphTypeOK, Graph
<1>2. LiveSource(shared) \in SUBSET (1..Len(shared.sources)) /\ Len(shared.sources) \in Nat
      /\ DOMAIN shared.sources = 1..Len(shared.sources)
  BY <1>1 DEF LiveSource
<1>3. live \in Nat /\ live <= capacity.ownerSources
  BY <1>2, FiniteSlots DEF AddOwner
<1>4. /\ capacity.ownerSources \in Nat /\ capacity.ownerConsumers \in Nat /\ capacity.owners \in Nat
  BY <1>1 DEF GraphCapacity
<1> HIDE DEF live
<1>5. proxies \in Seq(SourceNode) /\ Len(proxies) = live
  <2>1. [generation |-> 1, live |-> TRUE] \in SourceNode
    BY <1>1 DEF SourceNode
  <2>2. proxies \in [1..live -> SourceNode]
    BY <2>1
  <2> HIDE DEF proxies
  <2> QED BY <1>3, <2>2
<1>6. links \in Seq(SlotId \cup {NoProxy}) /\ Len(links) = Len(shared.sources)
  <2>1. \A s \in DOMAIN shared.sources :
          shared.sources[s].live => ProxySlot(s) \in Nat \ {0}
    <3> SUFFICES ASSUME NEW s \in DOMAIN shared.sources, shared.sources[s].live
                 PROVE  ProxySlot(s) \in Nat \ {0}
      OBVIOUS
    <3> DEFINE T == {t \in LiveSource(shared) : t <= s}
    <3>1. T \in SUBSET (1..Len(shared.sources)) /\ s \in T
      BY <1>2 DEF LiveSource
    <3>2. IsFiniteSet(T) /\ Cardinality(T) \in Nat
      BY <1>2, <3>1, FiniteSlots
    <3>3. Cardinality(T) # 0
      BY <3>1, <3>2, FS_EmptySet
    <3> QED BY <3>2, <3>3 DEF ProxySlot
  <2>2. \A s \in DOMAIN shared.sources : links[s] \in SlotId \cup {NoProxy}
    BY <2>1 DEF SlotId
  <2>3. links \in [1..Len(shared.sources) -> SlotId \cup {NoProxy}]
    BY <1>2, <2>2
  <2> HIDE DEF links
  <2> QED BY <1>2, <2>3
<1>7. o = [key |-> key, graph |-> [empty EXCEPT !.sources = proxies], sharedSources |-> links]
  BY DEF NewOwner, live
<1> DEFINE g == [empty EXCEPT !.sources = proxies]
<1> HIDE DEF proxies, links, o
<1>8. /\ g.sources = proxies /\ g.consumers = << >> /\ g.rows = {} /\ g.pending = << >>
      /\ g.sourceLimit = capacity.ownerSources /\ g.consumerLimit = capacity.ownerConsumers
      /\ g \in Graph
  <2>1. /\ empty.consumers = << >> /\ empty.rows = {} /\ empty.pending = << >>
        /\ empty.sourceLimit = capacity.ownerSources
        /\ empty.consumerLimit = capacity.ownerConsumers
    BY DEF NewGraph
  <2>2. empty \in Graph
    BY <1>4, NewGraphInv DEF GraphInv, GraphTypeOK
  <2> HIDE DEF empty
  <2> QED BY <1>5, <2>1, <2>2 DEF Graph
<1> HIDE DEF g
<1>9. GraphInv(g)
  BY <1>3, <1>4, <1>5, <1>8
  DEF GraphInv, GraphTypeOK, EdgesLive, QueueExact, QueueEntriesFlagged,
      QueueEntriesDistinct, FlaggedAreQueued
<1>10. OwnerOK(o, capacity, Len(shared.sources))
  <2>1. key \in [world : Worlds, epoch : Nat]
    BY <1>1 DEF OwnerKeyOf
  <2> HIDE DEF key
  <2> QED BY <1>6, <1>7, <1>8, <1>9, <2>1 DEF OwnerOK, Owner, g
<1>11. /\ owners' = Append(owners, o) /\ Len(owners) # capacity.owners
       /\ nextOwnerEpoch' = nextOwnerEpoch + 1 /\ nextOwnerEpoch < MaxEpoch
       /\ UNCHANGED <<shared, capacity>>
  BY DEF AddOwner, o
<1>12. /\ owners' \in Seq(Owner) /\ Len(owners') = n + 1 /\ owners'[n + 1] = o
       /\ \A i \in 1..n : owners'[i] = owners[i]
       /\ DOMAIN owners' = 1..(n + 1)
  BY <1>1, <1>10, <1>11 DEF OwnerOK
<1>13. \A i \in DOMAIN owners' : OwnerOK(owners'[i], capacity, Len(shared.sources))
  <2> SUFFICES ASSUME NEW i \in 1..(n + 1)
               PROVE  OwnerOK(owners'[i], capacity, Len(shared.sources))
    BY <1>12
  <2>1. CASE i = n + 1
    BY <1>10, <1>12, <2>1
  <2>2. CASE i # n + 1
    <3>1. i \in DOMAIN owners /\ owners'[i] = owners[i]
      BY <1>1, <1>12, <2>2
    <3> QED BY <3>1, OwnersAreOK
  <2> QED BY <2>1, <2>2
<1>14. Len(owners') <= capacity'.owners /\ nextOwnerEpoch' \in 1..MaxEpoch
  BY <1>1, <1>4, <1>11, <1>12
<1> QED BY <1>11, <1>12, <1>13, <1>14 DEF PartitionInv, OwnerOK

LEMMA RemoveOwnerPartition ==
  ASSUME PartitionInv, NEW w \in Worlds, RemoveOwner(w)
  PROVE  PartitionInv'
<1> DEFINE n == Len(owners)
<1>1. owners \in Seq(Owner) /\ n \in Nat /\ DOMAIN owners = 1..n /\ n <= capacity.owners
  BY DEF PartitionInv
<1>2. PICK i \in DOMAIN owners :
        /\ owners' = [j \in 1..n - 1 |-> IF j = i THEN owners[n] ELSE owners[j]]
        /\ UNCHANGED <<shared, capacity, nextOwnerEpoch>>
  BY DEF RemoveOwner, OwnerOfWorld
<1> DEFINE from(j) == IF j = i THEN n ELSE j
<1> HIDE DEF n
<1>3. n - 1 \in Nat /\ \A j \in 1..n - 1 : from(j) \in DOMAIN owners
  BY <1>1
<1>4. owners' = [j \in 1..n - 1 |-> owners[from(j)]]
  BY <1>2
<1> HIDE DEF from
<1>5. owners' \in [1..n - 1 -> Owner]
  BY <1>1, <1>3, <1>4
<1>6. /\ owners' \in Seq(Owner) /\ Len(owners') = n - 1 /\ DOMAIN owners' = 1..n - 1
      /\ \A j \in 1..n - 1 : owners'[j] = owners[from(j)]
  BY <1>3, <1>4, <1>5
<1>7. \A j \in DOMAIN owners' : OwnerOK(owners'[j], capacity, Len(shared.sources))
  BY <1>3, <1>6, OwnersAreOK
<1>8. Len(owners') <= capacity.owners
  <2>1. capacity.owners \in Nat
    BY DEF PartitionInv, GraphCapacity
  <2> QED BY <1>1, <1>6, <2>1
<1> QED BY <1>2, <1>6, <1>7, <1>8 DEF PartitionInv, OwnerOK

-----------------------------------------------------------------------------
(***************************************************************************)
(* Steps of one owner: its graph becomes h.                                *)
(***************************************************************************)
LEMMA OwnerStepPartition ==
  ASSUME PartitionInv, NEW i \in DOMAIN owners, NEW h, GraphInv(h),
         SameFrame(owners[i].graph, h), SetGraph(i, h),
         UNCHANGED <<shared, capacity, nextOwnerEpoch>>
  PROVE  PartitionInv'
BY OwnerChanges DEF SameFrame

LEMMA OwnerGraphInv ==
  ASSUME PartitionInv, NEW i \in DOMAIN owners
  PROVE  GraphInv(owners[i].graph)
BY DEF PartitionInv

LEMMA SharedGraphInv == PartitionInv => GraphInv(shared)
BY DEF PartitionInv

LEMMA OwnerSourcePartition ==
  ASSUME PartitionInv,
         \/ \E w \in Worlds : RegisterOwnerSource(w)
         \/ \E source \in SourceKeys : RenewOwnerSource(source) \/ RemoveOwnerSource(source)
         \/ \E source \in SourceKeys : \E kind \in PendingKind : PublishOwner(source, kind)
  PROVE  PartitionInv'
<1>1. CASE \E w \in Worlds : RegisterOwnerSource(w)
  <2>1. PICK i \in DOMAIN owners :
          /\ CanAddSource(owners[i].graph)
          /\ SetGraph(i, AddSource(owners[i].graph))
          /\ UNCHANGED <<shared, capacity, nextOwnerEpoch>>
    BY <1>1 DEF RegisterOwnerSource, OwnerOfWorld
  <2> DEFINE h == AddSource(owners[i].graph)
  <2>2. /\ GraphInv(h) /\ h.sourceLimit = owners[i].graph.sourceLimit
        /\ h.consumerLimit = owners[i].graph.consumerLimit
    BY <2>1, OwnerGraphInv, AddSourceInv
  <2>3. SetGraph(i, h)
    BY <2>1
  <2> HIDE DEF h
  <2> QED BY <2>1, <2>2, <2>3, OwnerChanges
<1>2. CASE \E source \in SourceKeys : RenewOwnerSource(source)
  <2>1. PICK source \in SourceKeys, i \in DOMAIN owners :
          /\ SourceIsLive(owners[i].graph, source.slot)
          /\ SetGraph(i, RenewSource(owners[i].graph, source.slot))
          /\ UNCHANGED <<shared, capacity, nextOwnerEpoch>>
    BY <1>2 DEF RenewOwnerSource, OwnerIndex
  <2> DEFINE h == RenewSource(owners[i].graph, source.slot)
  <2>2. GraphInv(h) /\ SameFrame(owners[i].graph, h)
    BY <2>1, OwnerGraphInv, RenewSourceInv
  <2>3. SetGraph(i, h)
    BY <2>1
  <2> HIDE DEF h
  <2> QED BY <2>1, <2>2, <2>3, OwnerStepPartition
<1>3. CASE \E source \in SourceKeys : RemoveOwnerSource(source)
  <2>1. PICK source \in SourceKeys, i \in DOMAIN owners :
          /\ SourceIsLive(owners[i].graph, source.slot)
          /\ SetGraph(i, RemoveSource(owners[i].graph, source.slot))
          /\ UNCHANGED <<shared, capacity, nextOwnerEpoch>>
    BY <1>3 DEF RemoveOwnerSource, OwnerIndex
  <2> DEFINE h == RemoveSource(owners[i].graph, source.slot)
  <2>2. GraphInv(h) /\ SameFrame(owners[i].graph, h)
    BY <2>1, OwnerGraphInv, RemoveSourceInv
  <2>3. SetGraph(i, h)
    BY <2>1
  <2> HIDE DEF h
  <2> QED BY <2>1, <2>2, <2>3, OwnerStepPartition
<1>4. CASE \E source \in SourceKeys : \E kind \in PendingKind : PublishOwner(source, kind)
  <2>1. PICK source \in SourceKeys, kind \in PendingKind, i \in DOMAIN owners :
          /\ SetGraph(i, PublishChecked(owners[i].graph, source.slot, kind))
          /\ UNCHANGED <<shared, capacity, nextOwnerEpoch>>
    BY <1>4 DEF PublishOwner, OwnerIndex
  <2> DEFINE h == PublishChecked(owners[i].graph, source.slot, kind)
  <2>2. GraphInv(h) /\ SameFrame(owners[i].graph, h)
    BY OwnerGraphInv, PublishCheckedInv
  <2>3. SetGraph(i, h)
    BY <2>1
  <2> HIDE DEF h
  <2> QED BY <2>1, <2>2, <2>3, OwnerStepPartition
<1> QED BY <1>1, <1>2, <1>3, <1>4

-----------------------------------------------------------------------------
(***************************************************************************)
(* Consumers and subscriptions, in the shared partition or in an owner.    *)
(***************************************************************************)
LEMMA RegisterConsumerPartition ==
  ASSUME PartitionInv, NEW key, NEW target \in Subscriber, RegisterConsumer(key, target)
  PROVE  PartitionInv'
<1>1. \/ /\ CanAddConsumer(shared)
         /\ shared' = AddConsumer(shared, target)
         /\ UNCHANGED <<owners, capacity, nextOwnerEpoch>>
      \/ \E i \in DOMAIN owners :
           /\ CanAddConsumer(owners[i].graph)
           /\ SetGraph(i, AddConsumer(owners[i].graph, target))
           /\ UNCHANGED <<shared, capacity, nextOwnerEpoch>>
  BY DEF RegisterConsumer, OnPartition, OwnerIndex
<1>2. CASE /\ CanAddConsumer(shared)
           /\ shared' = AddConsumer(shared, target)
           /\ UNCHANGED <<owners, capacity, nextOwnerEpoch>>
  <2>1. GraphInv(shared') /\ SameFrame(shared, shared')
    BY <1>2, SharedGraphInv, AddConsumerInv
  <2> QED BY <1>2, <2>1, SharedChanges
<1>3. CASE \E i \in DOMAIN owners :
             /\ CanAddConsumer(owners[i].graph)
             /\ SetGraph(i, AddConsumer(owners[i].graph, target))
             /\ UNCHANGED <<shared, capacity, nextOwnerEpoch>>
  <2>1. PICK i \in DOMAIN owners :
             /\ CanAddConsumer(owners[i].graph)
             /\ SetGraph(i, AddConsumer(owners[i].graph, target))
             /\ UNCHANGED <<shared, capacity, nextOwnerEpoch>>
    BY <1>3
  <2> DEFINE h == AddConsumer(owners[i].graph, target)
  <2>2. GraphInv(h) /\ SameFrame(owners[i].graph, h)
    BY <2>1, OwnerGraphInv, AddConsumerInv
  <2>3. SetGraph(i, h)
    BY <2>1
  <2> HIDE DEF h
  <2> QED BY <2>1, <2>2, <2>3, OwnerStepPartition
<1> QED BY <1>1, <1>2, <1>3

LEMMA ClearConsumerEdgesPartition ==
  ASSUME PartitionInv, NEW consumer, ClearConsumerEdges(consumer)
  PROVE  PartitionInv'
<1>1. CASE /\ shared' = ClearConsumer(shared, consumer.slot)
           /\ UNCHANGED <<owners, capacity, nextOwnerEpoch>>
  <2>1. GraphInv(shared') /\ SameFrame(shared, shared')
    BY <1>1, SharedGraphInv, ClearConsumerInv
  <2> QED BY <1>1, <2>1, SharedChanges
<1>2. CASE \E i \in DOMAIN owners :
             /\ SetGraph(i, ClearConsumer(owners[i].graph, consumer.slot))
             /\ UNCHANGED <<shared, capacity, nextOwnerEpoch>>
  <2>1. PICK i \in DOMAIN owners :
             /\ SetGraph(i, ClearConsumer(owners[i].graph, consumer.slot))
             /\ UNCHANGED <<shared, capacity, nextOwnerEpoch>>
    BY <1>2
  <2> DEFINE h == ClearConsumer(owners[i].graph, consumer.slot)
  <2>2. GraphInv(h) /\ SameFrame(owners[i].graph, h)
    BY OwnerGraphInv, ClearConsumerInv
  <2>3. SetGraph(i, h)
    BY <2>1
  <2> HIDE DEF h
  <2> QED BY <2>1, <2>2, <2>3, OwnerStepPartition
<1> QED BY <1>1, <1>2 DEF ClearConsumerEdges, OnPartition, OwnerIndex

LEMMA RemoveConsumerNodePartition ==
  ASSUME PartitionInv, NEW consumer \in Keys, RemoveConsumerNode(consumer)
  PROVE  PartitionInv'
<1>0. consumer.slot \in SlotId
  BY SlotAssumption, GenerationAssumption DEF Keys, SlotIds, SlotId
<1>1. CASE /\ ConsumerIsLive(shared, consumer.slot)
           /\ shared' = RemoveConsumer(shared, consumer.slot)
           /\ UNCHANGED <<owners, capacity, nextOwnerEpoch>>
  <2>1. GraphInv(shared') /\ SameFrame(shared, shared')
    BY <1>0, <1>1, SharedGraphInv, RemoveConsumerInv
  <2> QED BY <1>1, <2>1, SharedChanges
<1>2. CASE \E i \in DOMAIN owners :
             /\ ConsumerIsLive(owners[i].graph, consumer.slot)
             /\ SetGraph(i, RemoveConsumer(owners[i].graph, consumer.slot))
             /\ UNCHANGED <<shared, capacity, nextOwnerEpoch>>
  <2>1. PICK i \in DOMAIN owners :
             /\ ConsumerIsLive(owners[i].graph, consumer.slot)
             /\ SetGraph(i, RemoveConsumer(owners[i].graph, consumer.slot))
             /\ UNCHANGED <<shared, capacity, nextOwnerEpoch>>
    BY <1>2
  <2> DEFINE h == RemoveConsumer(owners[i].graph, consumer.slot)
  <2>2. GraphInv(h) /\ SameFrame(owners[i].graph, h)
    BY <1>0, <2>1, OwnerGraphInv, RemoveConsumerInv
  <2>3. SetGraph(i, h)
    BY <2>1
  <2> HIDE DEF h
  <2> QED BY <2>1, <2>2, <2>3, OwnerStepPartition
<1> QED BY <1>1, <1>2 DEF RemoveConsumerNode, OnPartition, OwnerIndex

LEMMA SubscribePartition ==
  ASSUME PartitionInv, NEW source, NEW consumer,
         SubscribeShared(source, consumer) \/ SubscribeInOwner(source, consumer)
  PROVE  PartitionInv'
<1>1. CASE SubscribeInOwner(source, consumer)
  <2>0. PICK i \in DOMAIN owners :
          LET local == LocalSource(source, i)
          IN  /\ SourceIsLive(owners[i].graph, local)
              /\ ConsumerIsLive(owners[i].graph, consumer.slot)
              /\ SetGraph(i, Subscribe(owners[i].graph, local, consumer.slot))
              /\ UNCHANGED <<shared, capacity, nextOwnerEpoch>>
    BY <1>1 DEF SubscribeInOwner, OwnerIndex
  <2> DEFINE local == LocalSource(source, i)
  <2>1. /\ SourceIsLive(owners[i].graph, local)
        /\ ConsumerIsLive(owners[i].graph, consumer.slot)
        /\ SetGraph(i, Subscribe(owners[i].graph, local, consumer.slot))
        /\ UNCHANGED <<shared, capacity, nextOwnerEpoch>>
    BY <2>0
  <2> HIDE DEF local
  <2> DEFINE h == Subscribe(owners[i].graph, local, consumer.slot)
  <2>2. GraphInv(h) /\ SameFrame(owners[i].graph, h)
    BY <2>1, OwnerGraphInv, SubscribeInv
  <2>3. SetGraph(i, h)
    BY <2>1
  <2> HIDE DEF h
  <2> QED BY <2>1, <2>2, <2>3, OwnerStepPartition
<1>2. CASE SubscribeShared(source, consumer)
  <2>1. CASE /\ SourceIsLive(shared, source.slot)
             /\ ConsumerIsLive(shared, consumer.slot)
             /\ shared' = Subscribe(shared, source.slot, consumer.slot)
             /\ UNCHANGED <<owners, capacity, nextOwnerEpoch>>
    <3>1. GraphInv(shared') /\ SameFrame(shared, shared')
      BY <2>1, SharedGraphInv, SubscribeInv
    <3> QED BY <2>1, <3>1, SharedChanges
  <2>2. CASE \E i \in DOMAIN owners :
               /\ SourceIsLive(owners[i].graph, source.slot)
               /\ ConsumerIsLive(owners[i].graph, consumer.slot)
               /\ SetGraph(i, Subscribe(owners[i].graph, source.slot, consumer.slot))
               /\ UNCHANGED <<shared, capacity, nextOwnerEpoch>>
    <3>1. PICK i \in DOMAIN owners :
               /\ SourceIsLive(owners[i].graph, source.slot)
               /\ ConsumerIsLive(owners[i].graph, consumer.slot)
               /\ SetGraph(i, Subscribe(owners[i].graph, source.slot, consumer.slot))
               /\ UNCHANGED <<shared, capacity, nextOwnerEpoch>>
      BY <2>2
    <3> DEFINE h == Subscribe(owners[i].graph, source.slot, consumer.slot)
    <3>2. GraphInv(h) /\ SameFrame(owners[i].graph, h)
      BY <3>1, OwnerGraphInv, SubscribeInv
    <3>3. SetGraph(i, h)
      BY <3>1
    <3> HIDE DEF h
    <3> QED BY <3>1, <3>2, <3>3, OwnerStepPartition
  <2> QED BY <1>2, <2>1, <2>2 DEF SubscribeShared, OnPartition, OwnerIndex
<1> QED BY <1>1, <1>2

-----------------------------------------------------------------------------
(***************************************************************************)
(* Steps of the shared partition and every owner at once.                  *)
(***************************************************************************)
LEMMA RegisterSharedSourcePartition ==
  ASSUME PartitionInv, RegisterSharedSource
  PROVE  PartitionInv'
<1> DEFINE id == NextId(shared.sources)
           g(i) == AddSource(owners[i].graph)
           links(i) == Place(owners[i].sharedSources, id.slot, NextId(owners[i].graph.sources))
           o == [i \in DOMAIN owners |->
                   [owners[i] EXCEPT !.graph = g(i), !.sharedSources = links(i)]]
<1>1. /\ CanAddSource(shared)
      /\ \A i \in DOMAIN owners : CanAddSource(owners[i].graph)
      /\ shared' = AddSource(shared)
      /\ UNCHANGED <<capacity, nextOwnerEpoch>>
  BY DEF RegisterSharedSource
<1>2. owners' = o
  BY DEF RegisterSharedSource, MapOwners
<1>3. /\ GraphInv(shared') /\ shared'.sourceLimit = capacity.sharedSources
      /\ shared'.consumerLimit = capacity.sharedConsumers
  BY <1>1, AddSourceInv, SharedGraphInv DEF PartitionInv
<1> DEFINE n == Len(shared.sources)
<1>4. /\ shared.sources \in Seq(SourceNode) /\ n \in Nat /\ DOMAIN shared.sources = 1..n
      /\ id.slot \in 1..(n + 1)
      /\ Len(shared'.sources) = IF id.slot = n + 1 THEN n + 1 ELSE n
  <2>1. shared \in Graph /\ shared.sources \in Seq(SourceNode) /\ n <= shared.sourceLimit
    BY SharedGraphInv DEF GraphInv, GraphTypeOK, Graph
  <2> DEFINE nodes == shared.sources
             node == [generation |-> id.generation, live |-> TRUE]
  <2>2. \A i \in DOMAIN nodes : nodes[i].generation \in 1..MaxGeneration
    <3>1. \A i \in DOMAIN nodes : nodes[i] \in SourceNode
      BY <2>1
    <3> QED BY <3>1 DEF SourceNode
  <2>3. (Reusable(nodes) # {} \/ Len(nodes) < shared.sourceLimit) /\ shared.sourceLimit \in Nat
    BY <1>1, <2>1 DEF CanAddSource, Graph
  <2>4. NextIdFacts(nodes, shared.sourceLimit, id)
    BY <2>1, <2>2, <2>3, NextIdProperties
  <2>5. id.slot \in 1..(n + 1) /\ id.generation \in 1..MaxGeneration
    BY <2>4 DEF NextIdFacts
  <2> HIDE DEF id
  <2>6. node \in SourceNode
    BY <2>5 DEF SourceNode
  <2>7. PlaceFacts(SourceNode, nodes, id.slot, node, Place(nodes, id.slot, node))
    BY <2>1, <2>5, <2>6, PlaceProperties
  <2>8. shared'.sources = Place(nodes, id.slot, node)
    BY <1>1, <2>1 DEF AddSource, Graph, id
  <2> QED BY <2>1, <2>5, <2>7, <2>8 DEF PlaceFacts
<1>5. \A i \in DOMAIN owners : OwnerOK(o[i], capacity, Len(shared'.sources))
  <2> SUFFICES ASSUME NEW i \in DOMAIN owners
               PROVE  OwnerOK(o[i], capacity, Len(shared'.sources))
    OBVIOUS
  <2>1. OwnerOK(owners[i], capacity, n)
    BY OwnersAreOK
  <2>2. /\ GraphInv(g(i)) /\ g(i).sourceLimit = capacity.ownerSources
        /\ g(i).consumerLimit = capacity.ownerConsumers
        /\ NextId(owners[i].graph.sources) \in SlotId
    BY <1>1, <2>1, AddSourceInv DEF OwnerOK
  <2> DEFINE S == SlotId \cup {NoProxy}
             old == owners[i].sharedSources
             proxy == NextId(owners[i].graph.sources)
  <2>3. old \in Seq(S) /\ Len(old) = n
    BY <2>1 DEF OwnerOK, Owner
  <2>4. proxy \in S
    BY <2>2
  <2> HIDE DEF S, proxy, n, id
  <2>5. PlaceFacts(S, old, id.slot, proxy, Place(old, id.slot, proxy))
    BY <1>4, <2>3, <2>4, PlaceProperties
  <2>6. links(i) \in Seq(S) /\ Len(links(i)) = Len(shared'.sources)
    BY <1>4, <2>3, <2>5 DEF PlaceFacts, proxy
  <2>7. g(i) \in Graph
    BY <2>2 DEF GraphInv, GraphTypeOK
  <2>8. o[i] = [owners[i] EXCEPT !.graph = g(i), !.sharedSources = links(i)]
    OBVIOUS
  <2> HIDE DEF o, g, links
  <2>9. /\ o[i] \in Owner /\ o[i].graph = g(i) /\ o[i].sharedSources = links(i)
    BY <2>1, <2>6, <2>7, <2>8 DEF OwnerOK, Owner, S
  <2> QED BY <2>2, <2>6, <2>9 DEF OwnerOK
<1> HIDE DEF g, links
<1> QED
  <2>1. owners' = [i \in DOMAIN owners |-> o[i]]
    BY <1>2
  <2>2. capacity \in GraphCapacity
    BY DEF PartitionInv
  <2> HIDE DEF o
  <2> QED BY <1>1, <1>3, <1>5, <2>1, <2>2, OwnersChange

\* Every owner's graph becomes g[i], its links links[i] of the same length.
LEMMA GraphsChange ==
  ASSUME PartitionInv, GraphInv(shared'), SameFrame(shared, shared'),
         UNCHANGED <<capacity, nextOwnerEpoch>>,
         NEW g, NEW links,
         \A i \in DOMAIN owners : GraphInv(g[i]) /\ SameFrame(owners[i].graph, g[i]),
         \A i \in DOMAIN owners : /\ links[i] \in Seq(SlotId \cup {NoProxy})
                                  /\ Len(links[i]) = Len(shared.sources),
         owners' = [i \in DOMAIN owners |->
                      [owners[i] EXCEPT !.graph = g[i], !.sharedSources = links[i]]]
  PROVE  PartitionInv'
<1> DEFINE o == [i \in DOMAIN owners |->
                   [owners[i] EXCEPT !.graph = g[i], !.sharedSources = links[i]]]
<1>1. /\ Len(shared'.sources) = Len(shared.sources)
      /\ shared'.sourceLimit = capacity.sharedSources
      /\ shared'.consumerLimit = capacity.sharedConsumers
  BY DEF PartitionInv, SameFrame
<1>2. \A i \in DOMAIN owners : OwnerOK(o[i], capacity, Len(shared.sources))
  <2> SUFFICES ASSUME NEW i \in DOMAIN owners
               PROVE  OwnerOK(o[i], capacity, Len(shared.sources))
    OBVIOUS
  <2>1. OwnerOK(owners[i], capacity, Len(shared.sources))
    BY OwnersAreOK
  <2>2. g[i] \in Graph
    BY DEF GraphInv, GraphTypeOK
  <2>3. o[i] = [owners[i] EXCEPT !.graph = g[i], !.sharedSources = links[i]]
    OBVIOUS
  <2> HIDE DEF o
  <2>4. o[i] \in Owner /\ o[i].graph = g[i] /\ o[i].sharedSources = links[i]
    BY <2>1, <2>2, <2>3 DEF OwnerOK, Owner
  <2> QED BY <2>1, <2>4 DEF OwnerOK, SameFrame
<1> QED
  <2>1. owners' = [i \in DOMAIN owners |-> o[i]]
    OBVIOUS
  <2>2. capacity \in GraphCapacity
    BY DEF PartitionInv
  <2> HIDE DEF o
  <2> QED BY <1>1, <1>2, <2>1, <2>2, OwnersChange

LEMMA RemoveSharedSourcePartition ==
  ASSUME PartitionInv, NEW source, RemoveSharedSource(source)
  PROVE  PartitionInv'
<1> DEFINE slot == source.slot.slot
           g == [i \in DOMAIN owners |-> RemoveSource(owners[i].graph, ProxyIn(owners[i], slot))]
           links == [i \in DOMAIN owners |-> [owners[i].sharedSources EXCEPT ![slot] = NoProxy]]
<1>1. /\ SourceIsLive(shared, source.slot)
      /\ \A i \in DOMAIN owners : SourceIsLive(owners[i].graph, ProxyIn(owners[i], slot))
      /\ shared' = RemoveSource(shared, source.slot)
      /\ UNCHANGED <<capacity, nextOwnerEpoch>>
  BY DEF RemoveSharedSource
<1>2. owners' = [i \in DOMAIN owners |->
                   [owners[i] EXCEPT !.graph = RemoveSource(@, ProxyIn(owners[i], slot)),
                                     !.sharedSources[slot] = NoProxy]]
  BY DEF RemoveSharedSource, MapOwners
<1>3. GraphInv(shared') /\ SameFrame(shared, shared')
  BY <1>1, SharedGraphInv, RemoveSourceInv
<1>4. \A i \in DOMAIN owners : GraphInv(g[i]) /\ SameFrame(owners[i].graph, g[i])
  <2> SUFFICES ASSUME NEW i \in DOMAIN owners
               PROVE  GraphInv(g[i]) /\ SameFrame(owners[i].graph, g[i])
    OBVIOUS
  <2> DEFINE h == RemoveSource(owners[i].graph, ProxyIn(owners[i], slot))
  <2>1. GraphInv(h) /\ SameFrame(owners[i].graph, h)
    BY <1>1, OwnerGraphInv, RemoveSourceInv
  <2> QED BY <2>1
<1>5. \A i \in DOMAIN owners : /\ links[i] \in Seq(SlotId \cup {NoProxy})
                               /\ Len(links[i]) = Len(shared.sources)
  <2> SUFFICES ASSUME NEW i \in DOMAIN owners
               PROVE  /\ links[i] \in Seq(SlotId \cup {NoProxy})
                      /\ Len(links[i]) = Len(shared.sources)
    OBVIOUS
  <2> DEFINE old == owners[i].sharedSources
             n == Len(old)
             S == SlotId \cup {NoProxy}
  <2>1. old \in Seq(S) /\ n = Len(shared.sources)
    BY OwnersAreOK DEF OwnerOK, Owner
  <2>2. links[i] = [old EXCEPT ![slot] = NoProxy] /\ NoProxy \in S
    OBVIOUS
  <2> HIDE DEF links, slot, S
  <2>3. old \in [1..n -> S] /\ n \in Nat
    BY <2>1
  <2> HIDE DEF old, n
  <2>4. links[i] \in [1..n -> S]
    BY <2>2, <2>3
  <2>5. links[i] \in Seq(S) /\ Len(links[i]) = n
    BY <2>3, <2>4
  <2> QED BY <2>1, <2>5 DEF S, n
<1>6. owners' = [i \in DOMAIN owners |->
                   [owners[i] EXCEPT !.graph = g[i], !.sharedSources = links[i]]]
  <2>1. \A i \in DOMAIN owners :
          [owners[i] EXCEPT !.graph = RemoveSource(@, ProxyIn(owners[i], slot)),
                            !.sharedSources[slot] = NoProxy]
          = [owners[i] EXCEPT !.graph = g[i], !.sharedSources = links[i]]
    <3> SUFFICES ASSUME NEW i \in DOMAIN owners
                 PROVE  [owners[i] EXCEPT !.graph = RemoveSource(@, ProxyIn(owners[i], slot)),
                                          !.sharedSources[slot] = NoProxy]
                        = [owners[i] EXCEPT !.graph = g[i], !.sharedSources = links[i]]
      OBVIOUS
    <3>1. /\ g[i] = RemoveSource(owners[i].graph, ProxyIn(owners[i], slot))
          /\ links[i] = [owners[i].sharedSources EXCEPT ![slot] = NoProxy]
      OBVIOUS
    <3>2. owners[i] \in Owner
      BY OwnersAreOK DEF OwnerOK
    <3> HIDE DEF g, links, slot
    <3> QED BY <3>1, <3>2 DEF Owner
  <2> QED BY <1>2, <2>1
<1> HIDE DEF g, links
<1> QED BY <1>1, <1>3, <1>4, <1>5, <1>6, GraphsChange

LEMMA PublishSharedPartition ==
  ASSUME PartitionInv, NEW source, NEW kind, PublishShared(source, kind)
  PROVE  PartitionInv'
<1> DEFINE p(i) == ProxyIn(owners[i], source.slot.slot)
           g == [i \in DOMAIN owners |-> PublishChecked(owners[i].graph, p(i), kind)]
           links == [i \in DOMAIN owners |-> owners[i].sharedSources]
<1>1. /\ shared' = PublishChecked(shared, source.slot, kind)
      /\ UNCHANGED <<capacity, nextOwnerEpoch>>
  BY DEF PublishShared
<1>2. owners' = [i \in DOMAIN owners |->
                   [owners[i] EXCEPT !.graph = PublishChecked(owners[i].graph, p(i), kind)]]
  BY DEF PublishShared, MapOwners
<1>3. GraphInv(shared') /\ SameFrame(shared, shared')
  BY <1>1, SharedGraphInv, PublishCheckedInv
<1>4. \A i \in DOMAIN owners : GraphInv(g[i]) /\ SameFrame(owners[i].graph, g[i])
  <2> SUFFICES ASSUME NEW i \in DOMAIN owners
               PROVE  GraphInv(g[i]) /\ SameFrame(owners[i].graph, g[i])
    OBVIOUS
  <2> DEFINE h == PublishChecked(owners[i].graph, p(i), kind)
  <2>1. GraphInv(h) /\ SameFrame(owners[i].graph, h)
    BY OwnerGraphInv, PublishCheckedInv
  <2> QED BY <2>1
<1>5. \A i \in DOMAIN owners : /\ links[i] \in Seq(SlotId \cup {NoProxy})
                               /\ Len(links[i]) = Len(shared.sources)
  BY OwnersAreOK DEF OwnerOK, Owner
<1>6. owners' = [i \in DOMAIN owners |->
                   [owners[i] EXCEPT !.graph = g[i], !.sharedSources = links[i]]]
  <2>1. \A i \in DOMAIN owners :
          [owners[i] EXCEPT !.graph = PublishChecked(owners[i].graph, p(i), kind)]
          = [owners[i] EXCEPT !.graph = g[i], !.sharedSources = links[i]]
    <3> SUFFICES ASSUME NEW i \in DOMAIN owners
                 PROVE  [owners[i] EXCEPT !.graph = PublishChecked(owners[i].graph, p(i), kind)]
                        = [owners[i] EXCEPT !.graph = g[i], !.sharedSources = links[i]]
      OBVIOUS
    <3>1. /\ g[i] = PublishChecked(owners[i].graph, p(i), kind)
          /\ links[i] = owners[i].sharedSources
      OBVIOUS
    <3>2. owners[i] \in Owner
      BY OwnersAreOK DEF OwnerOK
    <3> HIDE DEF g, links, p
    <3> QED BY <3>1, <3>2 DEF Owner
  <2> QED BY <1>2, <2>1
<1> HIDE DEF g, links, p
<1> QED BY <1>1, <1>3, <1>4, <1>5, <1>6, GraphsChange

LEMMA TakePendingPartition ==
  ASSUME PartitionInv, NEW kind, TakePendingAnyKind(kind)
  PROVE  PartitionInv'
<1>1. PICK scanned :
        /\ shared' = TakePendingKind(shared, kind)
        /\ owners' = [i \in DOMAIN owners |->
                        IF i \in scanned
                          THEN [owners[i] EXCEPT !.graph = TakePendingKind(@, kind)]
                          ELSE owners[i]]
        /\ UNCHANGED <<capacity, nextOwnerEpoch>>
  BY DEF TakePendingAnyKind
<1> DEFINE g == [i \in DOMAIN owners |->
                   IF i \in scanned THEN TakePendingKind(owners[i].graph, kind)
                                    ELSE owners[i].graph]
           links == [i \in DOMAIN owners |-> owners[i].sharedSources]
<1>3. GraphInv(shared') /\ SameFrame(shared, shared')
  BY <1>1, SharedGraphInv, TakePendingKindInv
<1>4. \A i \in DOMAIN owners : GraphInv(g[i]) /\ SameFrame(owners[i].graph, g[i])
  <2> SUFFICES ASSUME NEW i \in DOMAIN owners
               PROVE  GraphInv(g[i]) /\ SameFrame(owners[i].graph, g[i])
    OBVIOUS
  <2> DEFINE h == TakePendingKind(owners[i].graph, kind)
  <2>1. GraphInv(h) /\ SameFrame(owners[i].graph, h)
    BY OwnerGraphInv, TakePendingKindInv
  <2>2. GraphInv(owners[i].graph) /\ SameFrame(owners[i].graph, owners[i].graph)
    BY OwnerGraphInv DEF SameFrame
  <2> QED BY <2>1, <2>2
<1>5. \A i \in DOMAIN owners : /\ links[i] \in Seq(SlotId \cup {NoProxy})
                               /\ Len(links[i]) = Len(shared.sources)
  BY OwnersAreOK DEF OwnerOK, Owner
<1>6. owners' = [i \in DOMAIN owners |->
                   [owners[i] EXCEPT !.graph = g[i], !.sharedSources = links[i]]]
  <2>1. \A i \in DOMAIN owners :
          (IF i \in scanned THEN [owners[i] EXCEPT !.graph = TakePendingKind(@, kind)]
                            ELSE owners[i])
          = [owners[i] EXCEPT !.graph = g[i], !.sharedSources = links[i]]
    <3> SUFFICES ASSUME NEW i \in DOMAIN owners
                 PROVE  (IF i \in scanned
                           THEN [owners[i] EXCEPT !.graph = TakePendingKind(@, kind)]
                           ELSE owners[i])
                        = [owners[i] EXCEPT !.graph = g[i], !.sharedSources = links[i]]
      OBVIOUS
    <3>1. /\ g[i] = IF i \in scanned THEN TakePendingKind(owners[i].graph, kind)
                                     ELSE owners[i].graph
          /\ links[i] = owners[i].sharedSources
      OBVIOUS
    <3>2. owners[i] \in Owner
      BY OwnersAreOK DEF OwnerOK
    <3> HIDE DEF g, links
    <3>3. CASE i \in scanned
      BY <3>1, <3>2, <3>3 DEF Owner
    <3>4. CASE i \notin scanned
      BY <3>1, <3>2, <3>4 DEF Owner
    <3> QED BY <3>3, <3>4
  <2> QED BY <1>1, <2>1
<1> HIDE DEF g, links
<1> QED BY <1>1, <1>3, <1>4, <1>5, <1>6, GraphsChange

-----------------------------------------------------------------------------
(***************************************************************************)
(* The invariant is inductive, and what follows from it.                   *)
(***************************************************************************)
LEMMA NextPartition == PartitionInv /\ [Next]_vars => PartitionInv'
<1> SUFFICES ASSUME PartitionInv, [Next]_vars PROVE PartitionInv'
  OBVIOUS
<1>1. CASE Structure
  <2>1. CASE \E w \in Worlds : AddOwner(w)
    BY <2>1, AddOwnerPartition
  <2>2. CASE \E w \in Worlds : RemoveOwner(w)
    BY <2>2, RemoveOwnerPartition
  <2>3. CASE \/ ReserveForSharedSource
             \/ ReserveForOwner
             \/ \E w \in Worlds : ReserveForOwnerSource(w)
             \/ \E key \in PartitionKeys :
                  \/ ReserveForConsumer(key)
                  \/ \E headroom \in Headrooms : ReserveOwnerConsumers(key, headroom)
    BY <2>3, GrowthPartition
  <2> QED BY <1>1, <2>1, <2>2, <2>3 DEF Structure
<1>2. CASE SourceStep
  <2>1. CASE RegisterSharedSource
    BY <2>1, RegisterSharedSourcePartition
  <2>2. CASE \E w \in Worlds : RegisterOwnerSource(w)
    BY <2>2, OwnerSourcePartition
  <2>3. CASE \E source \in SourceKeys : RenewOwnerSource(source) \/ RemoveOwnerSource(source)
    BY <2>3, OwnerSourcePartition
  <2>4. CASE \E source \in SourceKeys : RemoveSharedSource(source)
    BY <2>4, RemoveSharedSourcePartition
  <2>5. CASE \E source \in SourceKeys : \E kind \in {"Any", "Computed"} :
               PublishShared(source, kind)
    BY <2>5, PublishSharedPartition
  <2>6. CASE \E source \in SourceKeys : \E kind \in {"Any", "Computed"} :
               PublishOwner(source, kind)
    BY <2>6, OwnerSourcePartition DEF PendingKind
  <2> QED BY <1>2, <2>1, <2>2, <2>3, <2>4, <2>5, <2>6 DEF SourceStep
<1>3. CASE ConsumerStep
  <2>1. CASE \E key \in PartitionKeys, target \in Subscriber : RegisterConsumer(key, target)
    BY <2>1, RegisterConsumerPartition
  <2>2. CASE \E consumer \in Keys : ClearConsumerEdges(consumer)
    BY <2>2, ClearConsumerEdgesPartition
  <2>3. CASE \E consumer \in Keys : RemoveConsumerNode(consumer)
    BY <2>3, RemoveConsumerNodePartition
  <2>4. CASE \E consumer \in Keys : \E source \in SourceKeys :
               SubscribeShared(source, consumer) \/ SubscribeInOwner(source, consumer)
    BY <2>4, SubscribePartition
  <2>5. CASE \E kind \in {"NonComputed", "Computed"} : TakePendingAnyKind(kind)
    BY <2>5, TakePendingPartition
  <2> QED BY <1>3, <2>1, <2>2, <2>3, <2>4, <2>5 DEF ConsumerStep
<1>4. CASE UNCHANGED vars
  BY <1>4 DEF PartitionInv, vars
<1> QED BY <1>1, <1>2, <1>3, <1>4 DEF Next

\* Whatever the client does, the invariant holds in every reachable state.
THEOREM SafetyOfGraph == Spec => []IInv
<1>1. Init => PartitionInv
  BY InitPartition
<1>2. PartitionInv /\ [Next]_vars => PartitionInv'
  BY NextPartition
<1>3. PartitionInv => IInv
  BY IInvIsPartitionInv
<1> QED BY <1>1, <1>2, <1>3, PTL DEF Spec

\* Every partition keeps its type and stays within the limits of the capacity
\* that reserve committed, for every number of Worlds and slots.
THEOREM Typing == Spec => []TypeOK
<1>1. IInv => TypeOK
  BY DEF IInv
<1> QED BY <1>1, SafetyOfGraph, PTL

\* add_source, add_consumer, renew_source and remove_consumer clear what they
\* must: no slot inherits a subscription of its last occupant.
THEOREM NoInheritedEdges == Spec => []EdgesJoinLiveSlots
<1>1. IInv => EdgesJoinLiveSlots
  BY DEF IInv
<1> QED BY <1>1, SafetyOfGraph, PTL

\* publish_checked, take_pending_kind and remove_consumer keep the pending
\* queue and the pending flags equal, so no flush is lost or doubled.
THEOREM QueueAndFlagsAgree == Spec => []QueueMatchesFlags
<1>1. IInv => QueueMatchesFlags
  BY DEF IInv
<1> QED BY <1>1, SafetyOfGraph, PTL

\* check_publish never answers Full for a live source: the queue has a place
\* for every consumer slot, and a flagged consumer is not queued twice.
THEOREM PublicationNeverFull == Spec => []PublishFits
<1>1. PartitionInv => PublishFits
  <2> SUFFICES ASSUME PartitionInv, NEW g \in Graphs, NEW s \in LiveSource(g),
                      NEW kind \in PendingKind
               PROVE  CheckPublish(g, [slot |-> s, generation |-> g.sources[s].generation], kind)
    BY DEF PublishFits
  <2> DEFINE source == [slot |-> s, generation |-> g.sources[s].generation]
  <2>1. GraphInv(g)
    BY OwnerGraphInv, SharedGraphInv DEF Graphs
  <2>2. SourceIsLive(g, source)
    BY DEF LiveSource, SourceIsLive, NodeIsLive
  <2> HIDE DEF source
  <2>3. CheckPublish(g, source, kind)
    BY <2>1, <2>2, CheckPublishSucceeds
  <2> QED BY <2>3 DEF source
<1>2. IInv => PublishFits
  BY <1>1, IInvIsPartitionInv
<1> QED BY <1>2, SafetyOfGraph, PTL

-----------------------------------------------------------------------------
(***************************************************************************)
(* Identities: the keys of owners and the proxies of shared sources.       *)
(***************************************************************************)

\* What ProxiesFaithful says of one owner, for the nodes of the shared sources.
Faithful(o, nodes) ==
  /\ DOMAIN o.sharedSources = DOMAIN nodes
  /\ \A s \in DOMAIN nodes :
       IF nodes[s].live THEN SourceIsLive(o.graph, o.sharedSources[s])
                        ELSE o.sharedSources[s] = NoProxy
  /\ \A s, t \in DOMAIN nodes :
       nodes[s].live /\ nodes[t].live /\ o.sharedSources[s] = o.sharedSources[t] => s = t

AllFaithful == \A i \in DOMAIN owners : Faithful(owners[i], shared.sources)

LEMMA FaithfulProxies == AllFaithful <=> ProxiesFaithful
BY DEF AllFaithful, Faithful, ProxiesFaithful, LiveSource

LEMMA OwnerTypes ==
  ASSUME PartitionInv
  PROVE  /\ Len(owners) \in Nat /\ DOMAIN owners = 1..Len(owners)
         /\ \A i \in DOMAIN owners : owners[i] \in Owner
         /\ nextOwnerEpoch \in Nat \ {0}
BY OwnerAssumption DEF PartitionInv

LEMMA OwnerFields ==
  ASSUME NEW o \in Owner, NEW g
  PROVE  /\ [o EXCEPT !.graph = g].graph = g
         /\ [o EXCEPT !.graph = g].key = o.key
         /\ [o EXCEPT !.graph = g].sharedSources = o.sharedSources
         /\ \A l : /\ [o EXCEPT !.graph = g, !.sharedSources = l].graph = g
                   /\ [o EXCEPT !.graph = g, !.sharedSources = l].key = o.key
                   /\ [o EXCEPT !.graph = g, !.sharedSources = l].sharedSources = l
BY DEF Owner

LEMMA SetGraphFacts ==
  ASSUME PartitionInv, NEW i \in DOMAIN owners, NEW h, SetGraph(i, h)
  PROVE  /\ DOMAIN owners' = DOMAIN owners
         /\ owners'[i].graph = h /\ owners'[i].key = owners[i].key
         /\ owners'[i].sharedSources = owners[i].sharedSources
         /\ \A j \in DOMAIN owners : j # i => owners'[j] = owners[j]
<1>1. owners[i] \in Owner
  BY OwnerTypes
<1>2. owners' = [owners EXCEPT ![i] = [owners[i] EXCEPT !.graph = h]]
  BY DEF SetGraph
<1> QED BY <1>1, <1>2, OwnerFields

-----------------------------------------------------------------------------
(***************************************************************************)
(* Quiet steps: no source, owner or proxy comes, goes or changes.          *)
(***************************************************************************)
Quiet(o, p) ==
  /\ p.key = o.key /\ p.sharedSources = o.sharedSources
  /\ p.graph.sources = o.graph.sources
  /\ Aged(o.graph.consumers, p.graph.consumers)

QuietStep ==
  /\ shared'.sources = shared.sources /\ Aged(shared.consumers, shared'.consumers)
  /\ nextOwnerEpoch' = nextOwnerEpoch
  /\ DOMAIN owners' = DOMAIN owners
  /\ \A i \in DOMAIN owners : Quiet(owners[i], owners'[i])

\* Only consumers, rows and the queue change.
ConsumersAge(g, h) == h.sources = g.sources /\ Aged(g.consumers, h.consumers)

LEMMA AgedSame ==
  ASSUME NEW g, GraphInv(g)
  PROVE  Aged(g.sources, g.sources) /\ Aged(g.consumers, g.consumers)
BY Generations, NodesAge

LEMMA QuietShared ==
  ASSUME PartitionInv, ConsumersAge(shared, shared'), UNCHANGED <<owners, nextOwnerEpoch>>
  PROVE  QuietStep
BY AgedSame, OwnerGraphInv DEF QuietStep, Quiet, ConsumersAge

LEMMA QuietOwner ==
  ASSUME PartitionInv, NEW i \in DOMAIN owners, NEW h, ConsumersAge(owners[i].graph, h),
         SetGraph(i, h), UNCHANGED <<shared, nextOwnerEpoch>>
  PROVE  QuietStep
<1>1. \A j \in DOMAIN owners : j # i => Quiet(owners[j], owners'[j])
  BY SetGraphFacts, AgedSame, OwnerGraphInv DEF Quiet
<1>2. Quiet(owners[i], owners'[i])
  BY SetGraphFacts DEF Quiet, ConsumersAge
<1>3. Aged(shared.consumers, shared'.consumers)
  BY AgedSame, SharedGraphInv
<1> QED BY <1>1, <1>2, <1>3, SetGraphFacts DEF QuietStep

LEMMA OperationsAge ==
  ASSUME NEW g, GraphInv(g)
  PROVE  /\ \A target \in Subscriber : CanAddConsumer(g) => ConsumersAge(g, AddConsumer(g, target))
         /\ \A id : ConsumersAge(g, ClearConsumer(g, id))
         /\ \A id : ConsumerIsLive(g, id) => ConsumersAge(g, RemoveConsumer(g, id))
         /\ \A s, c : ConsumersAge(g, Subscribe(g, s, c))
         /\ \A s, kind : ConsumersAge(g, PublishChecked(g, s, kind))
         /\ \A kind : ConsumersAge(g, TakePendingKind(g, kind))
         /\ \A sl, cl : ConsumersAge(g, Grown(g, sl, cl))
         /\ ConsumersAge(g, g)
<1>0. /\ \A c \in DOMAIN g.consumers : g.consumers[c].generation \in Nat
      /\ Aged(g.consumers, g.consumers)
  BY Generations, AgedSame
<1>1. ASSUME NEW target \in Subscriber, CanAddConsumer(g)
      PROVE  ConsumersAge(g, AddConsumer(g, target))
  <2> DEFINE h == AddConsumer(g, target)
  <2>1. NodeAdded(g.consumers, h.consumers, NextId(g.consumers)) /\ h.sources = g.sources
    BY <1>1, AddConsumerEffect
  <2> HIDE DEF h
  <2> QED BY <1>0, <2>1, NodesAge DEF ConsumersAge, h
<1>2. ASSUME NEW id PROVE ConsumersAge(g, ClearConsumer(g, id))
  BY <1>0, ClearConsumerEffect DEF ConsumersAge
<1>3. ASSUME NEW id, ConsumerIsLive(g, id) PROVE ConsumersAge(g, RemoveConsumer(g, id))
  <2> DEFINE h == RemoveConsumer(g, id)
  <2>1. NodeRemoved(g.consumers, h.consumers, id) /\ h.sources = g.sources
    BY <1>3, RemoveConsumerEffect
  <2> HIDE DEF h
  <2> QED BY <1>0, <2>1, NodesAge DEF ConsumersAge, h
<1>4. ASSUME NEW s, NEW c PROVE ConsumersAge(g, Subscribe(g, s, c))
  BY <1>0, SubscribeEffect DEF ConsumersAge
<1>5. ASSUME NEW s, NEW kind PROVE ConsumersAge(g, PublishChecked(g, s, kind))
  <2> DEFINE h == PublishChecked(g, s, kind)
  <2>1. OnlyFlags(g.consumers, h.consumers) /\ h.sources = g.sources
    BY PublishCheckedEffect
  <2> HIDE DEF h
  <2> QED BY <1>0, <2>1, NodesAge DEF ConsumersAge, h
<1>6. ASSUME NEW kind PROVE ConsumersAge(g, TakePendingKind(g, kind))
  <2> DEFINE h == TakePendingKind(g, kind)
  <2>1. OnlyFlags(g.consumers, h.consumers) /\ h.sources = g.sources
    BY TakePendingKindEffect
  <2> HIDE DEF h
  <2> QED BY <1>0, <2>1, NodesAge DEF ConsumersAge, h
<1>7. ASSUME NEW sl, NEW cl PROVE ConsumersAge(g, Grown(g, sl, cl))
  BY <1>0, GrownEffect DEF ConsumersAge
<1>8. ConsumersAge(g, g)
  BY <1>0 DEF ConsumersAge
<1> QED BY <1>1, <1>2, <1>3, <1>4, <1>5, <1>6, <1>7, <1>8

\* Every owner's graph changes, quietly.
LEMMA QuietEverywhere ==
  ASSUME PartitionInv, ConsumersAge(shared, shared'), nextOwnerEpoch' = nextOwnerEpoch,
         NEW g, \A i \in DOMAIN owners : ConsumersAge(owners[i].graph, g[i]),
         DOMAIN owners' = DOMAIN owners,
         \A i \in DOMAIN owners : \/ owners'[i] = [owners[i] EXCEPT !.graph = g[i]]
                                  \/ owners'[i] = owners[i]
  PROVE  QuietStep
<1>1. ASSUME NEW i \in DOMAIN owners PROVE Quiet(owners[i], owners'[i])
  <2>1. CASE owners'[i] = [owners[i] EXCEPT !.graph = g[i]]
    <3>1. /\ owners'[i].graph = g[i] /\ owners'[i].key = owners[i].key
          /\ owners'[i].sharedSources = owners[i].sharedSources
      BY <2>1, OwnerTypes, OwnerFields
    <3> QED BY <3>1 DEF Quiet, ConsumersAge
  <2>2. CASE owners'[i] = owners[i]
    BY <2>2, AgedSame, OwnerGraphInv DEF Quiet
  <2> QED BY <2>1, <2>2
<1> QED BY <1>1 DEF QuietStep, ConsumersAge

LEMMA GrowthQuiet ==
  ASSUME PartitionInv,
         \/ ReserveForSharedSource
         \/ ReserveForOwner
         \/ \E w \in Worlds : ReserveForOwnerSource(w)
         \/ \E key \in PartitionKeys :
              \/ ReserveForConsumer(key)
              \/ \E headroom \in Headrooms : ReserveOwnerConsumers(key, headroom)
  PROVE  QuietStep
<1>1. PICK r : Reserve(r)
  <2>1. CASE ReserveForSharedSource
    BY <2>1 DEF ReserveForSharedSource
  <2>2. CASE ReserveForOwner
    BY <2>2 DEF ReserveForOwner
  <2>3. CASE \E w \in Worlds : ReserveForOwnerSource(w)
    BY <2>3 DEF ReserveForOwnerSource
  <2>4. CASE \E key \in PartitionKeys : ReserveForConsumer(key)
    BY <2>4 DEF ReserveForConsumer
  <2>5. CASE \E key \in PartitionKeys, headroom \in Headrooms : ReserveOwnerConsumers(key, headroom)
    BY <2>5 DEF ReserveOwnerConsumers
  <2> QED BY <2>1, <2>2, <2>3, <2>4, <2>5
<1> DEFINE g == [i \in DOMAIN owners |->
                   Grown(owners[i].graph, capacity'.ownerSources, capacity'.ownerConsumers)]
<1>2. /\ shared' = Grown(shared, capacity'.sharedSources, capacity'.sharedConsumers)
      /\ owners' = [i \in DOMAIN owners |->
                      [owners[i] EXCEPT
                         !.graph = Grown(@, capacity'.ownerSources, capacity'.ownerConsumers)]]
      /\ nextOwnerEpoch' = nextOwnerEpoch
  BY <1>1 DEF Reserve, MapOwners
<1>3. ConsumersAge(shared, shared')
  BY <1>2, SharedGraphInv, OperationsAge
<1>4. \A i \in DOMAIN owners : ConsumersAge(owners[i].graph, g[i])
  BY OwnerGraphInv, OperationsAge
<1>5. /\ DOMAIN owners' = DOMAIN owners
      /\ \A i \in DOMAIN owners : owners'[i] = [owners[i] EXCEPT !.graph = g[i]]
  BY <1>2
<1> HIDE DEF g
<1> QED BY <1>2, <1>3, <1>4, <1>5, QuietEverywhere

LEMMA PublishSharedQuiet ==
  ASSUME PartitionInv, NEW source, NEW kind, PublishShared(source, kind)
  PROVE  QuietStep
<1> DEFINE g == [i \in DOMAIN owners |->
                   PublishChecked(owners[i].graph, ProxyIn(owners[i], source.slot.slot), kind)]
<1>1. /\ shared' = PublishChecked(shared, source.slot, kind)
      /\ owners' = [i \in DOMAIN owners |->
                      [owners[i] EXCEPT
                         !.graph = PublishChecked(@, ProxyIn(owners[i], source.slot.slot), kind)]]
      /\ nextOwnerEpoch' = nextOwnerEpoch
  BY DEF PublishShared, MapOwners
<1>2. ConsumersAge(shared, shared')
  BY <1>1, SharedGraphInv, OperationsAge
<1>3. \A i \in DOMAIN owners : ConsumersAge(owners[i].graph, g[i])
  BY OwnerGraphInv, OperationsAge
<1>4. /\ DOMAIN owners' = DOMAIN owners
      /\ \A i \in DOMAIN owners : owners'[i] = [owners[i] EXCEPT !.graph = g[i]]
  BY <1>1
<1> HIDE DEF g
<1> QED BY <1>1, <1>2, <1>3, <1>4, QuietEverywhere

LEMMA TakePendingQuiet ==
  ASSUME PartitionInv, NEW kind, TakePendingAnyKind(kind)
  PROVE  QuietStep
<1> DEFINE g == [i \in DOMAIN owners |-> TakePendingKind(owners[i].graph, kind)]
<1>1. PICK scanned :
        /\ shared' = TakePendingKind(shared, kind)
        /\ owners' = [i \in DOMAIN owners |->
                        IF i \in scanned
                          THEN [owners[i] EXCEPT !.graph = TakePendingKind(@, kind)]
                          ELSE owners[i]]
        /\ UNCHANGED <<capacity, nextOwnerEpoch>>
  BY DEF TakePendingAnyKind
<1>2. ConsumersAge(shared, shared')
  BY <1>1, SharedGraphInv, OperationsAge
<1>3. \A i \in DOMAIN owners : ConsumersAge(owners[i].graph, g[i])
  BY OwnerGraphInv, OperationsAge
<1>4. /\ DOMAIN owners' = DOMAIN owners
      /\ \A i \in DOMAIN owners : \/ owners'[i] = [owners[i] EXCEPT !.graph = g[i]]
                                  \/ owners'[i] = owners[i]
  BY <1>1
<1> HIDE DEF g
<1> QED BY <1>1, <1>2, <1>3, <1>4, QuietEverywhere

LEMMA PublishOwnerQuiet ==
  ASSUME PartitionInv, NEW source, NEW kind, PublishOwner(source, kind)
  PROVE  QuietStep
<1>1. PICK i \in DOMAIN owners :
        /\ SetGraph(i, PublishChecked(owners[i].graph, source.slot, kind))
        /\ UNCHANGED <<shared, nextOwnerEpoch>>
  BY DEF PublishOwner, OwnerIndex
<1>2. ConsumersAge(owners[i].graph, PublishChecked(owners[i].graph, source.slot, kind))
  BY OwnerGraphInv, OperationsAge
<1> QED BY <1>1, <1>2, QuietOwner

LEMMA ConsumersQuiet ==
  ASSUME PartitionInv, ConsumerStep
  PROVE  QuietStep
<1>1. ASSUME NEW key, NEW target \in Subscriber, RegisterConsumer(key, target)
      PROVE  QuietStep
  <2>1. CASE /\ CanAddConsumer(shared) /\ shared' = AddConsumer(shared, target)
             /\ UNCHANGED <<owners, nextOwnerEpoch>>
    BY <2>1, SharedGraphInv, OperationsAge, QuietShared
  <2>2. CASE \E i \in DOMAIN owners :
               /\ CanAddConsumer(owners[i].graph)
               /\ SetGraph(i, AddConsumer(owners[i].graph, target))
               /\ UNCHANGED <<shared, nextOwnerEpoch>>
    <3>1. PICK i \in DOMAIN owners :
               /\ CanAddConsumer(owners[i].graph)
               /\ SetGraph(i, AddConsumer(owners[i].graph, target))
               /\ UNCHANGED <<shared, nextOwnerEpoch>>
      BY <2>2
    <3>2. ConsumersAge(owners[i].graph, AddConsumer(owners[i].graph, target))
      BY <3>1, OwnerGraphInv, OperationsAge
    <3> QED BY <3>1, <3>2, QuietOwner
  <2> QED BY <1>1, <2>1, <2>2 DEF RegisterConsumer, OnPartition, OwnerIndex
<1>2. ASSUME NEW consumer, ClearConsumerEdges(consumer) PROVE QuietStep
  <2>1. CASE shared' = ClearConsumer(shared, consumer.slot) /\ UNCHANGED <<owners, nextOwnerEpoch>>
    BY <2>1, SharedGraphInv, OperationsAge, QuietShared
  <2>2. CASE \E i \in DOMAIN owners :
               /\ SetGraph(i, ClearConsumer(owners[i].graph, consumer.slot))
               /\ UNCHANGED <<shared, nextOwnerEpoch>>
    <3>1. PICK i \in DOMAIN owners :
               /\ SetGraph(i, ClearConsumer(owners[i].graph, consumer.slot))
               /\ UNCHANGED <<shared, nextOwnerEpoch>>
      BY <2>2
    <3>2. ConsumersAge(owners[i].graph, ClearConsumer(owners[i].graph, consumer.slot))
      BY OwnerGraphInv, OperationsAge
    <3> QED BY <3>1, <3>2, QuietOwner
  <2> QED BY <1>2, <2>1, <2>2 DEF ClearConsumerEdges, OnPartition, OwnerIndex
<1>3. ASSUME NEW consumer, RemoveConsumerNode(consumer) PROVE QuietStep
  <2>1. CASE /\ ConsumerIsLive(shared, consumer.slot)
             /\ shared' = RemoveConsumer(shared, consumer.slot)
             /\ UNCHANGED <<owners, nextOwnerEpoch>>
    BY <2>1, SharedGraphInv, OperationsAge, QuietShared
  <2>2. CASE \E i \in DOMAIN owners :
               /\ ConsumerIsLive(owners[i].graph, consumer.slot)
               /\ SetGraph(i, RemoveConsumer(owners[i].graph, consumer.slot))
               /\ UNCHANGED <<shared, nextOwnerEpoch>>
    <3>1. PICK i \in DOMAIN owners :
               /\ ConsumerIsLive(owners[i].graph, consumer.slot)
               /\ SetGraph(i, RemoveConsumer(owners[i].graph, consumer.slot))
               /\ UNCHANGED <<shared, nextOwnerEpoch>>
      BY <2>2
    <3>2. ConsumersAge(owners[i].graph, RemoveConsumer(owners[i].graph, consumer.slot))
      BY <3>1, OwnerGraphInv, OperationsAge
    <3> QED BY <3>1, <3>2, QuietOwner
  <2> QED BY <1>3, <2>1, <2>2 DEF RemoveConsumerNode, OnPartition, OwnerIndex
<1>4. ASSUME NEW source, NEW consumer,
             SubscribeShared(source, consumer) \/ SubscribeInOwner(source, consumer)
      PROVE  QuietStep
  <2>1. CASE \E s : shared' = Subscribe(shared, s, consumer.slot) /\ UNCHANGED <<owners, nextOwnerEpoch>>
    BY <2>1, SharedGraphInv, OperationsAge, QuietShared
  <2>2. CASE \E i \in DOMAIN owners : \E s :
               /\ SetGraph(i, Subscribe(owners[i].graph, s, consumer.slot))
               /\ UNCHANGED <<shared, nextOwnerEpoch>>
    <3>1. PICK i \in DOMAIN owners : \E s :
               /\ SetGraph(i, Subscribe(owners[i].graph, s, consumer.slot))
               /\ UNCHANGED <<shared, nextOwnerEpoch>>
      BY <2>2
    <3>2. PICK s :
               /\ SetGraph(i, Subscribe(owners[i].graph, s, consumer.slot))
               /\ UNCHANGED <<shared, nextOwnerEpoch>>
      BY <3>1
    <3>3. ConsumersAge(owners[i].graph, Subscribe(owners[i].graph, s, consumer.slot))
      BY OwnerGraphInv, OperationsAge
    <3> QED BY <3>2, <3>3, QuietOwner
  <2>3. CASE SubscribeShared(source, consumer)
    BY <2>1, <2>2, <2>3 DEF SubscribeShared, OnPartition, OwnerIndex
  <2>4. CASE SubscribeInOwner(source, consumer)
    <3>1. PICK i \in DOMAIN owners :
            /\ SetGraph(i, Subscribe(owners[i].graph, LocalSource(source, i), consumer.slot))
            /\ UNCHANGED <<shared, nextOwnerEpoch>>
      BY <2>4 DEF SubscribeInOwner, OwnerIndex
    <3> QED BY <2>2, <3>1
  <2> QED BY <1>4, <2>3, <2>4
<1> QED BY <1>1, <1>2, <1>3, <1>4, TakePendingQuiet DEF ConsumerStep

-----------------------------------------------------------------------------
(***************************************************************************)
(* Steps that add, renew or remove a source.                               *)
(***************************************************************************)
\* A source of one owner changes.
OwnSourceStep(i) ==
  /\ UNCHANGED <<shared, nextOwnerEpoch>>
  /\ DOMAIN owners' = DOMAIN owners
  /\ owners'[i].key = owners[i].key /\ owners'[i].sharedSources = owners[i].sharedSources
  /\ owners'[i].graph.consumers = owners[i].graph.consumers
  /\ \A j \in DOMAIN owners : j # i => owners'[j] = owners[j]

LEMMA RegisterOwnerSourceFacts ==
  ASSUME PartitionInv, NEW w, RegisterOwnerSource(w)
  PROVE  \E i \in DOMAIN owners :
           /\ OwnSourceStep(i)
           /\ NodeAdded(owners[i].graph.sources, owners'[i].graph.sources,
                        NextId(owners[i].graph.sources))
           /\ owners'[i].graph.rows =
                ClearRow(owners[i].graph.rows, NextId(owners[i].graph.sources).slot)
           /\ owners'[i].graph.pending = owners[i].graph.pending
<1>1. PICK i \in DOMAIN owners :
        /\ CanAddSource(owners[i].graph)
        /\ SetGraph(i, AddSource(owners[i].graph))
        /\ UNCHANGED <<shared, nextOwnerEpoch>>
  BY DEF RegisterOwnerSource, OwnerOfWorld
<1> QED BY <1>1, OwnerGraphInv, AddSourceEffect, SetGraphFacts DEF OwnSourceStep

LEMMA RenewOwnerSourceFacts ==
  ASSUME PartitionInv, NEW source, RenewOwnerSource(source)
  PROVE  \E i \in OwnerIndex(source.partition) :
           /\ OwnSourceStep(i)
           /\ SourceIsLive(owners[i].graph, source.slot)
           /\ NodeRenewed(owners[i].graph.sources, owners'[i].graph.sources, source.slot)
           /\ owners'[i].graph.rows = ClearRow(owners[i].graph.rows, source.slot.slot)
           /\ owners'[i].graph.pending = owners[i].graph.pending
<1>1. PICK i \in OwnerIndex(source.partition) :
        /\ SourceIsLive(owners[i].graph, source.slot)
        /\ SetGraph(i, RenewSource(owners[i].graph, source.slot))
        /\ UNCHANGED <<shared, nextOwnerEpoch>>
  BY DEF RenewOwnerSource
<1>2. i \in DOMAIN owners
  BY DEF OwnerIndex
<1> QED BY <1>1, <1>2, OwnerGraphInv, RenewSourceEffect, SetGraphFacts DEF OwnSourceStep

LEMMA RemoveOwnerSourceFacts ==
  ASSUME PartitionInv, NEW source, RemoveOwnerSource(source)
  PROVE  \E i \in OwnerIndex(source.partition) :
           /\ OwnSourceStep(i)
           /\ SourceIsLive(owners[i].graph, source.slot)
           /\ NodeRemoved(owners[i].graph.sources, owners'[i].graph.sources, source.slot)
           /\ owners'[i].graph.rows = ClearRow(owners[i].graph.rows, source.slot.slot)
           /\ owners'[i].graph.pending = owners[i].graph.pending
<1>1. PICK i \in OwnerIndex(source.partition) :
        /\ SourceIsLive(owners[i].graph, source.slot)
        /\ SetGraph(i, RemoveSource(owners[i].graph, source.slot))
        /\ UNCHANGED <<shared, nextOwnerEpoch>>
  BY DEF RemoveOwnerSource
<1>2. i \in DOMAIN owners
  BY DEF OwnerIndex
<1> QED BY <1>1, <1>2, OwnerGraphInv, RemoveSourceEffect, SetGraphFacts DEF OwnSourceStep

\* A shared source comes with a proxy in every owner, or goes with it.
AddedEverywhere(o, p, slot) ==
  LET id == NextId(o.graph.sources)
  IN  /\ p.key = o.key
      /\ NodeAdded(o.graph.sources, p.graph.sources, id)
      /\ p.graph.rows = ClearRow(o.graph.rows, id.slot)
      /\ p.graph.consumers = o.graph.consumers /\ p.graph.pending = o.graph.pending
      /\ p.sharedSources = Place(o.sharedSources, slot, id)

LEMMA RegisterSharedSourceFacts ==
  ASSUME PartitionInv, RegisterSharedSource
  PROVE  LET id == NextId(shared.sources)
         IN  /\ NodeAdded(shared.sources, shared'.sources, id)
             /\ shared'.rows = ClearRow(shared.rows, id.slot)
             /\ shared'.consumers = shared.consumers /\ shared'.pending = shared.pending
             /\ nextOwnerEpoch' = nextOwnerEpoch
             /\ DOMAIN owners' = DOMAIN owners
             /\ \A i \in DOMAIN owners : AddedEverywhere(owners[i], owners'[i], id.slot)
<1> DEFINE id == NextId(shared.sources)
           g(i) == AddSource(owners[i].graph)
           links(i) == Place(owners[i].sharedSources, id.slot, NextId(owners[i].graph.sources))
<1>0. /\ CanAddSource(shared) /\ shared' = AddSource(shared) /\ nextOwnerEpoch' = nextOwnerEpoch
      /\ \A i \in DOMAIN owners : CanAddSource(owners[i].graph)
  BY DEF RegisterSharedSource
<1>1. owners' = [i \in DOMAIN owners |->
                   [owners[i] EXCEPT !.graph = g(i), !.sharedSources = links(i)]]
  BY Zenon DEF RegisterSharedSource, MapOwners
<1> HIDE DEF id
<1>2. ASSUME NEW i \in DOMAIN owners PROVE AddedEverywhere(owners[i], owners'[i], id.slot)
  <2> DEFINE o == owners[i]
             h == g(i)
             l == links(i)
  <2>1. owners'[i] = [o EXCEPT !.graph = h, !.sharedSources = l] /\ o \in Owner
    BY <1>1, OwnerTypes, Zenon
  <2>2. /\ NodeAdded(o.graph.sources, h.sources, NextId(o.graph.sources))
        /\ h.rows = ClearRow(o.graph.rows, NextId(o.graph.sources).slot)
        /\ h.consumers = o.graph.consumers /\ h.pending = o.graph.pending
    BY <1>0, OwnerGraphInv, AddSourceEffect
  <2>4. l = Place(o.sharedSources, id.slot, NextId(o.graph.sources))
    OBVIOUS
  <2> HIDE DEF h, l, o
  <2>3. owners'[i].graph = h /\ owners'[i].key = o.key /\ owners'[i].sharedSources = l
    BY <2>1, OwnerFields
  <2> QED BY <2>2, <2>3, <2>4 DEF AddedEverywhere, o
<1>3. /\ NodeAdded(shared.sources, shared'.sources, id)
      /\ shared'.rows = ClearRow(shared.rows, id.slot)
      /\ shared'.consumers = shared.consumers /\ shared'.pending = shared.pending
  BY <1>0, SharedGraphInv, AddSourceEffect DEF id
<1> HIDE DEF g, links
<1>4. DOMAIN owners' = DOMAIN owners
  BY <1>1, Zenon
<1> QED BY <1>0, <1>2, <1>3, <1>4 DEF id

RemovedEverywhere(o, p, slot) ==
  LET id == ProxyIn(o, slot)
  IN  /\ p.key = o.key
      /\ SourceIsLive(o.graph, id)
      /\ NodeRemoved(o.graph.sources, p.graph.sources, id)
      /\ p.graph.rows = ClearRow(o.graph.rows, id.slot)
      /\ p.graph.consumers = o.graph.consumers /\ p.graph.pending = o.graph.pending
      /\ p.sharedSources = [o.sharedSources EXCEPT ![slot] = NoProxy]

LEMMA RemoveSharedSourceFacts ==
  ASSUME PartitionInv, NEW source, RemoveSharedSource(source)
  PROVE  /\ SourceIsLive(shared, source.slot)
         /\ NodeRemoved(shared.sources, shared'.sources, source.slot)
         /\ shared'.rows = ClearRow(shared.rows, source.slot.slot)
         /\ shared'.consumers = shared.consumers /\ shared'.pending = shared.pending
         /\ nextOwnerEpoch' = nextOwnerEpoch
         /\ DOMAIN owners' = DOMAIN owners
         /\ \A i \in DOMAIN owners : RemovedEverywhere(owners[i], owners'[i], source.slot.slot)
<1> DEFINE slot == source.slot.slot
           g(i) == RemoveSource(owners[i].graph, ProxyIn(owners[i], slot))
<1>0. /\ SourceIsLive(shared, source.slot) /\ shared' = RemoveSource(shared, source.slot)
      /\ nextOwnerEpoch' = nextOwnerEpoch
      /\ \A i \in DOMAIN owners : SourceIsLive(owners[i].graph, ProxyIn(owners[i], slot))
  BY DEF RemoveSharedSource
<1>1. owners' = [i \in DOMAIN owners |->
                   [owners[i] EXCEPT !.graph = g(i), !.sharedSources[slot] = NoProxy]]
  BY Zenon DEF RemoveSharedSource, MapOwners
<1> HIDE DEF slot
<1>2. ASSUME NEW i \in DOMAIN owners PROVE RemovedEverywhere(owners[i], owners'[i], slot)
  <2> DEFINE o == owners[i]
             id == ProxyIn(o, slot)
             h == g(i)
             l == [o.sharedSources EXCEPT ![slot] = NoProxy]
  <2>1. o \in Owner /\ owners'[i] = [o EXCEPT !.graph = h, !.sharedSources = l]
    <3>1. o \in Owner
      BY OwnerTypes
    <3>2. owners'[i] = [o EXCEPT !.graph = h, !.sharedSources[slot] = NoProxy]
      BY <1>1, Zenon
    <3> HIDE DEF o, h
    <3> QED BY <3>1, <3>2 DEF Owner
  <2>2. SourceIsLive(o.graph, id)
    BY <1>0
  <2>5. h = RemoveSource(o.graph, id)
    OBVIOUS
  <2> HIDE DEF id, h
  <2>3. /\ NodeRemoved(o.graph.sources, h.sources, id)
        /\ h.rows = ClearRow(o.graph.rows, id.slot)
        /\ h.consumers = o.graph.consumers /\ h.pending = o.graph.pending
    BY <2>2, <2>5, OwnerGraphInv, RemoveSourceEffect
  <2> HIDE DEF o, l
  <2>4. owners'[i].graph = h /\ owners'[i].key = o.key /\ owners'[i].sharedSources = l
    BY <2>1, OwnerFields
  <2> QED BY <2>2, <2>3, <2>4 DEF RemovedEverywhere, o, id, l
<1>3. /\ NodeRemoved(shared.sources, shared'.sources, source.slot)
      /\ shared'.rows = ClearRow(shared.rows, source.slot.slot)
      /\ shared'.consumers = shared.consumers /\ shared'.pending = shared.pending
  BY <1>0, SharedGraphInv, RemoveSourceEffect
<1> HIDE DEF g
<1>4. DOMAIN owners' = DOMAIN owners
  BY <1>1, Zenon
<1> QED BY <1>0, <1>2, <1>3, <1>4 DEF slot

-----------------------------------------------------------------------------
(***************************************************************************)
(* Owner keys.                                                             *)
(***************************************************************************)
LEMMA KeysStay ==
  ASSUME OwnersDistinct, DOMAIN owners' = DOMAIN owners, nextOwnerEpoch' = nextOwnerEpoch,
         \A i \in DOMAIN owners : owners'[i].key = owners[i].key
  PROVE  OwnersDistinct'
BY DEF OwnersDistinct

\* AddOwner appends an owner under the next epoch.
LEMMA AddOwnerFacts ==
  ASSUME PartitionInv, NEW w, AddOwner(w)
  PROVE  LET o == NewOwner(OwnerKeyOf(w, nextOwnerEpoch))
             n == Len(owners)
         IN  /\ DOMAIN owners' = 1..(n + 1) /\ owners'[n + 1] = o
             /\ o.key = OwnerKeyOf(w, nextOwnerEpoch)
             /\ \A i \in 1..n : owners'[i] = owners[i]
             /\ OwnerOfWorld(w) = {}
             /\ shared' = shared /\ nextOwnerEpoch' = nextOwnerEpoch + 1
<1> DEFINE o == NewOwner(OwnerKeyOf(w, nextOwnerEpoch))
<1>1. owners \in Seq(Owner)
  BY DEF PartitionInv
<1>2. /\ owners' = Append(owners, o) /\ OwnerOfWorld(w) = {}
      /\ shared' = shared /\ nextOwnerEpoch' = nextOwnerEpoch + 1
  BY DEF AddOwner
<1>3. o.key = OwnerKeyOf(w, nextOwnerEpoch)
  BY DEF NewOwner
<1> HIDE DEF o
<1> QED BY <1>1, <1>2, <1>3 DEF o

LEMMA AddOwnerKeys ==
  ASSUME PartitionInv, OwnersDistinct, NEW w \in Worlds, AddOwner(w)
  PROVE  OwnersDistinct'
<1> DEFINE n == Len(owners)
<1>1. n \in Nat /\ DOMAIN owners = 1..n /\ nextOwnerEpoch \in Nat \ {0}
  BY OwnerTypes
<1>2. /\ DOMAIN owners' = 1..(n + 1)
      /\ owners'[n + 1].key.world = w /\ owners'[n + 1].key.epoch = nextOwnerEpoch
      /\ \A i \in 1..n : owners'[i] = owners[i]
      /\ \A i \in 1..n : owners[i].key.world # w
      /\ nextOwnerEpoch' = nextOwnerEpoch + 1
  <2> DEFINE o == NewOwner(OwnerKeyOf(w, nextOwnerEpoch))
  <2>1. /\ DOMAIN owners' = 1..(n + 1) /\ owners'[n + 1] = o
        /\ o.key = OwnerKeyOf(w, nextOwnerEpoch)
        /\ \A i \in 1..n : owners'[i] = owners[i]
        /\ OwnerOfWorld(w) = {}
        /\ shared' = shared /\ nextOwnerEpoch' = nextOwnerEpoch + 1
    BY AddOwnerFacts
  <2> HIDE DEF o
  <2>2. o.key.world = w /\ o.key.epoch = nextOwnerEpoch
    BY <2>1 DEF OwnerKeyOf
  <2>3. \A i \in 1..n : owners[i].key.world # w
    BY <1>1, <2>1 DEF OwnerOfWorld
  <2> QED BY <2>1, <2>2, <2>3
<1>3. \A i \in 1..n : owners[i].key.world \in Worlds /\ owners[i].key.epoch \in 1..nextOwnerEpoch - 1
  BY <1>1 DEF OwnersDistinct
<1> HIDE DEF n
<1>4. \A i \in 1..(n + 1) : i \in 1..n \/ i = n + 1
  BY <1>1
<1>5. \A i \in 1..(n + 1) : /\ owners'[i].key.world \in Worlds
                             /\ owners'[i].key.epoch \in 1..nextOwnerEpoch' - 1
  BY <1>1, <1>2, <1>3, <1>4
<1>6. ASSUME NEW i \in 1..(n + 1), NEW j \in 1..(n + 1),
             \/ owners'[i].key.world = owners'[j].key.world
             \/ owners'[i].key.epoch = owners'[j].key.epoch
      PROVE  i = j
  <2>1. CASE i \in 1..n /\ j \in 1..n
    BY <1>1, <1>2, <1>6, <2>1 DEF OwnersDistinct
  <2>2. CASE i \in 1..n /\ j = n + 1
    BY <1>1, <1>2, <1>3, <1>6, <2>2
  <2>3. CASE i = n + 1 /\ j \in 1..n
    BY <1>1, <1>2, <1>3, <1>6, <2>3
  <2>4. CASE i = n + 1 /\ j = n + 1
    BY <2>4
  <2> QED BY <1>4, <2>1, <2>2, <2>3, <2>4
<1> QED BY <1>2, <1>5, <1>6 DEF OwnersDistinct

\* swap_remove: every owner but one stays, the last one at another place.
LEMMA RemoveOwnerFacts ==
  ASSUME PartitionInv, NEW w, RemoveOwner(w)
  PROVE  \E i \in OwnerOfWorld(w) : \E from \in [DOMAIN owners' -> DOMAIN owners \ {i}] :
           /\ \A j \in DOMAIN owners' : owners'[j] = owners[from[j]]
           /\ \A j, k \in DOMAIN owners' : from[j] = from[k] => j = k
           /\ \A k \in DOMAIN owners \ {i} : \E j \in DOMAIN owners' : from[j] = k
           /\ UNCHANGED <<shared, nextOwnerEpoch>>
<1> DEFINE n == Len(owners)
<1>1. n \in Nat /\ DOMAIN owners = 1..n
  BY OwnerTypes
<1>2. PICK i \in OwnerOfWorld(w) :
        /\ owners' = [j \in 1..n - 1 |-> IF j = i THEN owners[n] ELSE owners[j]]
        /\ UNCHANGED <<shared, nextOwnerEpoch>>
  BY DEF RemoveOwner
<1>3. i \in 1..n
  BY <1>1 DEF OwnerOfWorld
<1> DEFINE from == [j \in 1..n - 1 |-> IF j = i THEN n ELSE j]
<1> HIDE DEF n
<1>4. DOMAIN owners' = 1..n - 1 /\ \A j \in 1..n - 1 : owners'[j] = owners[from[j]]
  BY <1>2
<1>5. from \in [1..n - 1 -> (1..n) \ {i}]
  BY <1>1, <1>3
<1>6. \A j, k \in 1..n - 1 : from[j] = from[k] => j = k
  BY <1>1, <1>3
<1>7. ASSUME NEW k \in (1..n) \ {i} PROVE \E j \in 1..n - 1 : from[j] = k
  <2>1. CASE k = n
    <3>1. i \in 1..n - 1 /\ from[i] = k
      BY <1>1, <1>3, <2>1
    <3> QED BY <3>1
  <2>2. CASE k # n
    <3>1. k \in 1..n - 1 /\ from[k] = k
      BY <1>1, <2>2
    <3> QED BY <3>1
  <2> QED BY <2>1, <2>2
<1> HIDE DEF from
<1> QED BY <1>1, <1>2, <1>4, <1>5, <1>6, <1>7

LEMMA RemoveOwnerKeys ==
  ASSUME PartitionInv, OwnersDistinct, NEW w, RemoveOwner(w)
  PROVE  OwnersDistinct'
<1>1. PICK i \in OwnerOfWorld(w) : \E from \in [DOMAIN owners' -> DOMAIN owners \ {i}] :
           /\ \A j \in DOMAIN owners' : owners'[j] = owners[from[j]]
           /\ \A j, k \in DOMAIN owners' : from[j] = from[k] => j = k
           /\ nextOwnerEpoch' = nextOwnerEpoch
  BY RemoveOwnerFacts
<1>2. PICK from \in [DOMAIN owners' -> DOMAIN owners \ {i}] :
           /\ \A j \in DOMAIN owners' : owners'[j] = owners[from[j]]
           /\ \A j, k \in DOMAIN owners' : from[j] = from[k] => j = k
           /\ nextOwnerEpoch' = nextOwnerEpoch
  BY <1>1
<1>3. \A j \in DOMAIN owners' : from[j] \in DOMAIN owners
  BY <1>2
<1> QED BY <1>2, <1>3 DEF OwnersDistinct

-----------------------------------------------------------------------------
(***************************************************************************)
(* Proxies.                                                                *)
(***************************************************************************)
LEMMA FaithfulStays ==
  ASSUME NEW o, NEW p, NEW nodes, NEW new, Faithful(o, nodes),
         p.sharedSources = o.sharedSources, p.graph.sources = o.graph.sources, new = nodes
  PROVE  Faithful(p, new)
BY DEF Faithful, SourceIsLive

\* The proxy ids of a faithful owner are live, whatever they stand for.
LEMMA ProxiesLive ==
  ASSUME NEW o, NEW nodes, Faithful(o, nodes), NEW id \in Proxies(o)
  PROVE  SourceIsLive(o.graph, id)
BY DEF Faithful, Proxies

LEMMA ProxyIsProxy ==
  ASSUME NEW o, NEW nodes, Faithful(o, nodes), NEW s \in DOMAIN nodes, nodes[s].live,
         \A t \in DOMAIN o.graph.sources : t # 0
  PROVE  /\ o.sharedSources[s] \in Proxies(o)
         /\ ProxyIn(o, s) = o.sharedSources[s]
<1>1. SourceIsLive(o.graph, o.sharedSources[s]) /\ s \in DOMAIN o.sharedSources
  BY DEF Faithful
<1>2. o.sharedSources[s] # NoProxy
  BY <1>1 DEF SourceIsLive, NodeIsLive, NoProxy
<1> QED BY <1>1, <1>2 DEF Proxies, ProxyIn

\* A new source takes a slot that no proxy has.
LEMMA FaithfulWithOneMore ==
  ASSUME NEW o, NEW p, NEW nodes, NEW id, Faithful(o, nodes),
         p.sharedSources = o.sharedSources,
         NodeAdded(o.graph.sources, p.graph.sources, id)
  PROVE  Faithful(p, nodes)
<1>1. ASSUME NEW s \in DOMAIN nodes, nodes[s].live
      PROVE  SourceIsLive(p.graph, o.sharedSources[s])
  <2>1. SourceIsLive(o.graph, o.sharedSources[s])
    BY <1>1 DEF Faithful
  <2> QED BY <2>1 DEF SourceIsLive, NodeIsLive, NodeAdded
<1> QED BY <1>1 DEF Faithful

\* A source that is not a proxy is renewed or removed.
LEMMA FaithfulWithOneLess ==
  ASSUME NEW o \in Owner, NEW p, NEW nodes, NEW id, Faithful(o, nodes),
         p.sharedSources = o.sharedSources,
         id \in SlotId, id \notin Proxies(o), SourceIsLive(o.graph, id),
         \A t \in DOMAIN o.graph.sources : t # 0,
         \/ NodeRemoved(o.graph.sources, p.graph.sources, id)
         \/ NodeRenewed(o.graph.sources, p.graph.sources, id)
  PROVE  Faithful(p, nodes)
<1>1. ASSUME NEW s \in DOMAIN nodes, nodes[s].live
      PROVE  SourceIsLive(p.graph, o.sharedSources[s])
  <2>1. SourceIsLive(o.graph, o.sharedSources[s]) /\ o.sharedSources[s] \in Proxies(o)
    BY <1>1, ProxyIsProxy DEF Faithful
  <2>2. o.sharedSources[s] \in SlotId /\ o.sharedSources[s] # id
    <3>1. /\ o.sharedSources \in Seq(SlotId \cup {NoProxy})
          /\ s \in DOMAIN o.sharedSources
      BY DEF Owner, Faithful
    <3>2. o.sharedSources[s] \in SlotId \cup {NoProxy}
      BY <3>1
    <3> QED BY <2>1, <3>2 DEF Proxies
  <2>3. o.sharedSources[s].slot # id.slot
    BY <2>1, <2>2 DEF SourceIsLive, NodeIsLive, SlotId
  <2> QED BY <2>1, <2>3 DEF SourceIsLive, NodeIsLive, NodeRemoved, NodeRenewed
<1> QED BY <1>1 DEF Faithful

LEMMA FaithfulAddedEverywhere ==
  ASSUME NEW o, NEW p, NEW nodes, NEW new, NEW id, Faithful(o, nodes),
         NodeAdded(nodes, new, id), AddedEverywhere(o, p, id.slot)
  PROVE  Faithful(p, new)
<1> DEFINE proxy == NextId(o.graph.sources)
<1>1. /\ NodeAdded(o.graph.sources, p.graph.sources, proxy)
      /\ p.sharedSources = Place(o.sharedSources, id.slot, proxy)
  BY DEF AddedEverywhere
<1> HIDE DEF proxy
<1>2. /\ DOMAIN p.sharedSources = DOMAIN nodes \cup {id.slot}
      /\ p.sharedSources[id.slot] = proxy
      /\ \A s \in DOMAIN nodes : s # id.slot => p.sharedSources[s] = o.sharedSources[s]
  BY <1>1 DEF Place, Faithful
<1>3. /\ DOMAIN new = DOMAIN nodes \cup {id.slot} /\ new[id.slot].live
      /\ \A s \in DOMAIN nodes : s # id.slot => new[s] = nodes[s]
  BY DEF NodeAdded
<1>4. SourceIsLive(p.graph, proxy)
  BY <1>1 DEF SourceIsLive, NodeIsLive, NodeAdded
<1>5. ASSUME NEW s \in DOMAIN nodes, nodes[s].live
      PROVE  /\ SourceIsLive(p.graph, o.sharedSources[s])
             /\ o.sharedSources[s] # proxy
  <2>1. SourceIsLive(o.graph, o.sharedSources[s])
    BY <1>5 DEF Faithful
  <2> QED BY <1>1, <2>1 DEF SourceIsLive, NodeIsLive, NodeAdded
<1>6. ASSUME NEW s \in DOMAIN new
      PROVE  IF new[s].live THEN SourceIsLive(p.graph, p.sharedSources[s])
                            ELSE p.sharedSources[s] = NoProxy
  <2>1. CASE s = id.slot
    BY <1>2, <1>3, <1>4, <2>1
  <2>2. CASE s # id.slot
    BY <1>2, <1>3, <1>5, <2>2 DEF Faithful
  <2> QED BY <2>1, <2>2
<1>7. ASSUME NEW s \in DOMAIN new, NEW t \in DOMAIN new, new[s].live, new[t].live,
             p.sharedSources[s] = p.sharedSources[t]
      PROVE  s = t
  <2>1. CASE s # id.slot /\ t # id.slot
    BY <1>2, <1>3, <1>7, <2>1 DEF Faithful
  <2>2. CASE s = id.slot /\ t # id.slot
    BY <1>2, <1>3, <1>5, <1>7, <2>2
  <2>3. CASE s # id.slot /\ t = id.slot
    BY <1>2, <1>3, <1>5, <1>7, <2>3
  <2> QED BY <2>1, <2>2, <2>3
<1> QED BY <1>2, <1>3, <1>6, <1>7 DEF Faithful

LEMMA FaithfulRemovedEverywhere ==
  ASSUME NEW o \in Owner, NEW p, NEW nodes, NEW new, NEW id, Faithful(o, nodes),
         NodeIsLive(nodes, id), NodeRemoved(nodes, new, id), RemovedEverywhere(o, p, id.slot)
  PROVE  Faithful(p, new)
<1> DEFINE proxy == ProxyIn(o, id.slot)
<1>1. /\ NodeRemoved(o.graph.sources, p.graph.sources, proxy)
      /\ p.sharedSources = [o.sharedSources EXCEPT ![id.slot] = NoProxy]
  BY DEF RemovedEverywhere
<1>2. id.slot \in DOMAIN nodes /\ nodes[id.slot].live /\ id.slot \in DOMAIN o.sharedSources
  BY DEF NodeIsLive, Faithful
<1>3. proxy = o.sharedSources[id.slot]
  BY <1>2 DEF ProxyIn
<1> HIDE DEF proxy
<1>4. ASSUME NEW s \in DOMAIN nodes, nodes[s].live, s # id.slot
      PROVE  SourceIsLive(p.graph, o.sharedSources[s])
  <2>1. SourceIsLive(o.graph, o.sharedSources[s]) /\ SourceIsLive(o.graph, proxy)
    BY <1>2, <1>3, <1>4 DEF Faithful
  <2>2. o.sharedSources[s] # proxy
    BY <1>2, <1>3, <1>4 DEF Faithful
  <2>3. o.sharedSources[s].slot # proxy.slot
    <3>1. /\ o.sharedSources \in Seq(SlotId \cup {NoProxy})
          /\ s \in DOMAIN o.sharedSources
      BY DEF Owner, Faithful
    <3>2. o.sharedSources[s] \in SlotId \cup {NoProxy} /\ proxy \in SlotId \cup {NoProxy}
      BY <1>2, <1>3, <3>1
    <3>3. /\ o.sharedSources[s] = [slot |-> o.sharedSources[s].slot,
                                   generation |-> o.sharedSources[s].generation]
          /\ proxy = [slot |-> proxy.slot, generation |-> proxy.generation]
      BY <3>2 DEF SlotId, NoProxy
    <3> QED BY <2>1, <2>2, <3>3 DEF SourceIsLive, NodeIsLive
  <2> QED BY <1>1, <2>1, <2>3 DEF SourceIsLive, NodeIsLive, NodeRemoved
<1>5. /\ DOMAIN new = DOMAIN nodes /\ ~new[id.slot].live
      /\ \A s \in DOMAIN nodes : s # id.slot => new[s] = nodes[s]
  BY DEF NodeRemoved
<1>6. /\ DOMAIN p.sharedSources = DOMAIN nodes /\ p.sharedSources[id.slot] = NoProxy
      /\ \A s \in DOMAIN nodes : s # id.slot => p.sharedSources[s] = o.sharedSources[s]
  BY <1>1, <1>2 DEF Faithful
<1> QED BY <1>4, <1>5, <1>6 DEF Faithful

-----------------------------------------------------------------------------
(***************************************************************************)
(* The proxies of a new owner: the n-th live shared source has the n-th.   *)
(***************************************************************************)
LEMMA NewOwnerFaithful ==
  ASSUME GraphInv(shared), NEW key
  PROVE  Faithful(NewOwner(key), shared.sources)
<1> DEFINE L == LiveSource(shared)
           live == Cardinality(L)
           nodes == shared.sources
           m == Len(nodes)
           proxies == [s \in 1..live |-> [generation |-> 1, live |-> TRUE]]
           Before(s) == {t \in L : t <= s}
           links == [s \in DOMAIN nodes |->
                       IF nodes[s].live THEN [slot |-> ProxySlot(s), generation |-> 1]
                                        ELSE NoProxy]
           o == NewOwner(key)
<1>1. m \in Nat /\ DOMAIN nodes = 1..m
  BY DEF GraphInv, GraphTypeOK, Graph
<1>2. L \in SUBSET (1..m) /\ \A s \in DOMAIN nodes : nodes[s].live <=> s \in L
  BY <1>1 DEF LiveSource
<1>3. o.sharedSources = links /\ o.graph.sources = proxies
  BY DEF NewOwner, NewGraph
<1> HIDE DEF L, o, nodes, m
<1>4. IsFiniteSet(L) /\ live \in Nat
  BY <1>1, <1>2, FiniteSlots
<1>5. ASSUME NEW s \in L
      PROVE  /\ ProxySlot(s) = Cardinality(Before(s)) /\ ProxySlot(s) \in 1..live
             /\ IsFiniteSet(Before(s))
  <2>1. Before(s) \in SUBSET L /\ s \in Before(s)
    BY <1>1, <1>2
  <2>2. ProxySlot(s) = Cardinality(Before(s))
    BY DEF ProxySlot, L
  <2> HIDE DEF Before
  <2>3. IsFiniteSet(Before(s)) /\ Cardinality(Before(s)) <= live
    BY <1>4, <2>1, FS_Subset
  <2>4. Cardinality(Before(s)) \in Nat /\ Cardinality(Before(s)) # 0
    BY <2>1, <2>3, FS_EmptySet, FS_CardinalityType
  <2> QED BY <1>4, <2>2, <2>3, <2>4
<1>6. ASSUME NEW s \in L, NEW t \in L, ProxySlot(s) = ProxySlot(t), s <= t PROVE s = t
  <2>0. s \in Nat /\ t \in Nat /\ L \in SUBSET Nat
    BY <1>1, <1>2
  <2>1. Before(s) \in SUBSET Before(t) /\ t \in Before(t)
    <3>1. \A u \in Before(s) : u \in L /\ u <= t
      BY <2>0, <1>6
    <3>2. t <= t
      BY <2>0
    <3>3. t \in Before(t)
      BY <3>2
    <3>4. \A u \in Before(s) : u \in Before(t)
      BY <3>1
    <3> HIDE DEF Before
    <3> QED BY <3>3, <3>4
  <2>2. IsFiniteSet(Before(t)) /\ Cardinality(Before(s)) = Cardinality(Before(t))
    BY <1>5, <1>6
  <2> HIDE DEF Before
  <2>3. Before(t) = Before(s)
    BY <2>1, <2>2, FS_Subset
  <2>4. t \in Before(s)
    BY <2>1, <2>3
  <2>5. t <= s
    BY <2>4 DEF Before
  <2> QED BY <2>0, <1>6, <2>5
<1> HIDE DEF live
<1>7. ASSUME NEW s \in L PROVE NodeIsLive(proxies, [slot |-> ProxySlot(s), generation |-> 1])
  <2> DEFINE k == ProxySlot(s)
  <2>1. k \in 1..live
    BY <1>5
  <2> HIDE DEF k
  <2>2. NodeIsLive(proxies, [slot |-> k, generation |-> 1])
    BY <2>1 DEF NodeIsLive
  <2> QED BY <2>2 DEF k
<1> HIDE DEF proxies
<1>8. DOMAIN links = DOMAIN nodes
  OBVIOUS
<1>9. ASSUME NEW s \in DOMAIN nodes
      PROVE  IF nodes[s].live THEN SourceIsLive(o.graph, o.sharedSources[s])
                              ELSE o.sharedSources[s] = NoProxy
  BY <1>2, <1>3, <1>7 DEF SourceIsLive
<1>10. ASSUME NEW s \in DOMAIN nodes, NEW t \in DOMAIN nodes, nodes[s].live, nodes[t].live,
              links[s] = links[t]
       PROVE  s = t
  <2>1. s \in L /\ t \in L /\ ProxySlot(s) = ProxySlot(t)
    BY <1>2, <1>10
  <2>2. s <= t \/ t <= s
    BY <1>1, <1>2
  <2> QED BY <1>6, <2>1, <2>2
<1> HIDE DEF links
<1> QED BY <1>3, <1>8, <1>9, <1>10 DEF Faithful, o, nodes

-----------------------------------------------------------------------------
(***************************************************************************)
(* Every step keeps the identities, and no step brings a stale key back.   *)
(***************************************************************************)
IdentityInv == PartitionInv /\ OwnersDistinct /\ AllFaithful

LEMMA InitIdentities == Init => IdentityInv
<1> SUFFICES ASSUME Init PROVE IdentityInv
  OBVIOUS
<1>1. PartitionInv
  BY InitPartition
<1>2. DOMAIN owners = {}
  BY DEF Init
<1> QED BY <1>1, <1>2 DEF IdentityInv, OwnersDistinct, AllFaithful

\* What a step does to partitions: each gets older, or is that of a new owner.
Ageing ==
  /\ GraphAges(shared, shared')
  /\ \A j \in DOMAIN owners' :
       \/ owners'[j].key.epoch = nextOwnerEpoch
       \/ \E i \in DOMAIN owners : /\ owners[i].key = owners'[j].key
                                   /\ GraphAges(owners[i].graph, owners'[j].graph)

LEMMA QuietKeeps ==
  ASSUME IdentityInv, QuietStep
  PROVE  OwnersDistinct' /\ AllFaithful' /\ Ageing
<1>1. OwnersDistinct'
  BY KeysStay DEF IdentityInv, QuietStep, Quiet
<1>2. AllFaithful'
  <2>1. ASSUME NEW i \in DOMAIN owners PROVE Faithful(owners'[i], shared'.sources)
    BY FaithfulStays DEF IdentityInv, AllFaithful, QuietStep, Quiet
  <2> QED BY <2>1 DEF AllFaithful, QuietStep
<1>3. Ageing
  <2>1. GraphAges(shared, shared')
    BY AgedSame, SharedGraphInv DEF IdentityInv, QuietStep, GraphAges
  <2>2. ASSUME NEW i \in DOMAIN owners
        PROVE  owners[i].key = owners'[i].key /\ GraphAges(owners[i].graph, owners'[i].graph)
    BY AgedSame, OwnerGraphInv DEF IdentityInv, QuietStep, Quiet, GraphAges
  <2> QED BY <2>1, <2>2 DEF Ageing, QuietStep
<1> QED BY <1>1, <1>2, <1>3

LEMMA SlotsFromOne ==
  ASSUME NEW g, GraphInv(g)
  PROVE  \A t \in DOMAIN g.sources : t # 0
BY DEF GraphInv, GraphTypeOK, Graph

LEMMA OwnSourceAges ==
  ASSUME PartitionInv, NEW i \in DOMAIN owners, OwnSourceStep(i),
         Aged(owners[i].graph.sources, owners'[i].graph.sources)
  PROVE  Ageing
<1>1. GraphAges(shared, shared')
  BY AgedSame, SharedGraphInv DEF OwnSourceStep, GraphAges
<1>2. ASSUME NEW j \in DOMAIN owners
      PROVE  owners[j].key = owners'[j].key /\ GraphAges(owners[j].graph, owners'[j].graph)
  <2>1. GraphAges(owners[j].graph, owners[j].graph)
    BY AgedSame, OwnerGraphInv DEF GraphAges
  <2> QED BY <2>1 DEF OwnSourceStep, GraphAges
<1> QED BY <1>1, <1>2 DEF Ageing, OwnSourceStep

LEMMA OwnSourceKeeps ==
  ASSUME IdentityInv, NEW i \in DOMAIN owners, OwnSourceStep(i),
         Faithful(owners'[i], shared.sources)
  PROVE  OwnersDistinct' /\ AllFaithful'
<1>1. OwnersDistinct'
  <2>1. \A j \in DOMAIN owners : owners'[j].key = owners[j].key
    BY DEF OwnSourceStep
  <2> QED BY <2>1, KeysStay DEF IdentityInv, OwnSourceStep
<1>2. \A j \in DOMAIN owners : Faithful(owners'[j], shared.sources)
  BY DEF OwnSourceStep, IdentityInv, AllFaithful
<1> QED BY <1>1, <1>2 DEF AllFaithful, OwnSourceStep

LEMMA RegisterOwnerSourceKeeps ==
  ASSUME IdentityInv, NEW w, RegisterOwnerSource(w)
  PROVE  OwnersDistinct' /\ AllFaithful' /\ Ageing
<1>1. PICK i \in DOMAIN owners :
        /\ OwnSourceStep(i)
        /\ NodeAdded(owners[i].graph.sources, owners'[i].graph.sources,
                     NextId(owners[i].graph.sources))
  BY RegisterOwnerSourceFacts DEF IdentityInv
<1>2. Faithful(owners'[i], shared.sources)
  BY <1>1, FaithfulWithOneMore DEF IdentityInv, AllFaithful, OwnSourceStep
<1>3. Aged(owners[i].graph.sources, owners'[i].graph.sources)
  BY <1>1, Generations, OwnerGraphInv, NodesAge DEF IdentityInv
<1> QED BY <1>1, <1>2, <1>3, OwnSourceKeeps, OwnSourceAges DEF IdentityInv

LEMMA LessOwnerSourceKeeps ==
  ASSUME IdentityInv, NEW source \in SourceKeys,
         RenewOwnerSource(source) \/ RemoveOwnerSource(source)
  PROVE  OwnersDistinct' /\ AllFaithful' /\ Ageing
<1> DEFINE id == source.slot
<1>1. PICK i \in OwnerIndex(source.partition) :
        /\ OwnSourceStep(i)
        /\ SourceIsLive(owners[i].graph, id)
        /\ \/ NodeRemoved(owners[i].graph.sources, owners'[i].graph.sources, id)
           \/ NodeRenewed(owners[i].graph.sources, owners'[i].graph.sources, id)
  <2>1. CASE RenewOwnerSource(source)
    BY <2>1, RenewOwnerSourceFacts DEF IdentityInv
  <2>2. CASE RemoveOwnerSource(source)
    BY <2>2, RemoveOwnerSourceFacts DEF IdentityInv
  <2> QED BY <2>1, <2>2
<1>2. i \in DOMAIN owners /\ owners[i].key = source.partition
  BY DEF OwnerIndex
<1>3. id \in SlotId /\ id \notin Proxies(owners[i])
  BY <1>2, SlotAssumption, GenerationAssumption DEF SourceKeys, Keys, SlotIds, SlotId
<1> HIDE DEF id
<1>4. Faithful(owners'[i], shared.sources)
  <2>1. /\ owners[i] \in Owner /\ Faithful(owners[i], shared.sources)
        /\ owners'[i].sharedSources = owners[i].sharedSources
        /\ \A t \in DOMAIN owners[i].graph.sources : t # 0
    BY <1>1, <1>2, OwnerTypes, OwnerGraphInv, SlotsFromOne
    DEF IdentityInv, AllFaithful, OwnSourceStep
  <2> QED BY <1>1, <1>3, <2>1, FaithfulWithOneLess
<1>5. Aged(owners[i].graph.sources, owners'[i].graph.sources)
  BY <1>1, <1>2, Generations, OwnerGraphInv, NodesAge DEF IdentityInv, SourceIsLive
<1> QED BY <1>1, <1>2, <1>4, <1>5, OwnSourceKeeps, OwnSourceAges DEF IdentityInv

LEMMA RegisterSharedSourceKeeps ==
  ASSUME IdentityInv, RegisterSharedSource
  PROVE  OwnersDistinct' /\ AllFaithful' /\ Ageing
<1> DEFINE id == NextId(shared.sources)
<1>1. /\ NodeAdded(shared.sources, shared'.sources, id)
      /\ shared'.consumers = shared.consumers
      /\ nextOwnerEpoch' = nextOwnerEpoch
      /\ DOMAIN owners' = DOMAIN owners
      /\ \A i \in DOMAIN owners : AddedEverywhere(owners[i], owners'[i], id.slot)
  BY RegisterSharedSourceFacts DEF IdentityInv
<1> HIDE DEF id
<1>2. OwnersDistinct'
  BY <1>1, KeysStay DEF IdentityInv, AddedEverywhere
<1>3. AllFaithful'
  <2>1. ASSUME NEW i \in DOMAIN owners PROVE Faithful(owners'[i], shared'.sources)
    BY <1>1, FaithfulAddedEverywhere DEF IdentityInv, AllFaithful
  <2> QED BY <1>1, <2>1 DEF AllFaithful
<1>4. GraphAges(shared, shared')
  BY <1>1, Generations, SharedGraphInv, NodesAge DEF IdentityInv, GraphAges
<1>5. ASSUME NEW i \in DOMAIN owners
      PROVE  owners[i].key = owners'[i].key /\ GraphAges(owners[i].graph, owners'[i].graph)
  <2>1. /\ owners'[i].key = owners[i].key
        /\ owners'[i].graph.consumers = owners[i].graph.consumers
        /\ \E p : NodeAdded(owners[i].graph.sources, owners'[i].graph.sources, p)
    BY <1>1 DEF AddedEverywhere
  <2> QED BY <2>1, Generations, OwnerGraphInv, NodesAge DEF IdentityInv, GraphAges
<1>6. Ageing
  BY <1>1, <1>4, <1>5 DEF Ageing
<1> QED BY <1>2, <1>3, <1>6

LEMMA RemoveSharedSourceKeeps ==
  ASSUME IdentityInv, NEW source, RemoveSharedSource(source)
  PROVE  OwnersDistinct' /\ AllFaithful' /\ Ageing
<1> DEFINE id == source.slot
<1>1. /\ SourceIsLive(shared, id)
      /\ NodeRemoved(shared.sources, shared'.sources, id)
      /\ shared'.consumers = shared.consumers
      /\ nextOwnerEpoch' = nextOwnerEpoch
      /\ DOMAIN owners' = DOMAIN owners
      /\ \A i \in DOMAIN owners : RemovedEverywhere(owners[i], owners'[i], id.slot)
  BY RemoveSharedSourceFacts DEF IdentityInv
<1> HIDE DEF id
<1>2. OwnersDistinct'
  BY <1>1, KeysStay DEF IdentityInv, RemovedEverywhere
<1>3. AllFaithful'
  <2>1. ASSUME NEW i \in DOMAIN owners PROVE Faithful(owners'[i], shared'.sources)
    BY <1>1, OwnerTypes, FaithfulRemovedEverywhere DEF IdentityInv, AllFaithful, SourceIsLive
  <2> QED BY <1>1, <2>1 DEF AllFaithful
<1>4. GraphAges(shared, shared')
  BY <1>1, Generations, SharedGraphInv, NodesAge DEF IdentityInv, GraphAges
<1>5. ASSUME NEW i \in DOMAIN owners
      PROVE  owners[i].key = owners'[i].key /\ GraphAges(owners[i].graph, owners'[i].graph)
  <2>1. /\ owners'[i].key = owners[i].key
        /\ owners'[i].graph.consumers = owners[i].graph.consumers
        /\ \E p : NodeRemoved(owners[i].graph.sources, owners'[i].graph.sources, p)
    BY <1>1 DEF RemovedEverywhere
  <2> QED BY <2>1, Generations, OwnerGraphInv, NodesAge DEF IdentityInv, GraphAges
<1>6. Ageing
  BY <1>1, <1>4, <1>5 DEF Ageing
<1> QED BY <1>2, <1>3, <1>6

LEMMA AddOwnerKeeps ==
  ASSUME IdentityInv, NEW w \in Worlds, AddOwner(w)
  PROVE  OwnersDistinct' /\ AllFaithful' /\ Ageing
<1> DEFINE o == NewOwner(OwnerKeyOf(w, nextOwnerEpoch))
           n == Len(owners)
<1>1. /\ DOMAIN owners' = 1..(n + 1) /\ owners'[n + 1] = o
      /\ o.key = OwnerKeyOf(w, nextOwnerEpoch)
      /\ \A i \in 1..n : owners'[i] = owners[i]
      /\ shared' = shared
  BY AddOwnerFacts DEF IdentityInv
<1>2. n \in Nat /\ DOMAIN owners = 1..n
  BY OwnerTypes DEF IdentityInv
<1>3. OwnersDistinct'
  BY AddOwnerKeys DEF IdentityInv
<1>4. Faithful(o, shared.sources)
  BY NewOwnerFaithful, SharedGraphInv DEF IdentityInv
<1> HIDE DEF o, n
<1>5. \A j \in 1..(n + 1) : j \in 1..n \/ j = n + 1
  BY <1>2
<1>6. AllFaithful'
  <2>1. ASSUME NEW j \in 1..(n + 1) PROVE Faithful(owners'[j], shared.sources)
    BY <1>1, <1>2, <1>4, <1>5 DEF IdentityInv, AllFaithful
  <2> QED BY <1>1, <2>1 DEF AllFaithful
<1>7. Ageing
  <2>1. GraphAges(shared, shared')
    BY <1>1, AgedSame, SharedGraphInv DEF IdentityInv, GraphAges
  <2>2. owners'[n + 1].key.epoch = nextOwnerEpoch
    BY <1>1 DEF OwnerKeyOf
  <2>3. \A i \in 1..n : GraphAges(owners[i].graph, owners'[i].graph)
    BY <1>1, <1>2, AgedSame, OwnerGraphInv DEF IdentityInv, GraphAges
  <2> QED BY <1>1, <1>2, <1>5, <2>1, <2>2, <2>3 DEF Ageing
<1> QED BY <1>3, <1>6, <1>7

LEMMA RemoveOwnerKeeps ==
  ASSUME IdentityInv, NEW w, RemoveOwner(w)
  PROVE  OwnersDistinct' /\ AllFaithful' /\ Ageing
<1>1. /\ shared' = shared
      /\ \A j \in DOMAIN owners' : \E k \in DOMAIN owners : owners'[j] = owners[k]
  <2>1. PICK i \in OwnerOfWorld(w) : \E from \in [DOMAIN owners' -> DOMAIN owners \ {i}] :
           /\ \A j \in DOMAIN owners' : owners'[j] = owners[from[j]]
           /\ shared' = shared
    BY RemoveOwnerFacts DEF IdentityInv
  <2> QED BY <2>1
<1>2. OwnersDistinct'
  BY RemoveOwnerKeys DEF IdentityInv
<1>3. AllFaithful'
  BY <1>1 DEF IdentityInv, AllFaithful
<1>4. Ageing
  <2>1. GraphAges(shared, shared')
    BY <1>1, AgedSame, SharedGraphInv DEF IdentityInv, GraphAges
  <2>2. \A k \in DOMAIN owners : GraphAges(owners[k].graph, owners[k].graph)
    BY AgedSame, OwnerGraphInv DEF IdentityInv, GraphAges
  <2> QED BY <1>1, <2>1, <2>2 DEF Ageing
<1> QED BY <1>2, <1>3, <1>4

LEMMA NextIdentities ==
  ASSUME IdentityInv, Next
  PROVE  IdentityInv' /\ Ageing
<1>1. PartitionInv'
  BY NextPartition DEF IdentityInv
<1>2. OwnersDistinct' /\ AllFaithful' /\ Ageing
  <2>1. CASE Structure
    <3>1. CASE \E w \in Worlds : AddOwner(w)
      BY <3>1, AddOwnerKeeps
    <3>2. CASE \E w \in Worlds : RemoveOwner(w)
      BY <3>2, RemoveOwnerKeeps
    <3>3. CASE \/ ReserveForSharedSource
               \/ ReserveForOwner
               \/ \E w \in Worlds : ReserveForOwnerSource(w)
               \/ \E key \in PartitionKeys :
                    \/ ReserveForConsumer(key)
                    \/ \E headroom \in Headrooms : ReserveOwnerConsumers(key, headroom)
      BY <3>3, GrowthQuiet, QuietKeeps DEF IdentityInv
    <3> QED BY <2>1, <3>1, <3>2, <3>3 DEF Structure
  <2>2. CASE SourceStep
    <3>1. CASE RegisterSharedSource
      BY <3>1, RegisterSharedSourceKeeps
    <3>2. CASE \E w \in Worlds : RegisterOwnerSource(w)
      BY <3>2, RegisterOwnerSourceKeeps
    <3>3. CASE \E source \in SourceKeys : RenewOwnerSource(source) \/ RemoveOwnerSource(source)
      BY <3>3, LessOwnerSourceKeeps
    <3>4. CASE \E source \in SourceKeys : RemoveSharedSource(source)
      BY <3>4, RemoveSharedSourceKeeps
    <3>5. CASE \E source \in SourceKeys : \E kind \in {"Any", "Computed"} :
                 PublishShared(source, kind)
      BY <3>5, PublishSharedQuiet, QuietKeeps DEF IdentityInv
    <3>6. CASE \E source \in SourceKeys : \E kind \in {"Any", "Computed"} :
                 PublishOwner(source, kind)
      BY <3>6, PublishOwnerQuiet, QuietKeeps DEF IdentityInv
    <3> QED BY <2>2, <3>1, <3>2, <3>3, <3>4, <3>5, <3>6 DEF SourceStep
  <2>3. CASE ConsumerStep
    BY <2>3, ConsumersQuiet, QuietKeeps DEF IdentityInv
  <2> QED BY <2>1, <2>2, <2>3 DEF Next
<1> QED BY <1>1, <1>2 DEF IdentityInv

LEMMA IdentitiesHold == Spec => []IdentityInv
<1>1. Init => IdentityInv
  BY InitIdentities
<1>2. IdentityInv /\ [Next]_vars => IdentityInv'
  <2> SUFFICES ASSUME IdentityInv, [Next]_vars PROVE IdentityInv'
    OBVIOUS
  <2>1. CASE Next
    BY <2>1, NextIdentities
  <2>2. CASE UNCHANGED vars
    <3>1. PartitionInv'
      BY <2>2, NextPartition DEF IdentityInv
    <3> QED BY <2>2, <3>1 DEF vars, IdentityInv, OwnersDistinct, AllFaithful
  <2> QED BY <2>1, <2>2
<1> QED BY <1>1, <1>2, PTL DEF Spec

\* add_owner gives every World one owner under an epoch that never returns, and
\* remove_owner keeps the others as they are, wherever it moves them.
THEOREM OwnerKeysUnique == Spec => []OwnersDistinct
<1>1. IdentityInv => OwnersDistinct
  BY DEF IdentityInv
<1> QED BY <1>1, IdentitiesHold, PTL

\* Registration, removal and the creation of an owner keep one live proxy for
\* each live shared source in every owner, and no method of an owner's own
\* sources touches one (register_shared_source, remove_source, try_add_owner).
THEOREM ProxiesMirror == Spec => []ProxiesFaithful
<1>1. IdentityInv => ProxiesFaithful
  BY FaithfulProxies DEF IdentityInv
<1> QED BY <1>1, IdentitiesHold, PTL

-----------------------------------------------------------------------------
(***************************************************************************)
(* A slot never goes back to a generation it has left, and an owner key    *)
(* never comes back, so what a stale key named stays lost.                 *)
(***************************************************************************)
LEMMA AgedKeepsStale ==
  ASSUME NEW old, NEW new, NEW id, Aged(old, new), id.generation >= 1,
         id.generation \in Nat, id.generation <= Reached(old, id.slot),
         \A s \in DOMAIN old : old[s].generation \in Nat,
         NodeIsLive(new, id)
  PROVE  NodeIsLive(old, id)
<1>1. id.slot \in DOMAIN old
  BY DEF Reached
<1>2. /\ id.generation <= old[id.slot].generation
      /\ old[id.slot].generation <= new[id.slot].generation
      /\ new[id.slot].live /\ new[id.slot].generation = id.generation
  BY <1>1 DEF Reached, Aged, NodeIsLive
<1>3. old[id.slot].generation \in Nat
  BY <1>1
<1>4. old[id.slot].generation = id.generation
  BY <1>2, <1>3
<1>5. old[id.slot].live
  BY <1>1, <1>2, <1>4 DEF Aged
<1> QED BY <1>1, <1>4, <1>5 DEF NodeIsLive

LEMMA GraphKeepsStale ==
  ASSUME NEW g, NEW h, GraphInv(g), GraphAges(g, h), NEW id \in SlotIds
  PROVE  /\ id.generation <= Reached(g.sources, id.slot) /\ SourceIsLive(h, id)
              => SourceIsLive(g, id)
         /\ id.generation <= Reached(g.consumers, id.slot) /\ ConsumerIsLive(h, id)
              => ConsumerIsLive(g, id)
<1>1. id.generation \in Nat /\ id.generation >= 1
  BY GenerationAssumption DEF SlotIds
<1> QED BY <1>1, Generations, AgedKeepsStale
        DEF GraphAges, SourceIsLive, ConsumerIsLive

\* The partition that makes a handed-out key usable was there before the step,
\* under the same key.
LEMMA PartitionsAge ==
  ASSUME IdentityInv, Ageing, NEW key \in PartitionKeys, NEW h \in GraphOf(key)'
  PROVE  \E g \in GraphOf(key) : GraphInv(g) /\ GraphAges(g, h)
<1>1. CASE key = Shared
  <2>1. GraphOf(key) = {shared} /\ h = shared'
    BY <1>1 DEF GraphOf
  <2> QED BY <2>1, SharedGraphInv DEF Ageing, IdentityInv
<1>2. CASE key # Shared
  <2>1. PICK j \in DOMAIN owners' : owners'[j].key = key /\ h = owners'[j].graph
    BY <1>2 DEF GraphOf, OwnerIndex
  <2>2. key.epoch \in 1..nextOwnerEpoch - 1
    BY <1>2 DEF PartitionKeys, OwnerKeyOf
  <2>3. nextOwnerEpoch \in Nat
    BY DEF IdentityInv, PartitionInv
  <2>4. PICK i \in DOMAIN owners : owners[i].key = key /\ GraphAges(owners[i].graph, h)
    BY <2>1, <2>2, <2>3 DEF Ageing
  <2>5. owners[i].graph \in GraphOf(key)
    BY <1>2, <2>4 DEF GraphOf, OwnerIndex
  <2> QED BY <2>4, <2>5, OwnerGraphInv DEF IdentityInv
<1> QED BY <1>1, <1>2

\* What remove_source, renew_owner_source, remove_consumer or remove_owner made
\* stale is never found live again by validate_source or validate_consumer,
\* whatever is added, reused or renewed later.
THEOREM StaleForEver == Spec => StaleKeysStayStale
<1> DEFINE Step ==
      \A k \in Keys :
        /\ IssuedSource(k) /\ ~UsableSource(k) => ~UsableSource(k)'
        /\ IssuedConsumer(k) /\ ~UsableConsumer(k) => ~UsableConsumer(k)'
<1>1. IdentityInv /\ [Next]_vars => [Step]_vars
  <2> SUFFICES ASSUME IdentityInv, Next, NEW k \in Keys
               PROVE  /\ IssuedSource(k) /\ UsableSource(k)' => UsableSource(k)
                      /\ IssuedConsumer(k) /\ UsableConsumer(k)' => UsableConsumer(k)
    OBVIOUS
  <2>1. Ageing
    BY NextIdentities
  <2>2. k.partition \in PartitionKeys /\ k.slot \in SlotIds
    BY DEF Keys
  <2>3. ASSUME NEW h \in GraphOf(k.partition)', IssuedSource(k), SourceIsLive(h, k.slot)
        PROVE  UsableSource(k)
    <3>1. PICK g \in GraphOf(k.partition) : GraphInv(g) /\ GraphAges(g, h)
      BY <2>1, <2>2, PartitionsAge
    <3>2. SourceIsLive(g, k.slot)
      BY <2>2, <2>3, <3>1, GraphKeepsStale DEF IssuedSource
    <3> QED BY <3>1, <3>2 DEF UsableSource
  <2>4. ASSUME NEW h \in GraphOf(k.partition)', IssuedConsumer(k), ConsumerIsLive(h, k.slot)
        PROVE  UsableConsumer(k)
    <3>1. PICK g \in GraphOf(k.partition) : GraphInv(g) /\ GraphAges(g, h)
      BY <2>1, <2>2, PartitionsAge
    <3>2. ConsumerIsLive(g, k.slot)
      BY <2>2, <2>4, <3>1, GraphKeepsStale DEF IssuedConsumer
    <3> QED BY <3>1, <3>2 DEF UsableConsumer
  <2>5. IssuedSource(k) /\ UsableSource(k)' => UsableSource(k)
    BY <2>3 DEF UsableSource, SourceIsLive
  <2>6. IssuedConsumer(k) /\ UsableConsumer(k)' => UsableConsumer(k)
    BY <2>4 DEF UsableConsumer, ConsumerIsLive
  <2> QED BY <2>5, <2>6
<1> QED BY <1>1, IdentitiesHold, PTL DEF Spec, StaleKeysStayStale

(***************************************************************************)
(* No slot is beyond SlotLimit, so every key that is ever live is one of   *)
(* the identities of Dependencies.                                         *)
(***************************************************************************)
LimitsInv ==
  /\ CanAllocate(capacity.sharedSources, capacity.sharedConsumers)
  /\ DOMAIN owners # {} => CanAllocate(capacity.ownerSources, capacity.ownerConsumers)

LEMMA LimitsGrow ==
  ASSUME PartitionInv, LimitsInv, NEW requested, Reserve(requested)
  PROVE  LimitsInv'
<1> DEFINE next ==
      [sharedSources |-> Larger(capacity.sharedSources, requested.sharedSources),
       sharedConsumers |-> Larger(capacity.sharedConsumers, requested.sharedConsumers),
       ownerSources |-> Larger(capacity.ownerSources, requested.ownerSources),
       ownerConsumers |-> Larger(capacity.ownerConsumers, requested.ownerConsumers),
       owners |-> Larger(capacity.owners, requested.owners)]
<1>1. /\ capacity' = next
      /\ (next.sharedSources # capacity.sharedSources
          \/ next.sharedConsumers # capacity.sharedConsumers)
           => CanAllocate(next.sharedSources, next.sharedConsumers)
      /\ (next.ownerSources # capacity.ownerSources
          \/ next.ownerConsumers # capacity.ownerConsumers) /\ owners # << >>
           => CanAllocate(next.ownerSources, next.ownerConsumers)
      /\ DOMAIN owners' = DOMAIN owners
  BY DEF Reserve, MapOwners
<1> HIDE DEF next
<1>2. DOMAIN owners # {} => owners # << >>
  OBVIOUS
<1> QED BY <1>1, <1>2 DEF LimitsInv

LEMMA LimitsKept ==
  ASSUME PartitionInv, LimitsInv, [Next]_vars
  PROVE  LimitsInv'
<1>1. ASSUME capacity' = capacity, DOMAIN owners # {} \/ DOMAIN owners' = {}
      PROVE  LimitsInv'
  BY <1>1 DEF LimitsInv
<1>2. CASE UNCHANGED vars
  BY <1>1, <1>2 DEF vars
<1>3. CASE Structure
  <2>1. CASE ReserveForSharedSource \/ ReserveForOwner
    BY <2>1, LimitsGrow DEF ReserveForSharedSource, ReserveForOwner
  <2>2. ASSUME NEW w \in Worlds, ReserveForOwnerSource(w) PROVE LimitsInv'
    BY <2>2, LimitsGrow DEF ReserveForOwnerSource
  <2>3. ASSUME NEW w \in Worlds, AddOwner(w) PROVE LimitsInv'
    BY <2>3 DEF AddOwner, LimitsInv
  <2>4. ASSUME NEW w \in Worlds, RemoveOwner(w) PROVE LimitsInv'
    <3>1. DOMAIN owners # {} /\ capacity' = capacity
      BY <2>4 DEF RemoveOwner, OwnerOfWorld
    <3> QED BY <1>1, <3>1
  <2>5. ASSUME NEW key \in PartitionKeys, ReserveForConsumer(key) PROVE LimitsInv'
    BY <2>5, LimitsGrow DEF ReserveForConsumer
  <2>6. ASSUME NEW key \in PartitionKeys, NEW headroom \in Headrooms,
               ReserveOwnerConsumers(key, headroom)
        PROVE  LimitsInv'
    <3>1. \E requested : Reserve(requested)
      BY <2>6 DEF ReserveOwnerConsumers
    <3> QED BY <3>1, LimitsGrow
  <2> QED BY <1>3, <2>1, <2>2, <2>3, <2>4, <2>5, <2>6 DEF Structure
<1>4. CASE SourceStep
  <2>1. CASE RegisterSharedSource
    BY <1>1, <2>1 DEF RegisterSharedSource, MapOwners
  <2>2. CASE \E w \in Worlds : RegisterOwnerSource(w)
    BY <1>1, <2>2 DEF RegisterOwnerSource, SetGraph
  <2>3. CASE \E source \in SourceKeys :
               RenewOwnerSource(source) \/ RemoveSharedSource(source) \/ RemoveOwnerSource(source)
    BY <1>1, <2>3
    DEF RenewOwnerSource, RemoveSharedSource, RemoveOwnerSource, SetGraph, MapOwners
  <2>4. CASE \E source \in SourceKeys : \E kind \in {"Any", "Computed"} :
               PublishShared(source, kind) \/ PublishOwner(source, kind)
    BY <1>1, <2>4 DEF PublishShared, PublishOwner, SetGraph, MapOwners
  <2> QED BY <1>4, <2>1, <2>2, <2>3, <2>4 DEF SourceStep
<1>5. CASE ConsumerStep
  <2>1. capacity' = capacity /\ DOMAIN owners' = DOMAIN owners
    BY <1>5
    DEF ConsumerStep, RegisterConsumer, ClearConsumerEdges, RemoveConsumerNode, SubscribeShared,
        SubscribeInOwner, TakePendingAnyKind, OnPartition, SetGraph
  <2> QED BY <1>1, <2>1
<1> QED BY <1>2, <1>3, <1>4, <1>5 DEF Next

ViewInv == IdentityInv /\ LimitsInv

LEMMA ViewsHold == Spec => []ViewInv
<1>1. Init => LimitsInv
  BY SlotAssumption DEF Init, LimitsInv, NoCapacity, CanAllocate
<1>2. IdentityInv /\ LimitsInv /\ [Next]_vars => LimitsInv'
  BY LimitsKept DEF IdentityInv
<1> QED BY <1>1, <1>2, IdentitiesHold, PTL DEF Spec, ViewInv

-----------------------------------------------------------------------------
(***************************************************************************)
(* Slots and keys.                                                         *)
(***************************************************************************)
\* Every key an owner may ever have.
OwnerKeys == {OwnerKeyOf(w, e) : w \in Worlds, e \in 1..MaxEpoch}

OwnSource(o, id) == SourceIsLive(o.graph, id) /\ id \notin Proxies(o)

LEMMA GraphSlots ==
  ASSUME NEW g, GraphInv(g), CanAllocate(g.sourceLimit, g.consumerLimit)
  PROVE  /\ \A s \in DOMAIN g.sources :
              [slot |-> s, generation |-> g.sources[s].generation] \in SlotIds
         /\ \A c \in DOMAIN g.consumers :
              [slot |-> c, generation |-> g.consumers[c].generation] \in SlotIds
<1>1. /\ g.sources \in Seq(SourceNode) /\ g.consumers \in Seq(ConsumerNode)
      /\ Len(g.sources) <= g.sourceLimit /\ Len(g.consumers) <= g.consumerLimit
      /\ g.sourceLimit \in Nat /\ g.consumerLimit \in Nat
      /\ g.sourceLimit <= SlotLimit /\ g.consumerLimit <= SlotLimit
  BY DEF GraphInv, GraphTypeOK, Graph, CanAllocate
<1>2. ASSUME NEW s \in DOMAIN g.sources
      PROVE  s \in 1..SlotLimit /\ g.sources[s].generation \in 1..MaxGeneration
  <2>1. g.sources[s] \in SourceNode
    BY <1>1
  <2>2. s \in 1..Len(g.sources) /\ Len(g.sources) \in Nat
    BY <1>1
  <2> QED BY <1>1, <2>1, <2>2, SlotAssumption DEF SourceNode
<1>3. ASSUME NEW c \in DOMAIN g.consumers
      PROVE  c \in 1..SlotLimit /\ g.consumers[c].generation \in 1..MaxGeneration
  <2>1. g.consumers[c] \in ConsumerNode
    BY <1>1
  <2>2. c \in 1..Len(g.consumers) /\ Len(g.consumers) \in Nat
    BY <1>1
  <2> QED BY <1>1, <2>1, <2>2, SlotAssumption DEF ConsumerNode
<1> QED BY <1>2, <1>3 DEF SlotIds

LEMMA Partitions ==
  ASSUME ViewInv
  PROVE  /\ GraphOf(Shared) = {shared} /\ OwnerIndex(Shared) = {}
         /\ \A i \in DOMAIN owners :
              /\ owners[i].key # Shared
              /\ owners[i].key \in OwnerKeys
              /\ OwnerIndex(owners[i].key) = {i}
              /\ GraphOf(owners[i].key) = {owners[i].graph}
<1>1. ASSUME NEW i \in DOMAIN owners
      PROVE  /\ owners[i].key # Shared
             /\ owners[i].key \in OwnerKeys
             /\ OwnerIndex(owners[i].key) = {i}
  <2>1. owners[i].key \in [world : Worlds, epoch : Nat]
    BY OwnerTypes DEF ViewInv, IdentityInv, Owner
  <2>2. owners[i].key.world \in Worlds /\ owners[i].key.epoch \in 1..nextOwnerEpoch - 1
    BY DEF ViewInv, IdentityInv, OwnersDistinct
  <2>3. nextOwnerEpoch \in 1..MaxEpoch
    BY DEF ViewInv, IdentityInv, PartitionInv
  <2>4. owners[i].key = OwnerKeyOf(owners[i].key.world, owners[i].key.epoch)
    BY <2>1 DEF OwnerKeyOf
  <2>5. owners[i].key.epoch \in 1..MaxEpoch
    BY <2>2, <2>3, OwnerAssumption
  <2>6. owners[i].key # Shared
    BY <2>2, SharedIsNoWorld DEF Shared
  <2>7. \A j \in DOMAIN owners : owners[j].key = owners[i].key => j = i
    BY DEF ViewInv, IdentityInv, OwnersDistinct
  <2> QED BY <2>2, <2>4, <2>5, <2>6, <2>7 DEF OwnerIndex, OwnerKeys
<1>2. OwnerIndex(Shared) = {}
  BY <1>1 DEF OwnerIndex
<1>3. GraphOf(Shared) = {shared}
  BY DEF GraphOf
<1>4. ASSUME NEW i \in DOMAIN owners PROVE GraphOf(owners[i].key) = {owners[i].graph}
  BY <1>1 DEF GraphOf
<1>5. ASSUME NEW i \in DOMAIN owners
      PROVE  /\ owners[i].key # Shared
             /\ owners[i].key \in OwnerKeys
             /\ OwnerIndex(owners[i].key) = {i}
             /\ GraphOf(owners[i].key) = {owners[i].graph}
  BY <1>1, <1>4
<1> QED BY <1>2, <1>3, <1>5

LEMMA PartitionGraphs ==
  ASSUME ViewInv, NEW p, NEW g \in GraphOf(p)
  PROVE  /\ GraphInv(g) /\ CanAllocate(g.sourceLimit, g.consumerLimit)
         /\ p \in {Shared} \cup OwnerKeys
         /\ GraphOf(p) = {g}
<1>1. CASE p = Shared
  BY <1>1, Partitions, SharedGraphInv DEF ViewInv, IdentityInv, LimitsInv, PartitionInv
<1>2. CASE p # Shared
  <2>1. PICK i \in DOMAIN owners : owners[i].key = p /\ g = owners[i].graph
    BY <1>2 DEF GraphOf, OwnerIndex
  <2>2. /\ GraphInv(g) /\ g.sourceLimit = capacity.ownerSources
        /\ g.consumerLimit = capacity.ownerConsumers
    BY <2>1 DEF ViewInv, IdentityInv, PartitionInv
  <2>3. CanAllocate(g.sourceLimit, g.consumerLimit)
    BY <2>1, <2>2 DEF ViewInv, LimitsInv
  <2> QED BY <2>1, <2>2, <2>3, Partitions
<1> QED BY <1>1, <1>2

-----------------------------------------------------------------------------
(***************************************************************************)
(* The four variables of Dependencies, element by element.  Local(k, p, n) *)
(* says that partition p knows the source k by its slot n.                 *)
(***************************************************************************)
Local(k, p, n) ==
  \/ k.partition = Shared /\ p = Shared /\ SourceIsLive(shared, k.slot) /\ n = k.slot.slot
  \/ \E i \in OwnerIndex(p) :
       \/ /\ k.partition = Shared /\ SourceIsLive(shared, k.slot)
          /\ n = owners[i].sharedSources[k.slot.slot].slot
       \/ k.partition = p /\ OwnSource(owners[i], k.slot) /\ n = k.slot.slot

IsSource(k) == \E n : Local(k, k.partition, n)

HasTarget(k, t) ==
  \E g \in GraphOf(k.partition) :
    ConsumerIsLive(g, k.slot) /\ g.consumers[k.slot.slot].target = t

DependsOn(k, c) ==
  \E g \in GraphOf(c.partition) :
    ConsumerIsLive(g, c.slot) /\ \E n : Local(k, c.partition, n) /\ <<n, c.slot.slot>> \in g.rows

IsDue(k) == \E g \in GraphOf(k.partition) : k.slot \in Entries(g)

LEMMA SlotIdRecord ==
  ASSUME NEW id \in SlotIds
  PROVE  id = [slot |-> id.slot, generation |-> id.generation]
BY DEF SlotIds

LEMMA IdRecord ==
  ASSUME NEW k \in Ids
  PROVE  /\ k = [partition |-> k.partition, slot |-> k.slot]
         /\ k.slot \in SlotIds
         /\ k.slot = [slot |-> k.slot.slot, generation |-> k.slot.generation]
BY SlotIdRecord DEF Ids

\* The keys of the live nodes of a partition.
LEMMA LiveKeysView ==
  ASSUME NEW p, NEW nodes, NEW hidden,
         \A s \in DOMAIN nodes : [slot |-> s, generation |-> nodes[s].generation] \in SlotIds,
         p \in {Shared} \cup OwnerKeys
  PROVE  LiveKeys(p, nodes, hidden) =
           {k \in Ids : k.partition = p /\ NodeIsLive(nodes, k.slot) /\ k.slot \notin hidden}
<1>1. ASSUME NEW k \in LiveKeys(p, nodes, hidden)
      PROVE  k \in Ids /\ k.partition = p /\ NodeIsLive(nodes, k.slot) /\ k.slot \notin hidden
  <2>1. PICK s \in DOMAIN nodes : nodes[s].live /\ k = Key(p, s, nodes)
    BY DEF LiveKeys
  <2>2. k.slot \notin hidden
    BY DEF LiveKeys
  <2>3. /\ k = [partition |-> p, slot |-> [slot |-> s, generation |-> nodes[s].generation]]
        /\ k.slot \in SlotIds
    BY <2>1 DEF Key
  <2> QED BY <2>1, <2>2, <2>3 DEF Ids, OwnerKeys, NodeIsLive
<1>2. ASSUME NEW k \in Ids, k.partition = p, NodeIsLive(nodes, k.slot), k.slot \notin hidden
      PROVE  k \in LiveKeys(p, nodes, hidden)
  <2>1. /\ k = [partition |-> p, slot |-> [slot |-> k.slot.slot, generation |-> k.slot.generation]]
        /\ k.slot.slot \in DOMAIN nodes /\ nodes[k.slot.slot].live
        /\ nodes[k.slot.slot].generation = k.slot.generation
    BY <1>2, IdRecord DEF NodeIsLive
  <2>2. k = Key(p, k.slot.slot, nodes)
    BY <2>1 DEF Key
  <2> QED BY <1>2, <2>1, <2>2 DEF LiveKeys
<1> QED BY <1>1, <1>2

LEMMA SourcesView ==
  ASSUME ViewInv
  PROVE  depSources = {k \in Ids : IsSource(k)}
<1>1. LiveKeys(Shared, shared.sources, {}) =
        {k \in Ids : k.partition = Shared /\ SourceIsLive(shared, k.slot)}
  BY Partitions, PartitionGraphs, GraphSlots, LiveKeysView DEF SourceIsLive
<1>2. ASSUME NEW i \in DOMAIN owners
      PROVE  LiveKeys(owners[i].key, owners[i].graph.sources, Proxies(owners[i])) =
               {k \in Ids : k.partition = owners[i].key /\ OwnSource(owners[i], k.slot)}
  <2>1. owners[i].graph \in GraphOf(owners[i].key)
    BY Partitions
  <2>2. \A s \in DOMAIN owners[i].graph.sources :
          [slot |-> s, generation |-> owners[i].graph.sources[s].generation] \in SlotIds
    BY <2>1, PartitionGraphs, GraphSlots
  <2>3. owners[i].key \in {Shared} \cup OwnerKeys
    BY <2>1, PartitionGraphs
  <2> QED BY <2>2, <2>3, LiveKeysView DEF OwnSource, SourceIsLive
<1>3. ASSUME NEW k \in Ids
      PROVE  IsSource(k) <=> \/ k.partition = Shared /\ SourceIsLive(shared, k.slot)
                             \/ \E i \in DOMAIN owners :
                                  k.partition = owners[i].key /\ OwnSource(owners[i], k.slot)
  BY Partitions DEF IsSource, Local, OwnerIndex
<1> QED BY <1>1, <1>2, <1>3 DEF depSources

LEMMA DueView ==
  ASSUME ViewInv
  PROVE  depPending = {k \in Ids : IsDue(k)}
<1> DEFINE Queued(p, g) == {[partition |-> p, slot |-> g.pending[i]] : i \in DOMAIN g.pending}
<1>1. ASSUME NEW p, NEW g \in GraphOf(p)
      PROVE  Queued(p, g) = {k \in Ids : k.partition = p /\ k.slot \in Entries(g)}
  <2>1. ASSUME NEW i \in DOMAIN g.pending
        PROVE  [partition |-> p, slot |-> g.pending[i]] \in Ids
    <3>1. GraphInv(g) /\ CanAllocate(g.sourceLimit, g.consumerLimit)
      BY <1>1, PartitionGraphs
    <3>2. ConsumerIsLive(g, g.pending[i]) /\ g.pending[i] \in SlotId
      BY <3>1 DEF GraphInv, QueueExact, QueueEntriesFlagged, GraphTypeOK, Graph
    <3>3. g.pending[i] = [slot |-> g.pending[i].slot, generation |-> g.pending[i].generation]
      BY <3>2 DEF SlotId
    <3>4. g.pending[i] \in SlotIds
      BY <3>1, <3>2, <3>3, GraphSlots DEF ConsumerIsLive, NodeIsLive
    <3> QED BY <1>1, <3>4, PartitionGraphs DEF Ids, OwnerKeys
  <2>2. ASSUME NEW k \in Ids, k.partition = p, k.slot \in Entries(g) PROVE k \in Queued(p, g)
    BY <2>2, IdRecord DEF Entries
  <2> QED BY <2>1, <2>2 DEF Entries
<1> HIDE DEF Queued
<1>2. depPending = Queued(Shared, shared) \cup
                   UNION {Queued(owners[i].key, owners[i].graph) : i \in DOMAIN owners}
  BY DEF depPending, Queued
<1>3. Queued(Shared, shared) = {k \in Ids : k.partition = Shared /\ k.slot \in Entries(shared)}
  BY <1>1, Partitions
<1>4. ASSUME NEW i \in DOMAIN owners
      PROVE  Queued(owners[i].key, owners[i].graph) =
               {k \in Ids : k.partition = owners[i].key /\ k.slot \in Entries(owners[i].graph)}
  BY <1>1, Partitions
<1>5. ASSUME NEW k \in Ids
      PROVE  IsDue(k) <=> \/ k.partition = Shared /\ k.slot \in Entries(shared)
                          \/ \E i \in DOMAIN owners : /\ k.partition = owners[i].key
                                                      /\ k.slot \in Entries(owners[i].graph)
  BY Partitions DEF IsDue, GraphOf, OwnerIndex
<1> QED BY <1>2, <1>3, <1>4, <1>5

LEMMA ConsumersView ==
  ASSUME ViewInv
  PROVE  /\ depConsumers = [k \in {j \in Ids : UsableConsumer(j)} |-> depConsumers[k]]
         /\ \A k \in Ids : \A t : HasTarget(k, t) => UsableConsumer(k) /\ depConsumers[k] = t
<1> DEFINE keys == LiveKeys(Shared, shared.consumers, {}) \cup
                   UNION {LiveKeys(owners[i].key, owners[i].graph.consumers, {}) :
                            i \in DOMAIN owners}
           Target(k) == (CHOOSE g \in GraphOf(k.partition) : TRUE).consumers[k.slot.slot].target
<1>1. ASSUME NEW p, NEW g \in GraphOf(p)
      PROVE  LiveKeys(p, g.consumers, {}) =
               {k \in Ids : k.partition = p /\ ConsumerIsLive(g, k.slot)}
  <2>1. \A s \in DOMAIN g.consumers :
          [slot |-> s, generation |-> g.consumers[s].generation] \in SlotIds
    BY <1>1, PartitionGraphs, GraphSlots
  <2>2. p \in {Shared} \cup OwnerKeys
    BY <1>1, PartitionGraphs
  <2> QED BY <2>1, <2>2, LiveKeysView DEF ConsumerIsLive
<1>2. LiveKeys(Shared, shared.consumers, {}) =
        {k \in Ids : k.partition = Shared /\ ConsumerIsLive(shared, k.slot)}
  BY <1>1, Partitions
<1>3. ASSUME NEW i \in DOMAIN owners
      PROVE  LiveKeys(owners[i].key, owners[i].graph.consumers, {}) =
               {k \in Ids : k.partition = owners[i].key /\ ConsumerIsLive(owners[i].graph, k.slot)}
  BY <1>1, Partitions
<1>4. ASSUME NEW k \in Ids
      PROVE  UsableConsumer(k) <=>
               \/ k.partition = Shared /\ ConsumerIsLive(shared, k.slot)
               \/ \E i \in DOMAIN owners : /\ k.partition = owners[i].key
                                           /\ ConsumerIsLive(owners[i].graph, k.slot)
  BY Partitions DEF UsableConsumer, GraphOf, OwnerIndex
<1>5. keys = {j \in Ids : UsableConsumer(j)}
  BY <1>2, <1>3, <1>4
<1>6. depConsumers = [k \in keys |-> Target(k)]
  BY DEF depConsumers
<1>7. ASSUME NEW k \in Ids, NEW t, HasTarget(k, t) PROVE UsableConsumer(k) /\ Target(k) = t
  <2>1. PICK g \in GraphOf(k.partition) :
          ConsumerIsLive(g, k.slot) /\ g.consumers[k.slot.slot].target = t
    BY <1>7 DEF HasTarget
  <2>2. GraphOf(k.partition) = {g}
    BY PartitionGraphs
  <2>3. (CHOOSE h \in GraphOf(k.partition) : TRUE) = g
    BY <2>2
  <2> QED BY <2>1, <2>3 DEF UsableConsumer
<1> HIDE DEF keys, Target
<1> QED BY <1>5, <1>6, <1>7

\* What a partition of an owner knows as slot n, and nothing else.
LEMMA LocalOfOwner ==
  ASSUME ViewInv, NEW i \in DOMAIN owners, NEW k, NEW n
  PROVE  Local(k, owners[i].key, n) <=>
           \/ /\ k.partition = Shared /\ SourceIsLive(shared, k.slot)
              /\ n = owners[i].sharedSources[k.slot.slot].slot
           \/ k.partition = owners[i].key /\ OwnSource(owners[i], k.slot) /\ n = k.slot.slot
BY Partitions DEF Local

LEMMA LocalOfShared ==
  ASSUME ViewInv, NEW k, NEW n
  PROVE  Local(k, Shared, n) <=>
           k.partition = Shared /\ SourceIsLive(shared, k.slot) /\ n = k.slot.slot
BY Partitions DEF Local

\* The proxy of a live shared source is in its own slot.
LEMMA ProxyFacts ==
  ASSUME ViewInv, NEW i \in DOMAIN owners, NEW s \in DOMAIN shared.sources, shared.sources[s].live
  PROVE  LET o == owners[i]
             id == o.sharedSources[s]
         IN  /\ id \in Proxies(o) /\ id \in SlotId /\ ProxyIn(o, s) = id
             /\ SourceIsLive(o.graph, id)
             /\ id = [slot |-> id.slot, generation |-> o.graph.sources[id.slot].generation]
             /\ (CHOOSE t \in DOMAIN o.sharedSources : o.sharedSources[t] = id) = s
<1> DEFINE o == owners[i]
           id == o.sharedSources[s]
<1>1. Faithful(o, shared.sources) /\ GraphInv(o.graph) /\ o \in Owner
  BY OwnerGraphInv, OwnerTypes DEF ViewInv, IdentityInv, AllFaithful
<1>2. id \in Proxies(o) /\ ProxyIn(o, s) = id /\ SourceIsLive(o.graph, id)
  BY <1>1, ProxyIsProxy, SlotsFromOne DEF Faithful
<1>3. id \in SlotId
  <2>1. o.sharedSources \in Seq(SlotId \cup {NoProxy}) /\ s \in DOMAIN o.sharedSources
    BY <1>1 DEF Owner, Faithful
  <2>2. id \in SlotId \cup {NoProxy} /\ id # NoProxy
    BY <1>2, <2>1 DEF Proxies
  <2> QED BY <2>2
<1>4. id = [slot |-> id.slot, generation |-> o.graph.sources[id.slot].generation]
  BY <1>2, <1>3 DEF SlotId, SourceIsLive, NodeIsLive
<1>5. \A t \in DOMAIN o.sharedSources : o.sharedSources[t] = id => t = s
  <2>1. ASSUME NEW t \in DOMAIN o.sharedSources, o.sharedSources[t] = id PROVE t = s
    <3>1. t \in DOMAIN shared.sources /\ id # NoProxy
      BY <1>1, <1>2 DEF Faithful, Proxies
    <3>2. shared.sources[t].live
      BY <1>1, <2>1, <3>1 DEF Faithful
    <3> QED BY <1>1, <2>1, <3>1, <3>2 DEF Faithful
  <2> QED BY <2>1
<1>6. s \in DOMAIN o.sharedSources
  BY <1>1 DEF Faithful
<1> HIDE DEF o, id
<1>7. (CHOOSE t \in DOMAIN o.sharedSources : o.sharedSources[t] = id) = s
  BY <1>5, <1>6 DEF id
<1> QED BY <1>2, <1>3, <1>4, <1>7 DEF o, id

LEMMA BehindIsLocal ==
  ASSUME ViewInv, NEW i \in DOMAIN owners, NEW n \in DOMAIN owners[i].graph.sources,
         owners[i].graph.sources[n].live
  PROVE  /\ SourceBehind(owners[i], n) \in Ids
         /\ Local(SourceBehind(owners[i], n), owners[i].key, n)
<1> DEFINE o == owners[i]
           id == [slot |-> n, generation |-> o.graph.sources[n].generation]
<1>1. o.graph \in GraphOf(o.key)
  BY Partitions
<1>2. id \in SlotIds /\ SourceIsLive(o.graph, id) /\ o.key \in {Shared} \cup OwnerKeys
  BY <1>1, PartitionGraphs, GraphSlots DEF SourceIsLive, NodeIsLive
<1>3. CASE id \in Proxies(o)
  <2>1. PICK s \in DOMAIN o.sharedSources : o.sharedSources[s] = id /\ id # NoProxy
    BY <1>3 DEF Proxies
  <2>2. s \in DOMAIN shared.sources /\ shared.sources[s].live
    BY <2>1 DEF ViewInv, IdentityInv, AllFaithful, Faithful
  <2>3. (CHOOSE t \in DOMAIN o.sharedSources : o.sharedSources[t] = id) = s
    BY <2>1, <2>2, ProxyFacts
  <2> DEFINE k == Key(Shared, s, shared.sources)
  <2>4. SourceBehind(o, n) = k
    BY <1>3, <2>3 DEF SourceBehind
  <2>5. shared \in GraphOf(Shared)
    BY Partitions
  <2>6. k.partition = Shared /\ k.slot = [slot |-> s, generation |-> shared.sources[s].generation]
    BY DEF Key
  <2>7. k.slot \in SlotIds /\ SourceIsLive(shared, k.slot)
    BY <2>2, <2>5, <2>6, PartitionGraphs, GraphSlots DEF SourceIsLive, NodeIsLive
  <2>8. k \in Ids
    BY <2>7 DEF Ids, Key
  <2>9. Local(k, o.key, n)
    BY <2>1, <2>6, <2>7, LocalOfOwner
  <2> QED BY <2>4, <2>8, <2>9
<1>4. CASE id \notin Proxies(o)
  <2> DEFINE k == [partition |-> o.key, slot |-> id]
  <2>1. SourceBehind(o, n) = k
    BY <1>4 DEF SourceBehind
  <2>2. k \in Ids
    BY <1>2 DEF Ids, OwnerKeys
  <2>3. Local(k, o.key, n)
    BY <1>2, <1>4, LocalOfOwner DEF OwnSource
  <2> QED BY <2>1, <2>2, <2>3
<1> QED BY <1>3, <1>4

LEMMA LocalIsBehind ==
  ASSUME ViewInv, NEW i \in DOMAIN owners, NEW k \in Ids, NEW n, Local(k, owners[i].key, n)
  PROVE  /\ n \in DOMAIN owners[i].graph.sources /\ owners[i].graph.sources[n].live
         /\ SourceBehind(owners[i], n) = k
<1> DEFINE o == owners[i]
           id == [slot |-> n, generation |-> o.graph.sources[n].generation]
<1>1. CASE k.partition = Shared /\ SourceIsLive(shared, k.slot)
           /\ n = o.sharedSources[k.slot.slot].slot
  <2> DEFINE s == k.slot.slot
  <2>1. s \in DOMAIN shared.sources /\ shared.sources[s].live
        /\ k.slot.generation = shared.sources[s].generation
    BY <1>1 DEF SourceIsLive, NodeIsLive
  <2>2. /\ o.sharedSources[s] = id /\ id \in Proxies(o) /\ SourceIsLive(o.graph, id)
        /\ (CHOOSE t \in DOMAIN o.sharedSources : o.sharedSources[t] = id) = s
    <3> DEFINE q == o.sharedSources[s]
    <3>1. /\ q \in Proxies(o) /\ SourceIsLive(o.graph, q)
          /\ q = [slot |-> q.slot, generation |-> o.graph.sources[q.slot].generation]
          /\ (CHOOSE t \in DOMAIN o.sharedSources : o.sharedSources[t] = q) = s
      <4> HIDE DEF s
      <4> QED BY <2>1, ProxyFacts
    <3>2. q.slot = n
      BY <1>1
    <3> HIDE DEF q
    <3>3. q = id
      BY <3>1, <3>2
    <3> QED BY <3>1, <3>3 DEF q
  <2>3. SourceBehind(o, n) = Key(Shared, s, shared.sources)
    BY <2>2 DEF SourceBehind
  <2>4. Key(Shared, s, shared.sources) = k
    BY <1>1, <2>1, IdRecord DEF Key
  <2> QED BY <2>2, <2>3, <2>4 DEF SourceIsLive, NodeIsLive
<1>2. CASE k.partition = o.key /\ OwnSource(o, k.slot) /\ n = k.slot.slot
  <2>1. n \in DOMAIN o.graph.sources /\ o.graph.sources[n].live
        /\ k.slot.generation = o.graph.sources[n].generation /\ k.slot \notin Proxies(o)
    BY <1>2 DEF OwnSource, SourceIsLive, NodeIsLive
  <2>2. k.slot = id /\ k = [partition |-> o.key, slot |-> id]
    BY <1>2, <2>1, IdRecord
  <2>3. SourceBehind(o, n) = k
    BY <2>1, <2>2 DEF SourceBehind
  <2> QED BY <2>1, <2>3
<1> QED BY <1>1, <1>2, LocalOfOwner

\* No two sources share a slot of a partition.
LEMMA LocalInjective ==
  ASSUME ViewInv, NEW p, NEW k \in Ids, NEW j \in Ids, NEW n, Local(k, p, n), Local(j, p, n)
  PROVE  k = j
<1>1. CASE p = Shared
  <2>1. /\ k.partition = j.partition /\ k.slot.slot = j.slot.slot
        /\ k.slot.generation = j.slot.generation
    BY <1>1, LocalOfShared DEF SourceIsLive, NodeIsLive
  <2> QED BY <2>1, IdRecord
<1>2. CASE p # Shared
  <2>1. PICK i \in DOMAIN owners : p = owners[i].key
    BY <1>2 DEF Local, OwnerIndex
  <2> QED BY <2>1, LocalIsBehind
<1> QED BY <1>1, <1>2

LEMMA EdgesView ==
  ASSUME ViewInv
  PROVE  depEdges = {e \in Ids \X Ids : DependsOn(e[1], e[2])}
<1> DEFINE Own(i) == {<<SourceBehind(owners[i], e[1]),
                       Key(owners[i].key, e[2], owners[i].graph.consumers)>> :
                       e \in owners[i].graph.rows}
           Ours == {<<Key(Shared, e[1], shared.sources), Key(Shared, e[2], shared.consumers)>> :
                      e \in shared.rows}
<1>1. ASSUME NEW p, NEW g \in GraphOf(p), NEW e \in g.rows
      PROVE  /\ e = <<e[1], e[2]>>
             /\ e[1] \in DOMAIN g.sources /\ g.sources[e[1]].live
             /\ Key(p, e[1], g.sources) \in Ids
             /\ Key(p, e[2], g.consumers) \in Ids
             /\ ConsumerIsLive(g, Key(p, e[2], g.consumers).slot)
             /\ Key(p, e[2], g.consumers).slot.slot = e[2]
             /\ Key(p, e[2], g.consumers).partition = p
  <2>1. /\ GraphInv(g) /\ CanAllocate(g.sourceLimit, g.consumerLimit)
        /\ p \in {Shared} \cup OwnerKeys
    BY <1>1, PartitionGraphs
  <2>2. /\ e = <<e[1], e[2]>> /\ e[1] \in DOMAIN g.sources /\ e[2] \in DOMAIN g.consumers
        /\ g.sources[e[1]].live /\ g.consumers[e[2]].live
    BY <2>1 DEF GraphInv, GraphTypeOK, EdgesLive
  <2>3. /\ [slot |-> e[1], generation |-> g.sources[e[1]].generation] \in SlotIds
        /\ [slot |-> e[2], generation |-> g.consumers[e[2]].generation] \in SlotIds
    BY <2>1, <2>2, GraphSlots
  <2> QED BY <2>1, <2>2, <2>3 DEF Key, Ids, OwnerKeys, ConsumerIsLive, NodeIsLive
<1>2. ASSUME NEW e \in shared.rows
      PROVE  LET k == Key(Shared, e[1], shared.sources)
                 c == Key(Shared, e[2], shared.consumers)
             IN  k \in Ids /\ c \in Ids /\ DependsOn(k, c)
  <2> DEFINE k == Key(Shared, e[1], shared.sources)
             c == Key(Shared, e[2], shared.consumers)
  <2>1. shared \in GraphOf(Shared)
    BY Partitions
  <2>2. /\ k \in Ids /\ c \in Ids /\ ConsumerIsLive(shared, c.slot) /\ c.slot.slot = e[2]
        /\ c.partition = Shared /\ e = <<e[1], e[2]>>
        /\ e[1] \in DOMAIN shared.sources /\ shared.sources[e[1]].live
    BY <1>1, <2>1
  <2>3. Local(k, Shared, e[1])
    BY <2>2, LocalOfShared DEF Key, SourceIsLive, NodeIsLive
  <2> HIDE DEF k, c
  <2>4. DependsOn(k, c)
    BY <2>1, <2>2, <2>3 DEF DependsOn
  <2> QED BY <2>2, <2>4 DEF k, c
<1>3. ASSUME NEW i \in DOMAIN owners, NEW e \in owners[i].graph.rows
      PROVE  LET k == SourceBehind(owners[i], e[1])
                 c == Key(owners[i].key, e[2], owners[i].graph.consumers)
             IN  k \in Ids /\ c \in Ids /\ DependsOn(k, c)
  <2> DEFINE k == SourceBehind(owners[i], e[1])
             c == Key(owners[i].key, e[2], owners[i].graph.consumers)
             g == owners[i].graph
  <2>1. g \in GraphOf(owners[i].key)
    BY Partitions
  <2>2. /\ c \in Ids /\ ConsumerIsLive(g, c.slot) /\ c.slot.slot = e[2]
        /\ c.partition = owners[i].key /\ e = <<e[1], e[2]>>
        /\ e[1] \in DOMAIN g.sources /\ g.sources[e[1]].live
    BY <1>1, <1>3, <2>1
  <2>3. k \in Ids /\ Local(k, owners[i].key, e[1])
    BY <2>2, BehindIsLocal
  <2> HIDE DEF k, c
  <2>4. DependsOn(k, c)
    BY <1>3, <2>1, <2>2, <2>3 DEF DependsOn
  <2> QED BY <2>2, <2>3, <2>4 DEF k, c
<1>4. ASSUME NEW k \in Ids, NEW c \in Ids, DependsOn(k, c)
      PROVE  <<k, c>> \in Ours \/ \E i \in DOMAIN owners : <<k, c>> \in Own(i)
  <2>1. PICK g \in GraphOf(c.partition) : ConsumerIsLive(g, c.slot)
          /\ \E n : Local(k, c.partition, n) /\ <<n, c.slot.slot>> \in g.rows
    BY <1>4 DEF DependsOn
  <2>2. PICK n : Local(k, c.partition, n) /\ <<n, c.slot.slot>> \in g.rows
    BY <2>1
  <2> DEFINE e == <<n, c.slot.slot>>
  <2>3. e[1] = n /\ e[2] = c.slot.slot /\ e \in g.rows
    BY <2>2
  <2>4. c = Key(c.partition, c.slot.slot, g.consumers)
    BY <2>1, IdRecord DEF Key, ConsumerIsLive, NodeIsLive
  <2>5. CASE c.partition = Shared
    <3>1. g = shared
      BY <2>5, Partitions
    <3>2. k = Key(Shared, n, shared.sources)
      <4>1. /\ k.partition = Shared /\ k.slot.slot = n
            /\ k.slot.generation = shared.sources[n].generation
        BY <2>2, <2>5, LocalOfShared DEF SourceIsLive, NodeIsLive
      <4> QED BY <4>1, IdRecord DEF Key
    <3> HIDE DEF e
    <3>3. <<k, c>> = <<Key(Shared, e[1], shared.sources), Key(Shared, e[2], shared.consumers)>>
      BY <2>3, <2>4, <2>5, <3>1, <3>2
    <3> QED BY <2>3, <3>1, <3>3
  <2>6. CASE c.partition # Shared
    <3>1. PICK i \in DOMAIN owners : c.partition = owners[i].key /\ g = owners[i].graph
      BY <2>6 DEF GraphOf, OwnerIndex
    <3>2. SourceBehind(owners[i], n) = k
      BY <2>2, <3>1, LocalIsBehind
    <3> HIDE DEF e
    <3>3. <<k, c>> = <<SourceBehind(owners[i], e[1]),
                       Key(owners[i].key, e[2], owners[i].graph.consumers)>>
      BY <2>3, <2>4, <3>1, <3>2
    <3> QED BY <2>3, <3>1, <3>3
  <2> QED BY <2>5, <2>6
<1>5. depEdges = Ours \cup UNION {Own(i) : i \in DOMAIN owners}
  BY DEF depEdges
<1>6. \A d \in Ours : d \in Ids \X Ids /\ DependsOn(d[1], d[2])
  BY <1>2
<1>7. \A i \in DOMAIN owners : \A d \in Own(i) : d \in Ids \X Ids /\ DependsOn(d[1], d[2])
  BY <1>3
<1>8. \A d \in Ids \X Ids : DependsOn(d[1], d[2]) =>
        d \in Ours \/ \E i \in DOMAIN owners : d \in Own(i)
  <2> HIDE DEF Ours, Own
  <2> QED BY <1>4
<1> HIDE DEF Ours, Own
<1> QED BY <1>5, <1>6, <1>7, <1>8

-----------------------------------------------------------------------------
(***************************************************************************)
(* What the four variables become in a step, from what each partition      *)
(* becomes.                                                                *)
(***************************************************************************)
Viewed ==
  /\ depSources = {k \in Ids : IsSource(k)}
  /\ depConsumers = [k \in {j \in Ids : UsableConsumer(j)} |-> depConsumers[k]]
  /\ \A k \in Ids : \A t : HasTarget(k, t) => UsableConsumer(k) /\ depConsumers[k] = t
  /\ depEdges = {e \in Ids \X Ids : DependsOn(e[1], e[2])}
  /\ depPending = {k \in Ids : IsDue(k)}

LEMMA Views == ViewInv => Viewed
BY SourcesView, ConsumersView, EdgesView, DueView DEF Viewed

LEMMA ViewsPrimed == ViewInv' => Viewed'
BY Views, PTL

\* What a client sees of one consumer.
SameConsumer(c) ==
  /\ \A t : HasTarget(c, t)' <=> HasTarget(c, t)
  /\ \A k \in Ids : DependsOn(k, c)' <=> DependsOn(k, c)
  /\ IsDue(c)' <=> IsDue(c)

LEMMA UsableHasTarget ==
  ASSUME NEW k, UsableConsumer(k)
  PROVE  \E t : HasTarget(k, t)
BY DEF UsableConsumer, HasTarget

LEMMA UsableHasTargetPrimed ==
  ASSUME NEW k
  PROVE  UsableConsumer(k)' => \E t : HasTarget(k, t)'
BY DEF UsableConsumer, HasTarget

LEMMA SourcesStay ==
  ASSUME Viewed, Viewed', \A k \in Ids : IsSource(k)' <=> IsSource(k)
  PROVE  depSources' = depSources
BY DEF Viewed

LEMMA EdgesStay ==
  ASSUME Viewed, Viewed', \A k, c \in Ids : DependsOn(k, c)' <=> DependsOn(k, c)
  PROVE  depEdges' = depEdges
<1>1. ASSUME NEW e \in Ids \X Ids PROVE DependsOn(e[1], e[2])' <=> DependsOn(e[1], e[2])
  <2>1. e[1] \in Ids /\ e[2] \in Ids
    OBVIOUS
  <2> QED BY <2>1
<1> QED BY <1>1 DEF Viewed

LEMMA DueStays ==
  ASSUME Viewed, Viewed', \A c \in Ids : IsDue(c)' <=> IsDue(c)
  PROVE  depPending' = depPending
BY DEF Viewed

LEMMA ConsumersStay ==
  ASSUME Viewed, Viewed', \A c \in Ids : \A t : HasTarget(c, t)' <=> HasTarget(c, t)
  PROVE  depConsumers' = depConsumers
<1> DEFINE S == {j \in Ids : UsableConsumer(j)}
           T == {j \in Ids : UsableConsumer(j)'}
<1>1. T = S
  <2>1. ASSUME NEW k \in Ids PROVE UsableConsumer(k)' <=> UsableConsumer(k)
    BY UsableHasTarget, UsableHasTargetPrimed DEF Viewed
  <2> QED BY <2>1
<1>2. ASSUME NEW k \in S PROVE depConsumers'[k] = depConsumers[k]
  <2>1. PICK t : HasTarget(k, t)
    BY UsableHasTarget
  <2> QED BY <2>1 DEF Viewed
<1>3. depConsumers = [k \in S |-> depConsumers[k]] /\ depConsumers' = [k \in T |-> depConsumers'[k]]
  BY DEF Viewed
<1> HIDE DEF S, T
<1> QED BY <1>1, <1>2, <1>3

\* The graph of partition p before the step and after it.
Pair(p, g, h) == GraphOf(p) = {g} /\ GraphOf(p)' = {h}

KeysSame ==
  /\ DOMAIN owners' = DOMAIN owners
  /\ \A i \in DOMAIN owners : owners'[i].key = owners[i].key

\* Every partition there is before or after the step is one of the owners' or shared.
LEMMA Pairs ==
  ASSUME ViewInv, ViewInv', KeysSame, NEW p
  PROVE  \/ GraphOf(p) = {} /\ GraphOf(p)' = {}
         \/ p = Shared /\ Pair(p, shared, shared')
         \/ \E i \in DOMAIN owners :
              p = owners[i].key /\ Pair(p, owners[i].graph, owners'[i].graph)
<1>1. CASE p = Shared
  <2>1. GraphOf(p) = {shared} /\ GraphOf(p)' = {shared'}
    BY <1>1 DEF GraphOf
  <2> QED BY <1>1, <2>1 DEF Pair
<1>2. CASE p # Shared
  <2>1. OwnerIndex(p)' = OwnerIndex(p)
    BY DEF OwnerIndex, KeysSame
  <2>2. CASE OwnerIndex(p) = {}
    BY <1>2, <2>1, <2>2 DEF GraphOf
  <2>3. CASE OwnerIndex(p) # {}
    <3>1. PICK i \in DOMAIN owners : p = owners[i].key
      BY <2>3 DEF OwnerIndex
    <3>2. OwnerIndex(p) = {i}
      BY <3>1, Partitions
    <3>3. GraphOf(p) = {owners[i].graph} /\ GraphOf(p)' = {owners'[i].graph}
      BY <1>2, <2>1, <3>2 DEF GraphOf
    <3> QED BY <3>1, <3>3 DEF Pair
  <2> QED BY <2>2, <2>3
<1> QED BY <1>1, <1>2

\* What is seen of a partition is what its graph holds.
LEMMA PairSeen ==
  ASSUME NEW p, NEW g, NEW h, Pair(p, g, h), NEW c, c.partition = p
  PROVE  /\ \A t : /\ HasTarget(c, t) <=> ConsumerIsLive(g, c.slot)
                                          /\ g.consumers[c.slot.slot].target = t
                   /\ HasTarget(c, t)' <=> ConsumerIsLive(h, c.slot)
                                           /\ h.consumers[c.slot.slot].target = t
         /\ IsDue(c) <=> c.slot \in Entries(g)
         /\ IsDue(c)' <=> c.slot \in Entries(h)
         /\ \A k : /\ DependsOn(k, c) <=>
                        /\ ConsumerIsLive(g, c.slot)
                        /\ \E n : Local(k, p, n) /\ <<n, c.slot.slot>> \in g.rows
                   /\ DependsOn(k, c)' <=>
                        /\ ConsumerIsLive(h, c.slot)
                        /\ \E n : Local(k, p, n)' /\ <<n, c.slot.slot>> \in h.rows
<1>1. GraphOf(c.partition) = {g} /\ GraphOf(c.partition)' = {h}
  BY DEF Pair
<1>2. \A t : /\ HasTarget(c, t) <=> ConsumerIsLive(g, c.slot)
                                    /\ g.consumers[c.slot.slot].target = t
             /\ HasTarget(c, t)' <=> ConsumerIsLive(h, c.slot)
                                     /\ h.consumers[c.slot.slot].target = t
  BY <1>1 DEF HasTarget, ConsumerIsLive
<1>3. (IsDue(c) <=> c.slot \in Entries(g)) /\ (IsDue(c)' <=> c.slot \in Entries(h))
  BY <1>1 DEF IsDue, Entries
<1>4. \A k : DependsOn(k, c) <=> /\ ConsumerIsLive(g, c.slot)
                                 /\ \E n : Local(k, p, n) /\ <<n, c.slot.slot>> \in g.rows
  BY <1>1 DEF DependsOn
<1>5. \A k : DependsOn(k, c)' <=> /\ ConsumerIsLive(h, c.slot)
                                  /\ \E n : Local(k, p, n)' /\ <<n, c.slot.slot>> \in h.rows
  BY <1>1 DEF DependsOn, ConsumerIsLive
<1> QED BY <1>2, <1>3, <1>4, <1>5

LEMMA PairDepends ==
  ASSUME NEW p, NEW g, NEW h, Pair(p, g, h), NEW c, c.partition = p, NEW k
  PROVE  DependsOn(k, c) <=> /\ ConsumerIsLive(g, c.slot)
                             /\ \E n : Local(k, p, n) /\ <<n, c.slot.slot>> \in g.rows
BY PairSeen

LEMMA NothingSeen ==
  ASSUME NEW c, GraphOf(c.partition) = {}, GraphOf(c.partition)' = {}
  PROVE  SameConsumer(c)
BY DEF SameConsumer, HasTarget, DependsOn, IsDue

\* The graph has the same consumers, rows and entries.
AlikeIn(g, h) ==
  /\ h.consumers = g.consumers \/ OnlyFlags(g.consumers, h.consumers)
  /\ h.rows = g.rows
  /\ Entries(h) = Entries(g)

LEMMA ConsumersAlike ==
  ASSUME NEW g, NEW h, h.consumers = g.consumers \/ OnlyFlags(g.consumers, h.consumers), NEW id
  PROVE  /\ ConsumerIsLive(h, id) <=> ConsumerIsLive(g, id)
         /\ ConsumerIsLive(g, id) => h.consumers[id.slot].target = g.consumers[id.slot].target
BY DEF OnlyFlags, ConsumerIsLive, NodeIsLive

LEMMA AlikeSeen ==
  ASSUME NEW p, NEW g, NEW h, Pair(p, g, h), AlikeIn(g, h), NEW c, c.partition = p,
         \A k \in Ids : \A n : Local(k, p, n)' <=> Local(k, p, n)
  PROVE  SameConsumer(c)
<1>1. /\ ConsumerIsLive(h, c.slot) <=> ConsumerIsLive(g, c.slot)
      /\ ConsumerIsLive(g, c.slot) =>
           h.consumers[c.slot.slot].target = g.consumers[c.slot.slot].target
  BY ConsumersAlike DEF AlikeIn
<1>2. \A t : HasTarget(c, t)' <=> HasTarget(c, t)
  BY <1>1, PairSeen
<1>3. IsDue(c)' <=> IsDue(c)
  BY PairSeen DEF AlikeIn
<1>4. \A k \in Ids : DependsOn(k, c)' <=> DependsOn(k, c)
  BY <1>1, PairSeen DEF AlikeIn
<1> QED BY <1>2, <1>3, <1>4 DEF SameConsumer

\* In a quiet step no partition knows another source, or under another slot.
LEMMA LocalQuiet ==
  ASSUME ViewInv, QuietStep
  PROVE  /\ KeysSame
         /\ \A k, p, n : Local(k, p, n)' <=> Local(k, p, n)
         /\ \A k : IsSource(k)' <=> IsSource(k)
<1>1. KeysSame
  BY DEF QuietStep, Quiet, KeysSame
<1>2. \A p : OwnerIndex(p)' = OwnerIndex(p) /\ OwnerIndex(p) \subseteq DOMAIN owners
  BY <1>1 DEF OwnerIndex, KeysSame
<1>3. ASSUME NEW i \in DOMAIN owners
      PROVE  /\ owners'[i].sharedSources = owners[i].sharedSources
             /\ \A id : OwnSource(owners[i], id)' <=> OwnSource(owners[i], id)
  BY <1>3 DEF QuietStep, Quiet, OwnSource, Proxies, SourceIsLive
<1>4. \A id : SourceIsLive(shared', id) <=> SourceIsLive(shared, id)
  BY DEF QuietStep, SourceIsLive
<1>5. \A k, p, n : Local(k, p, n)' <=> Local(k, p, n)
  BY <1>2, <1>3, <1>4 DEF Local
<1> QED BY <1>1, <1>5 DEF IsSource

-----------------------------------------------------------------------------
(***************************************************************************)
(* Steps that leave the sources alone.                                     *)
(***************************************************************************)
LEMMA AlikeEverywhere ==
  ASSUME ViewInv, ViewInv', QuietStep, AlikeIn(shared, shared'),
         \A i \in DOMAIN owners : AlikeIn(owners[i].graph, owners'[i].graph)
  PROVE  UNCHANGED <<depSources, depConsumers, depEdges, depPending>>
<1>1. \A c \in Ids : SameConsumer(c)
  <2>1. ASSUME NEW c \in Ids PROVE SameConsumer(c)
    <3>1. CASE GraphOf(c.partition) = {} /\ GraphOf(c.partition)' = {}
      BY <3>1, NothingSeen
    <3>2. CASE \E g, h : Pair(c.partition, g, h) /\ AlikeIn(g, h)
      BY <3>2, AlikeSeen, LocalQuiet
    <3> QED BY <3>1, <3>2, Pairs, LocalQuiet
  <2> QED BY <2>1
<1>2. Viewed /\ Viewed'
  BY Views, ViewsPrimed
<1>3. depSources' = depSources
  BY <1>2, LocalQuiet, SourcesStay
<1>4. depConsumers' = depConsumers /\ depEdges' = depEdges /\ depPending' = depPending
  BY <1>1, <1>2, ConsumersStay, EdgesStay, DueStays DEF SameConsumer
<1> QED BY <1>3, <1>4

\* Growth copies every partition: no reserve_* call is seen by the client.
LEMMA ReserveAlike ==
  ASSUME PartitionInv, NEW requested, Reserve(requested)
  PROVE  /\ AlikeIn(shared, shared')
         /\ \A i \in DOMAIN owners : AlikeIn(owners[i].graph, owners'[i].graph)
<1>1. PICK sl, cl : shared' = Grown(shared, sl, cl)
  BY DEF Reserve
<1>2. AlikeIn(shared, shared')
  <2>1. GraphInv(shared)
    BY DEF PartitionInv
  <2> QED BY <1>1, <2>1, GrownEffect DEF AlikeIn, Entries
<1>3. PICK ol, dl : owners' = [i \in DOMAIN owners |->
                                 [owners[i] EXCEPT !.graph = Grown(owners[i].graph, ol, dl)]]
  BY DEF Reserve, MapOwners
<1>4. ASSUME NEW i \in DOMAIN owners PROVE AlikeIn(owners[i].graph, owners'[i].graph)
  <2>1. owners[i] \in Owner /\ GraphInv(owners[i].graph)
    BY OwnerTypes DEF PartitionInv
  <2>2. owners'[i].graph = Grown(owners[i].graph, ol, dl)
    BY <1>3, <2>1, OwnerFields
  <2> QED BY <2>1, <2>2, GrownEffect DEF AlikeIn, Entries
<1> QED BY <1>2, <1>4

Growing ==
  \/ ReserveForSharedSource
  \/ ReserveForOwner
  \/ \E w \in Worlds : ReserveForOwnerSource(w)
  \/ \E key \in PartitionKeys :
       \/ ReserveForConsumer(key)
       \/ \E headroom \in Headrooms : ReserveOwnerConsumers(key, headroom)

LEMMA GrowthUnseen ==
  ASSUME ViewInv, ViewInv', Growing
  PROVE  UNCHANGED <<depSources, depConsumers, depEdges, depPending>>
<1>1. PartitionInv
  BY DEF ViewInv, IdentityInv
<1>2. QuietStep
  BY <1>1, GrowthQuiet DEF Growing
<1>3. \E requested : Reserve(requested)
  <2>1. CASE ReserveForSharedSource \/ ReserveForOwner
    BY <2>1 DEF ReserveForSharedSource, ReserveForOwner
  <2>2. ASSUME NEW w, ReserveForOwnerSource(w) PROVE \E requested : Reserve(requested)
    BY <2>2 DEF ReserveForOwnerSource
  <2>3. ASSUME NEW key, ReserveForConsumer(key) PROVE \E requested : Reserve(requested)
    BY <2>3 DEF ReserveForConsumer
  <2>4. ASSUME NEW key, NEW headroom, ReserveOwnerConsumers(key, headroom)
        PROVE  \E requested : Reserve(requested)
    BY <2>4 DEF ReserveOwnerConsumers
  <2> QED BY <2>1, <2>2, <2>3, <2>4 DEF Growing
<1> QED BY <1>1, <1>2, <1>3, ReserveAlike, AlikeEverywhere

\* Partition p changes from g to h, and no consumer of another is touched.
OneChanges(p, g, h) ==
  /\ Pair(p, g, h) /\ GraphInv(g)
  /\ \A c \in Ids : c.partition # p => SameConsumer(c)

LEMMA SharedAlone ==
  ASSUME ViewInv, ViewInv', QuietStep,
         \A i \in DOMAIN owners : AlikeIn(owners[i].graph, owners'[i].graph)
  PROVE  OneChanges(Shared, shared, shared')
<1>1. Pair(Shared, shared, shared') /\ GraphInv(shared)
  BY SharedGraphInv DEF ViewInv, IdentityInv, Pair, GraphOf
<1>2. ASSUME NEW c \in Ids, c.partition # Shared PROVE SameConsumer(c)
  BY <1>2, Pairs, NothingSeen, AlikeSeen, LocalQuiet
<1> QED BY <1>1, <1>2 DEF OneChanges

LEMMA OwnerAlone ==
  ASSUME ViewInv, ViewInv', QuietStep, NEW i \in DOMAIN owners, AlikeIn(shared, shared'),
         \A j \in DOMAIN owners : j # i => AlikeIn(owners[j].graph, owners'[j].graph),
         NEW p, p = owners[i].key
  PROVE  OneChanges(p, owners[i].graph, owners'[i].graph)
<1>1. Pair(p, owners[i].graph, owners'[i].graph)
  <2>1. p # Shared /\ OwnerIndex(p) = {i}
    BY Partitions
  <2>2. OwnerIndex(p)' = OwnerIndex(p)
    BY LocalQuiet DEF OwnerIndex, KeysSame
  <2>3. GraphOf(p) = {owners[i].graph} /\ GraphOf(p)' = {owners'[i].graph}
    BY <2>1, <2>2 DEF GraphOf
  <2> QED BY <2>3 DEF Pair
<1>2. GraphInv(owners[i].graph)
  BY OwnerGraphInv DEF ViewInv, IdentityInv
<1>3. ASSUME NEW c \in Ids, c.partition # p PROVE SameConsumer(c)
  <2>1. \A j \in DOMAIN owners : c.partition = owners[j].key => j # i
    BY <1>3
  <2> QED BY <2>1, Pairs, NothingSeen, AlikeSeen, LocalQuiet
<1> QED BY <1>1, <1>2, <1>3 DEF OneChanges

LEMMA SameAlike == \A g : AlikeIn(g, g)
BY DEF AlikeIn

\* The graphs of a partition after the step are well formed, too.
GraphsGood ==
  \A p : \A g \in GraphOf(p) :
    /\ GraphInv(g) /\ CanAllocate(g.sourceLimit, g.consumerLimit)
    /\ p \in {Shared} \cup OwnerKeys

LEMMA GraphsAreGood == ViewInv => GraphsGood
BY PartitionGraphs DEF GraphsGood

LEMMA GraphsStayGood == ViewInv' => GraphsGood'
BY GraphsAreGood, PTL

LEMMA GoodAfter ==
  ASSUME ViewInv', NEW p, NEW h \in GraphOf(p)'
  PROVE  /\ GraphInv(h)
         /\ \A s \in DOMAIN h.sources :
              [partition |-> p, slot |-> [slot |-> s, generation |-> h.sources[s].generation]] \in Ids
         /\ \A c \in DOMAIN h.consumers :
              [partition |-> p, slot |-> [slot |-> c, generation |-> h.consumers[c].generation]]
                \in Ids
<1>1. GraphInv(h) /\ CanAllocate(h.sourceLimit, h.consumerLimit) /\ p \in {Shared} \cup OwnerKeys
  BY GraphsStayGood DEF GraphsGood
<1>2. /\ \A s \in DOMAIN h.sources :
           [slot |-> s, generation |-> h.sources[s].generation] \in SlotIds
      /\ \A c \in DOMAIN h.consumers :
           [slot |-> c, generation |-> h.consumers[c].generation] \in SlotIds
  BY <1>1, GraphSlots
<1> QED BY <1>1, <1>2 DEF Ids, OwnerKeys

LEMMA LiveAfter ==
  ASSUME ViewInv', NEW p, NEW h \in GraphOf(p)', NEW id \in SlotId
  PROVE  /\ SourceIsLive(h, id) => [partition |-> p, slot |-> id] \in Ids
         /\ ConsumerIsLive(h, id) => [partition |-> p, slot |-> id] \in Ids
<1>1. id = [slot |-> id.slot, generation |-> id.generation]
  BY DEF SlotId
<1> QED BY <1>1, GoodAfter DEF SourceIsLive, ConsumerIsLive, NodeIsLive

\* register_consumer: a consumer nobody depends on and that depends on nothing.
LEMMA RegisteredIsAdded ==
  ASSUME ViewInv, ViewInv', QuietStep, NEW p, NEW g, NEW h, OneChanges(p, g, h),
         NEW target \in Subscriber, CanAddConsumer(g), h = AddConsumer(g, target)
  PROVE  Dep!AddConsumer
<1>a. PICK id : id = NextId(g.consumers)
  OBVIOUS
<1>b. PICK c : c = [partition |-> p, slot |-> id]
  OBVIOUS
<1>1. /\ NodeAdded(g.consumers, h.consumers, id) /\ h.consumers[id.slot].target = target
      /\ h.rows = ClearColumn(g.rows, id.slot) /\ Entries(h) = Entries(g)
  BY <1>a, AddConsumerEffect DEF OneChanges, Entries
<1>2. Pair(p, g, h) /\ GraphInv(g) /\ h \in GraphOf(p)'
  BY DEF OneChanges, Pair
<1>3. id \in SlotId /\ ConsumerIsLive(h, id) /\ ~ConsumerIsLive(g, id)
  BY <1>1 DEF NodeAdded, ConsumerIsLive, NodeIsLive
<1>4. c \in Ids /\ c.partition = p /\ c.slot = id
  BY <1>b, <1>2, <1>3, LiveAfter
<1>5. ASSUME NEW k \in Ids, k # c PROVE SameConsumer(k)
  <2>1. CASE k.partition # p
    BY <2>1 DEF OneChanges
  <2>2. CASE k.partition = p
    <3>1. k.slot # id
      BY <1>4, <1>5, <2>2, IdRecord
    <3>2. /\ ConsumerIsLive(h, k.slot) <=> ConsumerIsLive(g, k.slot)
          /\ ConsumerIsLive(g, k.slot) =>
               /\ k.slot.slot # id.slot
               /\ h.consumers[k.slot.slot].target = g.consumers[k.slot.slot].target
      <4>1. CASE k.slot.slot # id.slot
        BY <1>1, <4>1 DEF NodeAdded, ConsumerIsLive, NodeIsLive
      <4>2. CASE k.slot.slot = id.slot
        <5>1. k.slot.generation # id.generation
          BY <1>3, <3>1, <4>2, IdRecord DEF SlotId
        <5> QED BY <1>1, <4>2, <5>1 DEF NodeAdded, ConsumerIsLive, NodeIsLive
      <4> QED BY <4>1, <4>2
    <3>3. \A t : HasTarget(k, t)' <=> HasTarget(k, t)
      BY <1>2, <2>2, <3>2, PairSeen
    <3>4. IsDue(k)' <=> IsDue(k)
      BY <1>1, <1>2, <2>2, PairSeen
    <3>5. ConsumerIsLive(g, k.slot) =>
            \A n : <<n, k.slot.slot>> \in h.rows <=> <<n, k.slot.slot>> \in g.rows
      BY <1>1, <3>2 DEF ClearColumn
    <3>6. \A j \in Ids : DependsOn(j, k)' <=> DependsOn(j, k)
      BY <1>2, <2>2, <3>2, <3>5, PairSeen, LocalQuiet
    <3> QED BY <3>3, <3>4, <3>6 DEF SameConsumer
  <2> QED BY <2>1, <2>2
<1>6. /\ \A t : ~HasTarget(c, t)
      /\ \A t : HasTarget(c, t)' <=> t = target
      /\ \A j \in Ids : ~DependsOn(j, c) /\ ~DependsOn(j, c)'
      /\ IsDue(c)' <=> IsDue(c)
  <2>1. \A t : ~HasTarget(c, t) /\ (HasTarget(c, t)' <=> t = target)
    BY <1>1, <1>2, <1>3, <1>4, PairSeen
  <2>2. \A j \in Ids : ~DependsOn(j, c)
    BY <1>2, <1>3, <1>4, PairSeen
  <2>3. \A n : <<n, id.slot>> \notin h.rows
    BY <1>1 DEF ClearColumn
  <2>4. \A j \in Ids : ~DependsOn(j, c)'
    <3>1. ASSUME NEW j \in Ids PROVE DependsOn(j, c)' => \E n : <<n, c.slot.slot>> \in h.rows
      <4>1. Pair(p, g, h) /\ c.partition = p
        BY <1>2, <1>4
      <4>2. DependsOn(j, c)' <=> /\ ConsumerIsLive(h, c.slot)
                                /\ \E n : Local(j, p, n)' /\ <<n, c.slot.slot>> \in h.rows
        BY <4>1, PairSeen
      <4> QED BY <4>2
    <3> QED BY <1>4, <2>3, <3>1
  <2>5. IsDue(c)' <=> IsDue(c)
    BY <1>1, <1>2, <1>4, PairSeen
  <2> QED BY <2>1, <2>2, <2>4, <2>5
<1>7. Viewed /\ Viewed'
  BY Views, ViewsPrimed
<1>8. depSources' = depSources
  BY <1>7, LocalQuiet, SourcesStay
<1>9. depEdges' = depEdges
  BY <1>5, <1>6, <1>7, EdgesStay DEF SameConsumer
<1>10. depPending' = depPending
  BY <1>5, <1>6, <1>7, DueStays DEF SameConsumer
<1>11. c \in Ids \ DOMAIN depConsumers
  BY <1>4, <1>6, <1>7, UsableHasTarget DEF Viewed
<1>12. depConsumers' = [k \in DOMAIN depConsumers \cup {c} |->
                          IF k = c THEN target ELSE depConsumers[k]]
  <2> DEFINE S == {j \in Ids : UsableConsumer(j)}
             T == {j \in Ids : UsableConsumer(j)'}
  <2>1. depConsumers = [k \in S |-> depConsumers[k]] /\ depConsumers' = [k \in T |-> depConsumers'[k]]
    BY <1>7 DEF Viewed
  <2>2. ASSUME NEW k \in Ids, k # c
        PROVE  /\ UsableConsumer(k)' <=> UsableConsumer(k)
               /\ UsableConsumer(k) => depConsumers'[k] = depConsumers[k]
    <3>1. \A t : HasTarget(k, t)' <=> HasTarget(k, t)
      BY <1>5, <2>2 DEF SameConsumer
    <3>2. \A t : /\ HasTarget(k, t) => UsableConsumer(k) /\ depConsumers[k] = t
                 /\ HasTarget(k, t)' => UsableConsumer(k)' /\ depConsumers'[k] = t
      BY <1>7 DEF Viewed
    <3> QED BY <3>1, <3>2, UsableHasTarget, UsableHasTargetPrimed
  <2>3. UsableConsumer(c)' /\ depConsumers'[c] = target
    BY <1>4, <1>6, <1>7 DEF Viewed
  <2>4. T = S \cup {c}
    BY <1>4, <1>6, <2>2, <2>3, UsableHasTarget
  <2>5. \A k \in T : depConsumers'[k] = IF k = c THEN target ELSE depConsumers[k]
    BY <2>2, <2>3, <2>4
  <2> HIDE DEF S, T
  <2> QED BY <2>1, <2>4, <2>5
<1> QED BY <1>8, <1>9, <1>10, <1>11, <1>12 DEF Dep!AddConsumer

LEMMA SharedSet ==
  ASSUME ViewInv, ViewInv', QuietStep, UNCHANGED owners, NEW h, shared' = h
  PROVE  OneChanges(Shared, shared, h)
<1>1. \A i \in DOMAIN owners : AlikeIn(owners[i].graph, owners'[i].graph)
  BY SameAlike
<1> QED BY <1>1, SharedAlone

LEMMA OwnerSet ==
  ASSUME ViewInv, ViewInv', QuietStep, UNCHANGED shared,
         NEW p, NEW i \in OwnerIndex(p), NEW h, SetGraph(i, h)
  PROVE  OneChanges(p, owners[i].graph, h)
<1>1. i \in DOMAIN owners /\ owners[i].key = p
  BY DEF OwnerIndex
<1>2. /\ owners'[i].graph = h
      /\ \A j \in DOMAIN owners : j # i => owners'[j] = owners[j]
  BY <1>1, SetGraphFacts DEF ViewInv, IdentityInv
<1>3. AlikeIn(shared, shared') /\ \A j \in DOMAIN owners : j # i =>
                                    AlikeIn(owners[j].graph, owners'[j].graph)
  BY <1>2, SameAlike
<1>4. OneChanges(p, owners[i].graph, owners'[i].graph)
  BY <1>1, <1>3, OwnerAlone
<1> QED BY <1>2, <1>4

LEMMA KeysAreIds ==
  ASSUME ViewInv
  PROVE  Keys \subseteq Ids
<1>1. nextOwnerEpoch \in 1..MaxEpoch
  BY DEF ViewInv, IdentityInv, PartitionInv
<1>2. \A e \in 1..nextOwnerEpoch - 1 : e \in 1..MaxEpoch
  BY <1>1, OwnerAssumption
<1>3. PartitionKeys \subseteq {Shared} \cup OwnerKeys
  BY <1>2 DEF PartitionKeys, OwnerKeys
<1> QED BY <1>3 DEF Keys, Ids, OwnerKeys

LEMMA LocalIsSource ==
  ASSUME ViewInv, NEW k, NEW p, NEW n, Local(k, p, n)
  PROVE  IsSource(k) /\ k.partition \in {Shared, p}
<1>1. k.partition \in {Shared, p}
  BY DEF Local
<1>2. CASE k.partition = p
  BY <1>2 DEF IsSource
<1>3. CASE k.partition = Shared
  <2>1. SourceIsLive(shared, k.slot)
    <3>1. CASE p = Shared
      BY <3>1, LocalOfShared
    <3>2. ASSUME NEW i \in DOMAIN owners, p = owners[i].key PROVE SourceIsLive(shared, k.slot)
      BY <1>3, <3>2, Partitions, LocalOfOwner
    <3> QED BY <3>1, <3>2 DEF Local, OwnerIndex
  <2> QED BY <1>3, <2>1, LocalOfShared DEF IsSource
<1> QED BY <1>1, <1>2, <1>3

\* A partition knows a source by one slot.
LEMMA LocalUnique ==
  ASSUME ViewInv, NEW k, NEW p, NEW n, NEW m, Local(k, p, n), Local(k, p, m)
  PROVE  n = m
<1>1. CASE p = Shared
  BY <1>1, LocalOfShared
<1>2. ASSUME NEW i \in DOMAIN owners, p = owners[i].key PROVE n = m
  BY <1>2, Partitions, LocalOfOwner
<1> QED BY <1>1, <1>2 DEF Local, OwnerIndex

\* Two keys of one partition that are both live are different in their slot.
LEMMA LiveConsumers ==
  ASSUME NEW g, NEW k \in Ids, NEW c \in Ids, k.partition = c.partition,
         ConsumerIsLive(g, k.slot), ConsumerIsLive(g, c.slot), k.slot.slot = c.slot.slot
  PROVE  k = c
<1>1. k.slot.generation = c.slot.generation
  BY DEF ConsumerIsLive, NodeIsLive
<1> QED BY <1>1, IdRecord

\* clear_consumer and remove_consumer: the consumer c depends on nothing any more.
ColumnCleared(g, h, c) ==
  /\ ConsumerIsLive(g, c.slot)
  /\ h.rows = ClearColumn(g.rows, c.slot.slot)
  /\ DOMAIN h.consumers = DOMAIN g.consumers
  /\ \A s \in DOMAIN g.consumers : s # c.slot.slot => h.consumers[s] = g.consumers[s]
  /\ \A id : id # c.slot => (id \in Entries(h) <=> id \in Entries(g))

LEMMA OthersKept ==
  ASSUME ViewInv, ViewInv', QuietStep, NEW c \in Ids, NEW g, NEW h,
         OneChanges(c.partition, g, h), ColumnCleared(g, h, c),
         c.slot.slot \in DOMAIN h.consumers,
         h.consumers[c.slot.slot].generation = c.slot.generation
  PROVE  /\ depEdges' = {d \in depEdges : d[2] # c}
         /\ \A k \in Ids : k # c => SameConsumer(k)
         /\ depSources' = depSources
<1> PICK p : p = c.partition
  OBVIOUS
<1>1. OneChanges(p, g, h) /\ Pair(p, g, h)
  <2>1. c.partition = p
    OBVIOUS
  <2> QED BY <2>1 DEF OneChanges, Pair
<1>2. ASSUME NEW k \in Ids, k # c PROVE SameConsumer(k)
  <2>1. CASE k.partition # p
    BY <1>1, <2>1 DEF OneChanges
  <2>2. CASE k.partition = p
    <3>1. /\ ConsumerIsLive(h, k.slot) <=> ConsumerIsLive(g, k.slot)
          /\ ConsumerIsLive(g, k.slot) =>
               /\ k.slot.slot # c.slot.slot
               /\ h.consumers[k.slot.slot].target = g.consumers[k.slot.slot].target
      <4>1. CASE k.slot.slot # c.slot.slot
        BY <4>1 DEF ColumnCleared, ConsumerIsLive, NodeIsLive
      <4>2. CASE k.slot.slot = c.slot.slot
        <5>1. k.slot.generation # c.slot.generation
          BY <1>2, <2>2, <4>2, IdRecord
        <5> QED BY <4>2, <5>1 DEF ColumnCleared, ConsumerIsLive, NodeIsLive
      <4> QED BY <4>1, <4>2
    <3>2. \A t : HasTarget(k, t)' <=> HasTarget(k, t)
      BY <1>1, <2>2, <3>1, PairSeen
    <3>3. k.slot # c.slot
      BY <1>2, <2>2, IdRecord
    <3>4. IsDue(k)' <=> IsDue(k)
      BY <1>1, <2>2, <3>3, PairSeen DEF ColumnCleared
    <3>5. ConsumerIsLive(g, k.slot) =>
            \A n : <<n, k.slot.slot>> \in h.rows <=> <<n, k.slot.slot>> \in g.rows
      BY <3>1 DEF ColumnCleared, ClearColumn
    <3>6. \A j \in Ids : DependsOn(j, k)' <=> DependsOn(j, k)
      BY <1>1, <2>2, <3>1, <3>5, PairSeen, LocalQuiet
    <3> QED BY <3>2, <3>4, <3>6 DEF SameConsumer
  <2> QED BY <2>1, <2>2
<1>3. ASSUME NEW j \in Ids PROVE ~DependsOn(j, c)'
  <2>1. DependsOn(j, c)' <=> /\ ConsumerIsLive(h, c.slot)
                            /\ \E n : Local(j, p, n)' /\ <<n, c.slot.slot>> \in h.rows
    BY <1>1, PairSeen
  <2>2. \A n : <<n, c.slot.slot>> \notin h.rows
    BY DEF ColumnCleared, ClearColumn
  <2> QED BY <2>1, <2>2
<1>4. Viewed /\ Viewed'
  BY Views, ViewsPrimed
<1>5. depEdges' = {d \in depEdges : d[2] # c}
  <2>1. ASSUME NEW e \in Ids \X Ids
        PROVE  DependsOn(e[1], e[2])' <=> DependsOn(e[1], e[2]) /\ e[2] # c
    <3>1. e[1] \in Ids /\ e[2] \in Ids
      OBVIOUS
    <3> QED BY <1>2, <1>3, <3>1 DEF SameConsumer
  <2> QED BY <1>4, <2>1 DEF Viewed
<1>6. depSources' = depSources
  BY <1>4, LocalQuiet, SourcesStay
<1> QED BY <1>2, <1>5, <1>6

LEMMA ClearedIsClear ==
  ASSUME ViewInv, ViewInv', QuietStep, NEW c \in Ids, NEW g, NEW h,
         OneChanges(c.partition, g, h), ConsumerIsLive(g, c.slot), h = ClearConsumer(g, c.slot)
  PROVE  Dep!ClearConsumer
<1>1. /\ h.rows = ClearColumn(g.rows, c.slot.slot)
      /\ h.consumers = g.consumers /\ Entries(h) = Entries(g)
  BY ClearConsumerEffect DEF OneChanges, Entries
<1>2. ColumnCleared(g, h, c)
  BY <1>1 DEF ColumnCleared
<1>3. /\ c.slot.slot \in DOMAIN h.consumers
      /\ h.consumers[c.slot.slot].generation = c.slot.generation
  BY <1>1 DEF ConsumerIsLive, NodeIsLive
<1>4. /\ depEdges' = {d \in depEdges : d[2] # c} /\ depSources' = depSources
      /\ \A k \in Ids : k # c => SameConsumer(k)
  BY <1>2, <1>3, OthersKept
<1>5. Pair(c.partition, g, h)
  BY DEF OneChanges
<1>6. /\ \A t : HasTarget(c, t)' <=> HasTarget(c, t)
      /\ IsDue(c)' <=> IsDue(c)
  BY <1>1, <1>5, PairSeen DEF ConsumerIsLive
<1>7. Viewed /\ Viewed'
  BY Views, ViewsPrimed
<1>8. depConsumers' = depConsumers /\ depPending' = depPending
  BY <1>4, <1>6, <1>7, ConsumersStay, DueStays DEF SameConsumer
<1>9. c \in DOMAIN depConsumers
  <2>1. UsableConsumer(c)
    BY <1>5 DEF Pair, UsableConsumer
  <2> QED BY <1>7, <2>1 DEF Viewed
<1> QED BY <1>4, <1>8, <1>9 DEF Dep!ClearConsumer

LEMMA RemovedIsRemoved ==
  ASSUME ViewInv, ViewInv', QuietStep, NEW c \in Ids, NEW g, NEW h,
         OneChanges(c.partition, g, h), ConsumerIsLive(g, c.slot), h = RemoveConsumer(g, c.slot)
  PROVE  Dep!RemoveConsumer
<1>1. /\ NodeRemoved(g.consumers, h.consumers, c.slot)
      /\ h.rows = ClearColumn(g.rows, c.slot.slot) /\ Entries(h) = Entries(g) \ {c.slot}
  BY RemoveConsumerEffect DEF OneChanges
<1>2. ColumnCleared(g, h, c)
  BY <1>1 DEF ColumnCleared, NodeRemoved
<1>3. /\ c.slot.slot \in DOMAIN h.consumers
      /\ h.consumers[c.slot.slot].generation = c.slot.generation
  BY <1>1 DEF ConsumerIsLive, NodeIsLive, NodeRemoved
<1>4. /\ depEdges' = {d \in depEdges : d[2] # c} /\ depSources' = depSources
      /\ \A k \in Ids : k # c => SameConsumer(k)
  BY <1>2, <1>3, OthersKept
<1>5. Pair(c.partition, g, h)
  BY DEF OneChanges
<1>6. (\A t : ~HasTarget(c, t)') /\ ~IsDue(c)'
  <2>1. ~ConsumerIsLive(h, c.slot)
    BY <1>1 DEF NodeRemoved, ConsumerIsLive, NodeIsLive
  <2> QED BY <1>1, <1>5, <2>1, PairSeen
<1>7. Viewed /\ Viewed'
  BY Views, ViewsPrimed
<1>8. depPending' = depPending \ {c}
  BY <1>4, <1>6, <1>7 DEF SameConsumer, Viewed
<1>9. c \in DOMAIN depConsumers
  <2>1. UsableConsumer(c)
    BY <1>5 DEF Pair, UsableConsumer
  <2> QED BY <1>7, <2>1 DEF Viewed
<1>10. depConsumers' = [k \in DOMAIN depConsumers \ {c} |-> depConsumers[k]]
  <2> DEFINE S == {j \in Ids : UsableConsumer(j)}
             T == {j \in Ids : UsableConsumer(j)'}
  <2>1. depConsumers = [k \in S |-> depConsumers[k]] /\ depConsumers' = [k \in T |-> depConsumers'[k]]
    BY <1>7 DEF Viewed
  <2>2. ASSUME NEW k \in Ids, k # c
        PROVE  /\ UsableConsumer(k)' <=> UsableConsumer(k)
               /\ UsableConsumer(k) => depConsumers'[k] = depConsumers[k]
    <3>1. \A t : HasTarget(k, t)' <=> HasTarget(k, t)
      BY <1>4, <2>2 DEF SameConsumer
    <3>2. \A t : /\ HasTarget(k, t) => UsableConsumer(k) /\ depConsumers[k] = t
                 /\ HasTarget(k, t)' => UsableConsumer(k)' /\ depConsumers'[k] = t
      BY <1>7 DEF Viewed
    <3> QED BY <3>1, <3>2, UsableHasTarget, UsableHasTargetPrimed
  <2>3. ~UsableConsumer(c)'
    BY <1>6, UsableHasTargetPrimed
  <2>4. T = S \ {c}
    BY <2>2, <2>3
  <2>5. \A k \in T : depConsumers'[k] = depConsumers[k]
    BY <2>2, <2>4
  <2> HIDE DEF S, T
  <2> QED BY <2>1, <2>4, <2>5
<1> QED BY <1>4, <1>8, <1>9, <1>10 DEF Dep!RemoveConsumer

\* try_subscribe: the consumer depends on the source it was given, whether its
\* partition knows it by itself or by a proxy.
LEMMA SubscribedDepends ==
  ASSUME ViewInv, ViewInv', QuietStep, NEW c \in Ids, NEW s \in Ids, NEW g, NEW h, NEW id,
         OneChanges(c.partition, g, h), ConsumerIsLive(g, c.slot),
         Local(s, c.partition, id.slot), h = Subscribe(g, id, c.slot)
  PROVE  Dep!Subscribe
<1> PICK p : p = c.partition
  OBVIOUS
<1>1. OneChanges(p, g, h) /\ Pair(p, g, h)
  <2>1. c.partition = p
    OBVIOUS
  <2> QED BY <2>1 DEF OneChanges, Pair
<1>2. /\ h.rows = g.rows \cup {<<id.slot, c.slot.slot>>}
      /\ h.consumers = g.consumers /\ Entries(h) = Entries(g)
  BY <1>1, SubscribeEffect DEF OneChanges, Entries
<1>3. ASSUME NEW k \in Ids
      PROVE  /\ \A t : HasTarget(k, t)' <=> HasTarget(k, t)
             /\ IsDue(k)' <=> IsDue(k)
  <2>1. CASE k.partition # p
    BY <1>1, <2>1 DEF OneChanges, SameConsumer
  <2>2. CASE k.partition = p
    BY <1>1, <1>2, <2>2, PairSeen DEF ConsumerIsLive
  <2> QED BY <2>1, <2>2
<1>4. ASSUME NEW j \in Ids, NEW k \in Ids
      PROVE  DependsOn(j, k)' <=> DependsOn(j, k) \/ (j = s /\ k = c)
  <2>1. CASE k.partition # p
    BY <1>1, <2>1 DEF OneChanges, SameConsumer
  <2>2. CASE k.partition = p
    <3>1. /\ DependsOn(j, k) <=> /\ ConsumerIsLive(g, k.slot)
                                 /\ \E n : Local(j, p, n) /\ <<n, k.slot.slot>> \in g.rows
          /\ DependsOn(j, k)' <=> /\ ConsumerIsLive(g, k.slot)
                                  /\ \E n : Local(j, p, n)' /\ <<n, k.slot.slot>> \in h.rows
      <4>0. Pair(p, g, h) /\ k.partition = p
        BY <1>1, <2>2
      <4>1. DependsOn(j, k) <=> /\ ConsumerIsLive(g, k.slot)
                                /\ \E n : Local(j, p, n) /\ <<n, k.slot.slot>> \in g.rows
        BY <4>0, PairDepends
      <4>2. DependsOn(j, k)' <=> /\ ConsumerIsLive(h, k.slot)
                                 /\ \E n : Local(j, p, n)' /\ <<n, k.slot.slot>> \in h.rows
        BY <4>0, PairSeen
      <4>3. ConsumerIsLive(h, k.slot) <=> ConsumerIsLive(g, k.slot)
        BY <1>2 DEF ConsumerIsLive
      <4> QED BY <4>1, <4>2, <4>3
    <3>2. \A n : Local(j, p, n)' <=> Local(j, p, n)
      BY LocalQuiet
    <3>3. ASSUME ConsumerIsLive(g, k.slot), NEW n, Local(j, p, n), n = id.slot,
                 k.slot.slot = c.slot.slot
          PROVE  j = s /\ k = c
      BY <2>2, <3>3, LocalInjective, LiveConsumers
    <3>4. \A n, m : <<n, m>> \in h.rows <=>
                      <<n, m>> \in g.rows \/ (n = id.slot /\ m = c.slot.slot)
      BY <1>2
    <3>5. (j = s /\ k = c) => Local(j, p, id.slot) /\ ConsumerIsLive(g, k.slot)
      OBVIOUS
    <3> QED BY <3>1, <3>2, <3>3, <3>4, <3>5
  <2> QED BY <2>1, <2>2
<1>5. Viewed /\ Viewed'
  BY Views, ViewsPrimed
<1>6. depEdges' = depEdges \cup {<<s, c>>}
  <2>1. ASSUME NEW e \in Ids \X Ids
        PROVE  DependsOn(e[1], e[2])' <=> DependsOn(e[1], e[2]) \/ e = <<s, c>>
    <3>1. e[1] \in Ids /\ e[2] \in Ids /\ e = <<e[1], e[2]>>
      OBVIOUS
    <3> QED BY <1>4, <3>1
  <2> QED BY <1>5, <2>1 DEF Viewed
<1>7. depSources' = depSources /\ depConsumers' = depConsumers /\ depPending' = depPending
  BY <1>3, <1>5, LocalQuiet, SourcesStay, ConsumersStay, DueStays
<1>8. s \in depSources /\ s.partition \in {Shared, c.partition}
  BY <1>5, LocalIsSource DEF Viewed
<1>9. c \in DOMAIN depConsumers
  <2>1. UsableConsumer(c)
    BY <1>1 DEF Pair, UsableConsumer
  <2> QED BY <1>5, <2>1 DEF Viewed
<1> QED BY <1>6, <1>7, <1>8, <1>9 DEF Dep!Subscribe, Dep!MayDepend

-----------------------------------------------------------------------------
(***************************************************************************)
(* The consumer's calls.                                                   *)
(***************************************************************************)
LEMMA RegisterConsumerImplements ==
  ASSUME ViewInv, ViewInv', QuietStep, NEW key, NEW target \in Subscriber,
         RegisterConsumer(key, target)
  PROVE  Dep!AddConsumer
<1>1. CASE key = Shared /\ CanAddConsumer(shared) /\ shared' = AddConsumer(shared, target)
           /\ UNCHANGED owners
  <2>1. OneChanges(Shared, shared, AddConsumer(shared, target))
    BY <1>1, SharedSet
  <2> QED BY <1>1, <2>1, RegisteredIsAdded
<1>2. ASSUME NEW i \in OwnerIndex(key), CanAddConsumer(owners[i].graph),
             SetGraph(i, AddConsumer(owners[i].graph, target)), UNCHANGED shared
      PROVE  Dep!AddConsumer
  <2>1. OneChanges(key, owners[i].graph, AddConsumer(owners[i].graph, target))
    BY <1>2, OwnerSet
  <2> QED BY <1>2, <2>1, RegisteredIsAdded
<1> QED BY <1>1, <1>2 DEF RegisterConsumer, OnPartition

LEMMA ClearConsumerImplements ==
  ASSUME ViewInv, ViewInv', QuietStep, NEW c \in Ids, ClearConsumerEdges(c)
  PROVE  Dep!ClearConsumer
<1>1. CASE c.partition = Shared /\ ConsumerIsLive(shared, c.slot)
           /\ shared' = ClearConsumer(shared, c.slot) /\ UNCHANGED owners
  <2>1. OneChanges(Shared, shared, ClearConsumer(shared, c.slot))
    BY <1>1, SharedSet
  <2> QED BY <1>1, <2>1, ClearedIsClear
<1>2. ASSUME NEW i \in OwnerIndex(c.partition), ConsumerIsLive(owners[i].graph, c.slot),
             SetGraph(i, ClearConsumer(owners[i].graph, c.slot)), UNCHANGED shared
      PROVE  Dep!ClearConsumer
  <2>1. OneChanges(c.partition, owners[i].graph, ClearConsumer(owners[i].graph, c.slot))
    BY <1>2, OwnerSet
  <2> QED BY <1>2, <2>1, ClearedIsClear
<1> QED BY <1>1, <1>2 DEF ClearConsumerEdges, OnPartition

LEMMA RemoveConsumerImplements ==
  ASSUME ViewInv, ViewInv', QuietStep, NEW c \in Ids, RemoveConsumerNode(c)
  PROVE  Dep!RemoveConsumer
<1>1. CASE c.partition = Shared /\ ConsumerIsLive(shared, c.slot)
           /\ shared' = RemoveConsumer(shared, c.slot) /\ UNCHANGED owners
  <2>1. OneChanges(Shared, shared, RemoveConsumer(shared, c.slot))
    BY <1>1, SharedSet
  <2> QED BY <1>1, <2>1, RemovedIsRemoved
<1>2. ASSUME NEW i \in OwnerIndex(c.partition), ConsumerIsLive(owners[i].graph, c.slot),
             SetGraph(i, RemoveConsumer(owners[i].graph, c.slot)), UNCHANGED shared
      PROVE  Dep!RemoveConsumer
  <2>1. OneChanges(c.partition, owners[i].graph, RemoveConsumer(owners[i].graph, c.slot))
    BY <1>2, OwnerSet
  <2> QED BY <1>2, <2>1, RemovedIsRemoved
<1> QED BY <1>1, <1>2 DEF RemoveConsumerNode, OnPartition

LEMMA SubscribeSharedImplements ==
  ASSUME ViewInv, ViewInv', QuietStep, NEW s \in Ids, NEW c \in Ids, SubscribeShared(s, c)
  PROVE  Dep!Subscribe
<1>1. /\ s.partition = Shared /\ c.partition = Shared
      /\ SourceIsLive(shared, s.slot) /\ ConsumerIsLive(shared, c.slot)
      /\ shared' = Subscribe(shared, s.slot, c.slot) /\ UNCHANGED owners
  BY Partitions DEF SubscribeShared, OnPartition
<1>2. OneChanges(Shared, shared, Subscribe(shared, s.slot, c.slot))
  BY <1>1, SharedSet
<1>3. Local(s, Shared, s.slot.slot)
  BY <1>1, LocalOfShared
<1> QED BY <1>1, <1>2, <1>3, SubscribedDepends

\* A source is known to an owner by the slot LocalSource names.
LEMMA LocalSourceIsLocal ==
  ASSUME ViewInv, NEW i \in DOMAIN owners, NEW s \in SourceKeys,
         \/ s.partition = Shared /\ SourceIsLive(shared, s.slot)
         \/ s.partition = owners[i].key,
         SourceIsLive(owners[i].graph, LocalSource(s, i))
  PROVE  Local(s, owners[i].key, LocalSource(s, i).slot)
<1>1. owners[i].key # Shared
  BY Partitions
<1>2. CASE s.partition = Shared /\ SourceIsLive(shared, s.slot)
  <2>1. s.slot.slot \in DOMAIN shared.sources /\ shared.sources[s.slot.slot].live
    BY <1>2 DEF SourceIsLive, NodeIsLive
  <2>2. LocalSource(s, i) = owners[i].sharedSources[s.slot.slot]
    <3> DEFINE n == s.slot.slot
    <3>1. n \in DOMAIN shared.sources /\ shared.sources[n].live
      BY <2>1
    <3>2. LocalSource(s, i) = ProxyIn(owners[i], n)
      BY <1>2 DEF LocalSource
    <3> HIDE DEF n
    <3>3. ProxyIn(owners[i], n) = owners[i].sharedSources[n]
      BY <3>1, ProxyFacts
    <3> QED BY <3>2, <3>3 DEF n
  <2> QED BY <1>2, <2>2, LocalOfOwner
<1>3. CASE s.partition = owners[i].key
  <2>1. LocalSource(s, i) = s.slot /\ s.slot \notin Proxies(owners[i])
    BY <1>1, <1>3 DEF LocalSource, SourceKeys
  <2> QED BY <1>3, <2>1, LocalOfOwner DEF OwnSource
<1> QED BY <1>2, <1>3

LEMMA SubscribeInOwnerImplements ==
  ASSUME ViewInv, ViewInv', QuietStep, NEW s \in SourceKeys, NEW c \in Keys,
         SubscribeInOwner(s, c)
  PROVE  Dep!Subscribe
<1>1. PICK i \in OwnerIndex(c.partition) :
        /\ \/ s.partition = Shared /\ SourceIsLive(shared, s.slot)
           \/ s.partition = c.partition
        /\ SourceIsLive(owners[i].graph, LocalSource(s, i))
        /\ ConsumerIsLive(owners[i].graph, c.slot)
        /\ SetGraph(i, Subscribe(owners[i].graph, LocalSource(s, i), c.slot))
        /\ UNCHANGED shared
  BY DEF SubscribeInOwner
<1>2. i \in DOMAIN owners /\ owners[i].key = c.partition
  BY DEF OwnerIndex
<1>3. Local(s, c.partition, LocalSource(s, i).slot)
  BY <1>1, <1>2, LocalSourceIsLocal
<1>4. OneChanges(c.partition, owners[i].graph,
                 Subscribe(owners[i].graph, LocalSource(s, i), c.slot))
  BY <1>1, OwnerSet
<1>5. s \in Ids /\ c \in Ids
  BY KeysAreIds DEF SourceKeys
<1> QED BY <1>1, <1>3, <1>4, <1>5, SubscribedDepends

-----------------------------------------------------------------------------
(***************************************************************************)
(* Publication: a consumer that was due stays due, and every dependent of  *)
(* the kind is due afterwards, whatever the flags and the queue held.      *)
(***************************************************************************)
LEMMA PublishedEntries ==
  ASSUME NEW g, GraphInv(g), NEW source, NEW kind, NEW id \in SlotIds
  PROVE  id \in Entries(PublishChecked(g, source, kind)) <=>
           \/ id \in Entries(g)
           \/ /\ ConsumerIsLive(g, id) /\ <<source.slot, id.slot>> \in g.rows
              /\ Matches(kind, g.consumers[id.slot].target)
<1> DEFINE Fresh == {[slot |-> c, generation |-> g.consumers[c].generation] :
                       c \in Awakened(g, source, kind)}
<1>1. Entries(PublishChecked(g, source, kind)) = Entries(g) \cup Fresh
  BY PublishCheckedEffect
<1>2. ASSUME id \in Fresh
      PROVE  /\ ConsumerIsLive(g, id) /\ <<source.slot, id.slot>> \in g.rows
             /\ Matches(kind, g.consumers[id.slot].target)
  <2>1. PICK c \in Awakened(g, source, kind) :
          id = [slot |-> c, generation |-> g.consumers[c].generation]
    BY <1>2
  <2>2. id.slot = c /\ id.generation = g.consumers[c].generation
    BY <2>1
  <2> QED BY <2>2 DEF Awakened, ConsumerIsLive, NodeIsLive
<1>3. ASSUME ConsumerIsLive(g, id), <<source.slot, id.slot>> \in g.rows,
             Matches(kind, g.consumers[id.slot].target)
      PROVE  id \in Entries(g) \/ id \in Fresh
  <2> DEFINE c == id.slot
  <2>1. c \in DOMAIN g.consumers /\ g.consumers[c].live
        /\ g.consumers[c].generation = id.generation
    BY <1>3 DEF ConsumerIsLive, NodeIsLive
  <2>2. CASE g.consumers[c].pending
    <3>1. PICK i \in DOMAIN g.pending : g.pending[i].slot = c
      BY <2>1, <2>2 DEF GraphInv, QueueExact, FlaggedAreQueued
    <3>2. ConsumerIsLive(g, g.pending[i]) /\ g.pending[i] \in SlotId
      BY DEF GraphInv, QueueExact, QueueEntriesFlagged, GraphTypeOK, Graph
    <3>3. g.pending[i].generation = id.generation
      BY <2>1, <3>1, <3>2 DEF ConsumerIsLive, NodeIsLive
    <3>4. g.pending[i] = id
      BY <3>1, <3>2, <3>3, SlotIdRecord DEF SlotId
    <3> QED BY <3>4 DEF Entries
  <2>3. CASE ~g.consumers[c].pending
    <3>1. c \in Awakened(g, source, kind)
      BY <1>3, <2>1, <2>3 DEF Awakened
    <3>2. id = [slot |-> c, generation |-> g.consumers[c].generation]
      BY <2>1, SlotIdRecord
    <3> QED BY <3>1, <3>2
  <2> QED BY <2>2, <2>3
<1> HIDE DEF Fresh
<1> QED BY <1>1, <1>2, <1>3

\* The consumer is a dependent of the source, of the kind that is published.
Woken(s, kind, c) == DependsOn(s, c) /\ \A t : HasTarget(c, t) => Matches(kind, t)

Publishes(s, kind, c) ==
  /\ \A t : HasTarget(c, t)' <=> HasTarget(c, t)
  /\ \A k \in Ids : DependsOn(k, c)' <=> DependsOn(k, c)
  /\ IsDue(c)' <=> IsDue(c) \/ Woken(s, kind, c)

LEMMA PublishSeen ==
  ASSUME ViewInv, ViewInv', QuietStep, NEW p, NEW g, NEW h, Pair(p, g, h), GraphInv(g),
         NEW source, NEW kind, h = PublishChecked(g, source, kind),
         NEW s \in Ids, Local(s, p, source.slot), NEW c \in Ids, c.partition = p
  PROVE  Publishes(s, kind, c)
<1>1. OnlyFlags(g.consumers, h.consumers) /\ h.rows = g.rows
  BY PublishCheckedEffect
<1>2. /\ ConsumerIsLive(h, c.slot) <=> ConsumerIsLive(g, c.slot)
      /\ ConsumerIsLive(g, c.slot) =>
           h.consumers[c.slot.slot].target = g.consumers[c.slot.slot].target
  BY <1>1, ConsumersAlike
<1>3. \A t : HasTarget(c, t)' <=> HasTarget(c, t)
  BY <1>2, PairSeen
<1>4. \A k \in Ids : DependsOn(k, c)' <=> DependsOn(k, c)
  <2>1. ASSUME NEW k \in Ids PROVE DependsOn(k, c)' <=> DependsOn(k, c)
    <3>1. DependsOn(k, c)' <=> /\ ConsumerIsLive(h, c.slot)
                              /\ \E n : Local(k, p, n)' /\ <<n, c.slot.slot>> \in h.rows
      BY PairSeen
    <3>2. DependsOn(k, c) <=> /\ ConsumerIsLive(g, c.slot)
                             /\ \E n : Local(k, p, n) /\ <<n, c.slot.slot>> \in g.rows
      BY PairDepends
    <3>3. \A n : Local(k, p, n)' <=> Local(k, p, n)
      BY LocalQuiet
    <3> QED BY <1>1, <1>2, <3>1, <3>2, <3>3
  <2> QED BY <2>1
<1>5. DependsOn(s, c) <=> ConsumerIsLive(g, c.slot) /\ <<source.slot, c.slot.slot>> \in g.rows
  <2>1. DependsOn(s, c) <=> /\ ConsumerIsLive(g, c.slot)
                           /\ \E n : Local(s, p, n) /\ <<n, c.slot.slot>> \in g.rows
    BY PairDepends
  <2>2. \A n : Local(s, p, n) => n = source.slot
    BY LocalUnique
  <2> QED BY <2>1, <2>2
<1>6. ConsumerIsLive(g, c.slot) =>
        ((\A t : HasTarget(c, t) => Matches(kind, t)) <=>
           Matches(kind, g.consumers[c.slot.slot].target))
  BY PairSeen
<1>7. c.slot \in Entries(h) <=>
        \/ c.slot \in Entries(g)
        \/ /\ ConsumerIsLive(g, c.slot) /\ <<source.slot, c.slot.slot>> \in g.rows
           /\ Matches(kind, g.consumers[c.slot.slot].target)
  BY IdRecord, PublishedEntries
<1>8. (IsDue(c) <=> c.slot \in Entries(g)) /\ (IsDue(c)' <=> c.slot \in Entries(h))
  BY PairSeen
<1> QED BY <1>3, <1>4, <1>5, <1>6, <1>7, <1>8 DEF Publishes, Woken

LEMMA PublishedIsPublished ==
  ASSUME ViewInv, ViewInv', QuietStep, NEW s \in Ids, IsSource(s), NEW kind \in {"Any", "Computed"},
         \A c \in Ids : Publishes(s, kind, c)
  PROVE  Dep!Publish
<1>1. Viewed /\ Viewed'
  BY Views, ViewsPrimed
<1>2. depSources' = depSources
  BY <1>1, LocalQuiet, SourcesStay
<1>3. depConsumers' = depConsumers /\ depEdges' = depEdges
  BY <1>1, ConsumersStay, EdgesStay DEF Publishes
<1>4. s \in depSources
  BY <1>1 DEF Viewed
<1> DEFINE W == {c \in DOMAIN depConsumers :
                   <<s, c>> \in depEdges /\ Dep!OfKind(kind, depConsumers[c])}
<1>5. ASSUME NEW c \in Ids PROVE c \in W <=> Woken(s, kind, c)
  <2>1. <<s, c>> \in depEdges <=> DependsOn(s, c)
    <3>1. <<s, c>> \in Ids \X Ids /\ <<s, c>>[1] = s /\ <<s, c>>[2] = c
      OBVIOUS
    <3> QED BY <1>1, <3>1 DEF Viewed
  <2>2. c \in DOMAIN depConsumers <=> UsableConsumer(c)
    BY <1>1 DEF Viewed
  <2>3. DependsOn(s, c) => UsableConsumer(c)
    BY DEF DependsOn, UsableConsumer
  <2>4. \A t : HasTarget(c, t) => depConsumers[c] = t
    BY <1>1 DEF Viewed
  <2>5. UsableConsumer(c) => HasTarget(c, depConsumers[c])
    BY <2>4, UsableHasTarget
  <2>6. \A t : Dep!OfKind(kind, t) <=> Matches(kind, t)
    BY DEF Dep!OfKind, Matches
  <2> QED BY <2>1, <2>2, <2>3, <2>4, <2>5, <2>6 DEF Woken
<1>6. W \subseteq Ids
  BY <1>1 DEF Viewed
<1> HIDE DEF W
<1>7. depPending' = depPending \cup W
  BY <1>1, <1>5, <1>6 DEF Viewed, Publishes
<1> QED BY <1>2, <1>3, <1>4, <1>7 DEF Dep!Publish, W

LEMMA PublishOwnerImplements ==
  ASSUME ViewInv, ViewInv', NEW s \in SourceKeys, NEW kind \in {"Any", "Computed"},
         PublishOwner(s, kind)
  PROVE  Dep!Publish
<1>0. QuietStep
  BY PublishOwnerQuiet DEF ViewInv, IdentityInv
<1>1. PICK i \in OwnerIndex(s.partition) :
        /\ SourceIsLive(owners[i].graph, s.slot)
        /\ SetGraph(i, PublishChecked(owners[i].graph, s.slot, kind))
        /\ UNCHANGED shared
  BY DEF PublishOwner, CheckPublish
<1> DEFINE g == owners[i].graph
           h == PublishChecked(owners[i].graph, s.slot, kind)
<1>2. i \in DOMAIN owners /\ owners[i].key = s.partition
  BY DEF OwnerIndex
<1>3. OneChanges(s.partition, g, h)
  BY <1>0, <1>1, OwnerSet
<1>4. s \in Ids /\ s.partition # Shared /\ s.slot \notin Proxies(owners[i])
  BY <1>2, KeysAreIds, Partitions DEF SourceKeys
<1>5. Local(s, s.partition, s.slot.slot)
  BY <1>1, <1>2, <1>4, LocalOfOwner DEF OwnSource
<1>6. ASSUME NEW c \in Ids PROVE Publishes(s, kind, c)
  <2>1. CASE c.partition = s.partition
    BY <1>0, <1>3, <1>4, <1>5, <2>1, PublishSeen DEF OneChanges
  <2>2. CASE c.partition # s.partition
    <3>1. SameConsumer(c)
      BY <1>3, <2>2 DEF OneChanges
    <3>2. ~DependsOn(s, c)
      BY <1>4, <2>2 DEF DependsOn, Local
    <3> QED BY <3>1, <3>2 DEF SameConsumer, Publishes, Woken
  <2> QED BY <2>1, <2>2
<1>7. IsSource(s)
  BY <1>5 DEF IsSource
<1> QED BY <1>0, <1>4, <1>6, <1>7, PublishedIsPublished

LEMMA PublishSharedImplements ==
  ASSUME ViewInv, ViewInv', NEW s \in SourceKeys, NEW kind \in {"Any", "Computed"},
         PublishShared(s, kind)
  PROVE  Dep!Publish
<1>0. QuietStep
  BY PublishSharedQuiet DEF ViewInv, IdentityInv
<1> DEFINE n == s.slot.slot
<1>1. /\ s.partition = Shared /\ SourceIsLive(shared, s.slot)
      /\ shared' = PublishChecked(shared, s.slot, kind)
  BY DEF PublishShared, CheckPublish
<1>2. s \in Ids /\ n \in DOMAIN shared.sources /\ shared.sources[n].live
  BY <1>1, KeysAreIds DEF SourceKeys, SourceIsLive, NodeIsLive
<1>3. ASSUME NEW i \in DOMAIN owners
      PROVE  /\ owners'[i].graph =
                  PublishChecked(owners[i].graph, ProxyIn(owners[i], n), kind)
             /\ Local(s, owners[i].key, ProxyIn(owners[i], n).slot)
             /\ GraphInv(owners[i].graph)
  <2>1. owners[i] \in Owner /\ GraphInv(owners[i].graph)
    BY OwnerTypes, OwnerGraphInv DEF ViewInv, IdentityInv
  <2>2. owners'[i] = [owners[i] EXCEPT !.graph =
                        PublishChecked(owners[i].graph, ProxyIn(owners[i], n), kind)]
    BY DEF PublishShared, MapOwners
  <2>3. ProxyIn(owners[i], n) = owners[i].sharedSources[n]
    <3> HIDE DEF n
    <3> QED BY <1>2, ProxyFacts
  <2>4. Local(s, owners[i].key, ProxyIn(owners[i], n).slot)
    BY <1>1, <2>3, LocalOfOwner
  <2> QED BY <2>1, <2>2, <2>4, OwnerFields
<1>4. Local(s, Shared, s.slot.slot) /\ GraphInv(shared)
  BY <1>1, LocalOfShared, SharedGraphInv DEF ViewInv, IdentityInv
<1>5. ASSUME NEW c \in Ids PROVE Publishes(s, kind, c)
  <2>1. CASE GraphOf(c.partition) = {} /\ GraphOf(c.partition)' = {}
    <3>1. SameConsumer(c) /\ ~DependsOn(s, c)
      BY <2>1, NothingSeen DEF DependsOn
    <3> QED BY <3>1 DEF SameConsumer, Publishes, Woken
  <2>2. CASE c.partition = Shared /\ Pair(c.partition, shared, shared')
    BY <1>0, <1>1, <1>2, <1>4, <2>2, PublishSeen
  <2>3. ASSUME NEW i \in DOMAIN owners, c.partition = owners[i].key,
               Pair(c.partition, owners[i].graph, owners'[i].graph)
        PROVE  Publishes(s, kind, c)
    <3>1. PICK p : p = c.partition
      OBVIOUS
    <3>2. PICK q : q = ProxyIn(owners[i], n)
      OBVIOUS
    <3>3. /\ Pair(p, owners[i].graph, owners'[i].graph)
          /\ owners'[i].graph = PublishChecked(owners[i].graph, q, kind)
          /\ Local(s, p, q.slot)
      BY <1>3, <2>3, <3>1, <3>2 DEF Pair
    <3> HIDE DEF n
    <3> QED BY <1>0, <1>2, <1>3, <3>1, <3>3, PublishSeen
  <2> QED BY <1>0, <2>1, <2>2, <2>3, Pairs, LocalQuiet
<1>6. IsSource(s)
  BY <1>1, <1>4 DEF IsSource
<1> QED BY <1>0, <1>2, <1>5, <1>6, PublishedIsPublished

-----------------------------------------------------------------------------
(***************************************************************************)
(* Taking: one consumer stops being due, or the scan goes unseen.          *)
(***************************************************************************)
LEMMA TakenIsTaken ==
  ASSUME ViewInv, ViewInv', QuietStep, NEW p, NEW g, NEW h, OneChanges(p, g, h),
         NEW kind, h = TakePendingKind(g, kind), Takeable(g, kind) # {}
  PROVE  Dep!Take
<1>1. /\ OnlyFlags(g.consumers, h.consumers) /\ h.rows = g.rows
      /\ \E e \in Entries(g) : Entries(h) = Entries(g) \ {e}
  BY TakePendingKindEffect DEF OneChanges
<1>2. PICK e \in Entries(g) : Entries(h) = Entries(g) \ {e}
  BY <1>1
<1>3. PICK c : c = [partition |-> p, slot |-> e]
  OBVIOUS
<1>4. Pair(p, g, h)
  BY DEF OneChanges
<1>5. c \in Ids /\ c.partition = p /\ c.slot = e
  <2>1. g \in GraphOf(p)
    BY <1>4 DEF Pair
  <2>2. /\ GraphInv(g) /\ CanAllocate(g.sourceLimit, g.consumerLimit)
        /\ p \in {Shared} \cup OwnerKeys
    BY <2>1, PartitionGraphs
  <2>3. e \in SlotId /\ ConsumerIsLive(g, e)
    BY <2>2 DEF Entries, GraphInv, QueueExact, QueueEntriesFlagged, GraphTypeOK, Graph
  <2>4. e = [slot |-> e.slot, generation |-> g.consumers[e.slot].generation]
        /\ e.slot \in DOMAIN g.consumers
    BY <2>3 DEF SlotId, ConsumerIsLive, NodeIsLive
  <2>5. e \in SlotIds
    BY <2>2, <2>4, GraphSlots
  <2> QED BY <1>3, <2>2, <2>5 DEF Ids, OwnerKeys
<1>6. ASSUME NEW k \in Ids
      PROVE  /\ \A t : HasTarget(k, t)' <=> HasTarget(k, t)
             /\ \A j \in Ids : DependsOn(j, k)' <=> DependsOn(j, k)
             /\ IsDue(k)' <=> IsDue(k) /\ k # c
  <2>1. CASE k.partition # p
    BY <1>5, <2>1 DEF OneChanges, SameConsumer
  <2>2. CASE k.partition = p
    <3>1. /\ ConsumerIsLive(h, k.slot) <=> ConsumerIsLive(g, k.slot)
          /\ ConsumerIsLive(g, k.slot) =>
               h.consumers[k.slot.slot].target = g.consumers[k.slot.slot].target
      BY <1>1, ConsumersAlike
    <3>2. \A t : HasTarget(k, t)' <=> HasTarget(k, t)
      BY <1>4, <2>2, <3>1, PairSeen
    <3>3. \A j \in Ids : DependsOn(j, k)' <=> DependsOn(j, k)
      BY <1>1, <1>4, <2>2, <3>1, PairSeen, LocalQuiet
    <3>4. k = c <=> k.slot = e
      BY <1>5, <2>2, IdRecord
    <3>5. IsDue(k)' <=> IsDue(k) /\ k # c
      BY <1>2, <1>4, <2>2, <3>4, PairSeen
    <3> QED BY <3>2, <3>3, <3>5
  <2> QED BY <2>1, <2>2
<1>7. Viewed /\ Viewed'
  BY Views, ViewsPrimed
<1>8. depSources' = depSources /\ depConsumers' = depConsumers /\ depEdges' = depEdges
  BY <1>6, <1>7, LocalQuiet, SourcesStay, ConsumersStay, EdgesStay
<1>9. IsDue(c)
  BY <1>4, <1>5, PairSeen
<1>10. c \in depPending /\ depPending' = depPending \ {c}
  BY <1>5, <1>6, <1>7, <1>9 DEF Viewed
<1> QED BY <1>8, <1>10 DEF Dep!Take

LEMMA IdleTake ==
  ASSUME NEW g, GraphInv(g), NEW kind, Takeable(g, kind) = {}
  PROVE  AlikeIn(g, TakePendingKind(g, kind))
BY TakePendingKindEffect DEF AlikeIn

LEMMA TakePendingImplements ==
  ASSUME ViewInv, ViewInv', NEW kind, TakePendingAnyKind(kind)
  PROVE  Dep!Take \/ UNCHANGED <<depSources, depConsumers, depEdges, depPending>>
<1> DEFINE ready == {i \in DOMAIN owners : Takeable(owners[i].graph, kind) # {}}
           turn == CHOOSE i \in ready : \A j \in ready : i <= j
           scanned == IF Takeable(shared, kind) # {} THEN {}
                      ELSE {i \in DOMAIN owners : ready # {} => i <= turn}
<1>0. PartitionInv /\ QuietStep
  BY TakePendingQuiet DEF ViewInv, IdentityInv
<1>1. /\ shared' = TakePendingKind(shared, kind)
      /\ \A i \in DOMAIN owners : owners'[i] =
           IF i \in scanned
             THEN [owners[i] EXCEPT !.graph = TakePendingKind(owners[i].graph, kind)]
             ELSE owners[i]
  BY DEF TakePendingAnyKind
<1>2. ASSUME NEW i \in DOMAIN owners
      PROVE  /\ owners[i] \in Owner /\ GraphInv(owners[i].graph)
             /\ i \in scanned => owners'[i].graph = TakePendingKind(owners[i].graph, kind)
             /\ i \notin scanned => owners'[i].graph = owners[i].graph
  <2>1. owners[i] \in Owner /\ GraphInv(owners[i].graph)
    BY <1>0, OwnerTypes, OwnerGraphInv
  <2> HIDE DEF scanned
  <2>2. CASE i \in scanned
    <3>1. owners'[i] = [owners[i] EXCEPT !.graph = TakePendingKind(owners[i].graph, kind)]
      BY <1>1, <2>2
    <3> QED BY <2>1, <2>2, <3>1, OwnerFields
  <2>3. CASE i \notin scanned
    BY <1>1, <2>1, <2>3
  <2> QED BY <2>1, <2>2, <2>3
<1>3. GraphInv(shared)
  BY <1>0, SharedGraphInv
<1>4. ready \in SUBSET Nat /\ ready \subseteq DOMAIN owners
  BY <1>0, OwnerTypes
<1>5. ready # {} => turn \in ready /\ \A j \in ready : turn <= j
  <2> HIDE DEF ready
  <2> QED BY <1>4, LeastNatural
<1> HIDE DEF turn
<1>6. CASE Takeable(shared, kind) # {}
  <2>1. \A i \in DOMAIN owners : owners'[i].graph = owners[i].graph
    BY <1>2, <1>6
  <2>2. OneChanges(Shared, shared, shared')
    BY <1>0, <2>1, SameAlike, SharedAlone
  <2> QED BY <1>0, <1>1, <1>6, <2>2, TakenIsTaken
<1>7. CASE Takeable(shared, kind) = {} /\ ready = {}
  <2>1. AlikeIn(shared, shared')
    BY <1>1, <1>3, <1>7, IdleTake
  <2>2. \A i \in DOMAIN owners : AlikeIn(owners[i].graph, owners'[i].graph)
    BY <1>2, <1>7, SameAlike, IdleTake
  <2> QED BY <1>0, <2>1, <2>2, AlikeEverywhere
<1>8. CASE Takeable(shared, kind) = {} /\ ready # {}
  <2>1. AlikeIn(shared, shared')
    BY <1>1, <1>3, <1>8, IdleTake
  <2>2. turn \in DOMAIN owners /\ Takeable(owners[turn].graph, kind) # {}
        /\ turn \in scanned
    BY <1>4, <1>5, <1>8
  <2>3. PICK p : p = owners[turn].key
    OBVIOUS
  <2>4. ASSUME NEW j \in DOMAIN owners, j # turn PROVE AlikeIn(owners[j].graph, owners'[j].graph)
    <3>1. CASE j \in scanned
      <4>0. scanned = {i \in DOMAIN owners : i <= turn}
        BY <1>8
      <4>1. j <= turn /\ j \in Nat /\ turn \in Nat
        <5> HIDE DEF scanned
        <5>1. j <= turn
          BY <3>1, <4>0
        <5>2. DOMAIN owners = 1..Len(owners) /\ Len(owners) \in Nat
          BY <1>0, OwnerTypes
        <5> QED BY <2>2, <2>4, <5>1, <5>2
      <4>2. j \notin ready
        BY <1>5, <1>8, <2>4, <4>1
      <4> QED BY <1>2, <3>1, <4>2, IdleTake
    <3>2. CASE j \notin scanned
      BY <1>2, <3>2, SameAlike
    <3> QED BY <3>1, <3>2
  <2> HIDE DEF ready, scanned
  <2>5. OneChanges(p, owners[turn].graph, owners'[turn].graph)
    BY <1>0, <2>1, <2>2, <2>3, <2>4, OwnerAlone
  <2>6. owners'[turn].graph = TakePendingKind(owners[turn].graph, kind)
    BY <1>2, <2>2
  <2> QED BY <1>0, <2>2, <2>5, <2>6, TakenIsTaken
<1> QED BY <1>6, <1>7, <1>8

-----------------------------------------------------------------------------
(***************************************************************************)
(* Steps that add, remove or renew a source.  They sweep the row of one    *)
(* slot in each partition that knows it; X are the keys of that slot.      *)
(***************************************************************************)
\* The owner o knows the source k by its slot n.
KnownAs(o, nodes, p, k, n) ==
  \/ k.partition = Shared /\ NodeIsLive(nodes, k.slot) /\ n = o.sharedSources[k.slot.slot].slot
  \/ k.partition = p /\ OwnSource(o, k.slot) /\ n = k.slot.slot

LEMMA LocalOfKey ==
  ASSUME ViewInv, NEW i \in DOMAIN owners, NEW p, p = owners[i].key, NEW k, NEW n
  PROVE  Local(k, p, n) <=> KnownAs(owners[i], shared.sources, p, k, n)
BY Partitions DEF Local, KnownAs, SourceIsLive

LEMMA LocalOfSharedPrimed ==
  ASSUME ViewInv, KeysSame, NEW k, NEW n
  PROVE  Local(k, Shared, n)' <=>
           k.partition = Shared /\ SourceIsLive(shared', k.slot) /\ n = k.slot.slot
<1>1. OwnerIndex(Shared)' = {}
  BY Partitions DEF OwnerIndex, KeysSame
<1> QED BY <1>1 DEF Local, SourceIsLive

LEMMA LocalOfKeyPrimed ==
  ASSUME ViewInv, KeysSame, NEW i \in DOMAIN owners, NEW p, p = owners[i].key, NEW k, NEW n
  PROVE  Local(k, p, n)' <=> KnownAs(owners'[i], shared'.sources, p, k, n)
<1>1. p # Shared /\ OwnerIndex(p) = {i}
  BY Partitions
<1>2. OwnerIndex(p)' = {i}
  BY <1>1 DEF OwnerIndex, KeysSame
<1>3. Local(k, p, n)' <=>
        \/ /\ k.partition = Shared /\ p = Shared
           /\ NodeIsLive(shared'.sources, k.slot) /\ n = k.slot.slot
        \/ \E j \in OwnerIndex(p)' :
             \/ /\ k.partition = Shared /\ NodeIsLive(shared'.sources, k.slot)
                /\ n = owners'[j].sharedSources[k.slot.slot].slot
             \/ k.partition = p /\ OwnSource(owners'[j], k.slot) /\ n = k.slot.slot
  BY DEF Local, OwnSource, SourceIsLive, Proxies
<1> QED BY <1>1, <1>2, <1>3 DEF KnownAs

Swept(X, p, g, h) ==
  /\ h.consumers = g.consumers /\ Entries(h) = Entries(g)
  /\ \A k \in Ids \ X : \A n : Local(k, p, n)' <=> Local(k, p, n)
  /\ \A k \in Ids \ X : \A n, c : Local(k, p, n) => (<<n, c>> \in h.rows <=> <<n, c>> \in g.rows)
  /\ \A k \in X : \A n, c : Local(k, p, n)' => <<n, c>> \notin h.rows

LEMMA SweepSeen ==
  ASSUME ViewInv, ViewInv', KeysSame, NEW X,
         \A p : \A g, h : Pair(p, g, h) => Swept(X, p, g, h)
  PROVE  /\ depConsumers' = depConsumers /\ depPending' = depPending
         /\ depEdges' = {d \in depEdges : d[1] \notin X}
         /\ \A k \in Ids \ X : IsSource(k)' <=> IsSource(k)
<1>1. ASSUME NEW c \in Ids
      PROVE  /\ \A t : HasTarget(c, t)' <=> HasTarget(c, t)
             /\ IsDue(c)' <=> IsDue(c)
             /\ \A k \in Ids : DependsOn(k, c)' <=> DependsOn(k, c) /\ k \notin X
  <2>1. CASE GraphOf(c.partition) = {} /\ GraphOf(c.partition)' = {}
    <3>1. \A k : ~DependsOn(k, c)
      BY <2>1 DEF DependsOn
    <3> QED BY <2>1, <3>1, NothingSeen DEF SameConsumer
  <2>2. ASSUME NEW g, NEW h, Pair(c.partition, g, h)
        PROVE  /\ \A t : HasTarget(c, t)' <=> HasTarget(c, t)
               /\ IsDue(c)' <=> IsDue(c)
               /\ \A k \in Ids : DependsOn(k, c)' <=> DependsOn(k, c) /\ k \notin X
    <3> PICK p : p = c.partition
      OBVIOUS
    <3>1. Pair(p, g, h)
      BY <2>2 DEF Pair
    <3>2. Swept(X, p, g, h)
      BY <3>1
    <3>3. /\ ConsumerIsLive(h, c.slot) <=> ConsumerIsLive(g, c.slot)
          /\ h.consumers = g.consumers /\ Entries(h) = Entries(g)
      BY <3>2 DEF Swept, ConsumerIsLive
    <3>4. (\A t : HasTarget(c, t)' <=> HasTarget(c, t)) /\ (IsDue(c)' <=> IsDue(c))
      BY <3>1, <3>3, PairSeen
    <3>5. ASSUME NEW k \in Ids PROVE DependsOn(k, c)' <=> DependsOn(k, c) /\ k \notin X
      <4>1. DependsOn(k, c)' <=> /\ ConsumerIsLive(h, c.slot)
                                /\ \E n : Local(k, p, n)' /\ <<n, c.slot.slot>> \in h.rows
        BY <3>1, PairSeen
      <4>2. DependsOn(k, c) <=> /\ ConsumerIsLive(g, c.slot)
                               /\ \E n : Local(k, p, n) /\ <<n, c.slot.slot>> \in g.rows
        BY <3>1, PairDepends
      <4>3. CASE k \in X
        <5>1. \A n : Local(k, p, n)' => <<n, c.slot.slot>> \notin h.rows
          BY <3>2, <4>3 DEF Swept
        <5> QED BY <4>1, <4>3, <5>1
      <4>4. CASE k \notin X
        <5>1. /\ \A n : Local(k, p, n)' <=> Local(k, p, n)
              /\ \A n : Local(k, p, n) =>
                   (<<n, c.slot.slot>> \in h.rows <=> <<n, c.slot.slot>> \in g.rows)
          BY <3>2, <4>4 DEF Swept
        <5> QED BY <3>3, <4>1, <4>2, <4>4, <5>1
      <4> QED BY <4>3, <4>4
    <3> QED BY <3>4, <3>5
  <2> QED BY <2>1, <2>2, Pairs
<1>2. Viewed /\ Viewed'
  BY Views, ViewsPrimed
<1>3. depConsumers' = depConsumers /\ depPending' = depPending
  BY <1>1, <1>2, ConsumersStay, DueStays
<1>4. depEdges' = {d \in depEdges : d[1] \notin X}
  <2>1. ASSUME NEW e \in Ids \X Ids
        PROVE  DependsOn(e[1], e[2])' <=> DependsOn(e[1], e[2]) /\ e[1] \notin X
    <3>1. e[1] \in Ids /\ e[2] \in Ids
      OBVIOUS
    <3> QED BY <1>1, <3>1
  <2> QED BY <1>2, <2>1 DEF Viewed
<1>5. ASSUME NEW k \in Ids \ X PROVE IsSource(k)' <=> IsSource(k)
  <2> PICK p : p = k.partition
    OBVIOUS
  <2>1. \A n : Local(k, p, n)' <=> Local(k, p, n)
    <3>1. CASE \E g, h : Pair(p, g, h)
      BY <3>1 DEF Swept
    <3>2. CASE GraphOf(p) = {} /\ GraphOf(p)' = {}
      <4>1. p # Shared /\ OwnerIndex(p) = {} /\ OwnerIndex(p)' = {}
        BY <3>2 DEF GraphOf
      <4> QED BY <4>1 DEF Local
    <3> QED BY <3>1, <3>2, Pairs
  <2>2. (IsSource(k)' <=> \E n : Local(k, p, n)') /\ (IsSource(k) <=> \E n : Local(k, p, n))
    BY DEF IsSource, Local
  <2> QED BY <2>1, <2>2
<1> QED BY <1>3, <1>4, <1>5

\* The keys of one slot of a partition.
SlotKeys(p, m) == {k \in Ids : k.partition = p /\ k.slot.slot = m}

SameOffSlot(old, new, m) ==
  \A id : id.slot # m => (NodeIsLive(new, id) <=> NodeIsLive(old, id))

LEMMA ChangedSlots ==
  ASSUME NEW old, NEW new, NEW id,
         \/ NodeAdded(old, new, id)
         \/ NodeIsLive(old, id) /\ (NodeRemoved(old, new, id) \/ NodeRenewed(old, new, id))
  PROVE  SameOffSlot(old, new, id.slot)
BY DEF SameOffSlot, NodeAdded, NodeRemoved, NodeRenewed, NodeIsLive

LEMMA PairUnique ==
  ASSUME NEW p, NEW g, NEW h, NEW a, NEW b, Pair(p, g, h), Pair(p, a, b)
  PROVE  g = a /\ h = b
BY DEF Pair

LEMMA SweptEverywhere ==
  ASSUME ViewInv, ViewInv', KeysSame, NEW X, Swept(X, Shared, shared, shared'),
         \A i \in DOMAIN owners : \A p :
           p = owners[i].key => Swept(X, p, owners[i].graph, owners'[i].graph)
  PROVE  \A q : \A g, h : Pair(q, g, h) => Swept(X, q, g, h)
<1>1. ASSUME NEW q, NEW g, NEW h, Pair(q, g, h) PROVE Swept(X, q, g, h)
  <2>1. CASE q = Shared
    <3>1. g = shared /\ h = shared'
      BY <1>1, <2>1 DEF Pair, GraphOf
    <3> QED BY <2>1, <3>1
  <2>2. ASSUME NEW j \in DOMAIN owners, q = owners[j].key,
               Pair(q, owners[j].graph, owners'[j].graph)
        PROVE  Swept(X, q, g, h)
    <3>1. g = owners[j].graph /\ h = owners'[j].graph
      BY <1>1, <2>2, PairUnique
    <3> QED BY <2>2, <3>1
  <2>3. GraphOf(q) # {}
    BY <1>1 DEF Pair
  <2> QED BY <2>1, <2>2, <2>3, Pairs
<1> QED BY <1>1

LEMMA OwnerSwept ==
  ASSUME ViewInv, ViewInv', NEW i \in DOMAIN owners, OwnSourceStep(i), NEW p, p = owners[i].key,
         NEW m, SameOffSlot(owners[i].graph.sources, owners'[i].graph.sources, m),
         \A q \in Proxies(owners[i]) : q.slot # m,
         owners'[i].graph.rows = ClearRow(owners[i].graph.rows, m),
         owners'[i].graph.pending = owners[i].graph.pending
  PROVE  /\ KeysSame
         /\ \A q : \A g, h : Pair(q, g, h) => Swept(SlotKeys(p, m), q, g, h)
<1>1. KeysSame
  BY DEF OwnSourceStep, KeysSame
<1>2. shared' = shared /\ \A j \in DOMAIN owners : j # i => owners'[j] = owners[j]
  BY DEF OwnSourceStep
<1>p. p # Shared
  BY Partitions
<1> PICK X : X = SlotKeys(p, m)
  OBVIOUS
<1>3. \A k \in X : k \in Ids /\ k.partition = p /\ k.slot.slot = m
  BY DEF SlotKeys
<1>4. Swept(X, Shared, shared, shared')
  <2>1. \A k, n : Local(k, Shared, n)' <=> Local(k, Shared, n)
    BY <1>1, <1>2, LocalOfShared, LocalOfSharedPrimed
  <2>2. \A k \in X : \A n : ~Local(k, Shared, n)
    BY <1>p, <1>3, LocalOfShared
  <2> QED BY <1>2, <2>1, <2>2 DEF Swept
<1>5. ASSUME NEW j \in DOMAIN owners, j # i, NEW q, q = owners[j].key
      PROVE  Swept(X, q, owners[j].graph, owners'[j].graph)
  <2>1. \A k, n : Local(k, q, n)' <=> Local(k, q, n)
    BY <1>1, <1>2, <1>5, LocalOfKey, LocalOfKeyPrimed
  <2>2. q # p
    BY <1>5 DEF ViewInv, IdentityInv, OwnersDistinct
  <2>3. \A k \in X : \A n : ~Local(k, q, n)
    BY <1>p, <1>3, <1>5, <2>2, LocalOfKey DEF KnownAs
  <2> QED BY <1>2, <1>5, <2>1, <2>3 DEF Swept
<1>6. Swept(X, p, owners[i].graph, owners'[i].graph)
  <2> DEFINE g == owners[i].graph
             h == owners'[i].graph
  <2>1. h.consumers = g.consumers /\ Entries(h) = Entries(g) /\ h.rows = ClearRow(g.rows, m)
        /\ owners'[i].sharedSources = owners[i].sharedSources
        /\ Proxies(owners'[i]) = Proxies(owners[i])
    BY DEF OwnSourceStep, Entries, Proxies
  <2>2. ASSUME NEW k, NEW n
        PROVE  /\ Local(k, p, n)' <=>
                    \/ /\ k.partition = Shared /\ SourceIsLive(shared, k.slot)
                       /\ n = owners[i].sharedSources[k.slot.slot].slot
                    \/ /\ k.partition = p /\ SourceIsLive(h, k.slot)
                       /\ k.slot \notin Proxies(owners[i]) /\ n = k.slot.slot
               /\ Local(k, p, n) <=>
                    \/ /\ k.partition = Shared /\ SourceIsLive(shared, k.slot)
                       /\ n = owners[i].sharedSources[k.slot.slot].slot
                    \/ /\ k.partition = p /\ SourceIsLive(g, k.slot)
                       /\ k.slot \notin Proxies(owners[i]) /\ n = k.slot.slot
    <3>1. Local(k, p, n)' <=> KnownAs(owners'[i], shared.sources, p, k, n)
      BY <1>1, <1>2, LocalOfKeyPrimed
    <3>2. Local(k, p, n) <=> KnownAs(owners[i], shared.sources, p, k, n)
      BY LocalOfKey
    <3> QED BY <2>1, <3>1, <3>2 DEF KnownAs, OwnSource, SourceIsLive
  <2>3. ASSUME NEW k \in Ids \ X PROVE k.partition = p => k.slot.slot # m
    BY <2>3 DEF SlotKeys
  <2>4. ASSUME NEW k \in Ids \ X, NEW n PROVE Local(k, p, n)' <=> Local(k, p, n)
    <3>1. k.partition = p => (SourceIsLive(h, k.slot) <=> SourceIsLive(g, k.slot))
      BY <2>3, <2>4 DEF SameOffSlot, SourceIsLive
    <3> QED BY <2>2, <3>1
  <2>5. ASSUME NEW k \in Ids \ X, NEW n, Local(k, p, n) PROVE n # m
    <3>1. CASE k.partition = p
      BY <1>p, <2>2, <2>3, <2>5, <3>1
    <3>2. CASE k.partition # p
      <4>1. /\ k.slot.slot \in DOMAIN shared.sources /\ shared.sources[k.slot.slot].live
            /\ n = owners[i].sharedSources[k.slot.slot].slot
        BY <2>2, <2>5, <3>2 DEF SourceIsLive, NodeIsLive
      <4> PICK s : s = k.slot.slot
        OBVIOUS
      <4>2. owners[i].sharedSources[s] \in Proxies(owners[i])
        BY <4>1, ProxyFacts
      <4> QED BY <4>1, <4>2
    <3> QED BY <3>1, <3>2
  <2>6. ASSUME NEW n, NEW c, n # m PROVE <<n, c>> \in h.rows <=> <<n, c>> \in g.rows
    BY <2>1, <2>6 DEF ClearRow
  <2>7. ASSUME NEW k \in X, NEW n, NEW c, Local(k, p, n)' PROVE <<n, c>> \notin h.rows
    <3>1. n = m
      BY <1>p, <1>3, <2>2, <2>7
    <3> QED BY <2>1, <3>1 DEF ClearRow
  <2> HIDE DEF g, h
  <2>8. Swept(X, p, g, h)
    BY <2>1, <2>4, <2>5, <2>6, <2>7 DEF Swept
  <2> QED BY <2>8 DEF g, h
<1>7. \A j \in DOMAIN owners : \A q :
        q = owners[j].key => Swept(X, q, owners[j].graph, owners'[j].graph)
  BY <1>5, <1>6
<1>8. \A q : \A g, h : Pair(q, g, h) => Swept(X, q, g, h)
  BY <1>1, <1>4, <1>7, SweptEverywhere
<1> QED BY <1>1, <1>8

\* The sources of the swept slot before the step and after it, as the client
\* sees them.
Turned(X, old, new) ==
  /\ X \subseteq Ids
  /\ \A k \in X : /\ IsSource(k) <=> k \in old
                  /\ IsSource(k)' <=> k \in new

\* The sources old turn into the sources new, and nothing depends on them.
Turns(old, new) ==
  /\ depSources' = (depSources \ old) \cup new
  /\ old \subseteq depSources
  /\ \A k \in new : k \in Ids /\ (k \in depSources => k \in old)
  /\ depEdges' = {d \in depEdges : d[1] \notin old}
  /\ depConsumers' = depConsumers /\ depPending' = depPending

LEMMA TurnedSeen ==
  ASSUME ViewInv, ViewInv', KeysSame, NEW X, NEW old \in SUBSET X, NEW new \in SUBSET X,
         Turned(X, old, new), \A p : \A g, h : Pair(p, g, h) => Swept(X, p, g, h)
  PROVE  Turns(old, new)
<1>1. Viewed /\ Viewed'
  BY Views, ViewsPrimed
<1>2. /\ depConsumers' = depConsumers /\ depPending' = depPending
      /\ depEdges' = {d \in depEdges : d[1] \notin X}
      /\ \A k \in Ids \ X : IsSource(k)' <=> IsSource(k)
  BY SweepSeen
<1>3. depSources' = (depSources \ old) \cup new
  <2>1. ASSUME NEW k \in Ids PROVE IsSource(k)' <=> (IsSource(k) /\ k \notin old) \/ k \in new
    BY <1>2 DEF Turned
  <2>2. new \subseteq Ids
    BY DEF Turned
  <2> QED BY <1>1, <2>1, <2>2 DEF Viewed
<1>4. old \subseteq depSources /\ \A k \in new : k \in Ids /\ (k \in depSources => k \in old)
  BY <1>1 DEF Turned, Viewed
<1>5. ASSUME NEW d \in depEdges PROVE d[1] \in X <=> d[1] \in old
  <2>1. d \in Ids \X Ids /\ DependsOn(d[1], d[2])
    BY <1>1 DEF Viewed
  <2>2. PICK k, c : k = d[1] /\ c = d[2]
    OBVIOUS
  <2>3. k \in Ids /\ DependsOn(k, c)
    BY <2>1, <2>2
  <2>4. IsSource(k)
    BY <2>3, LocalIsSource DEF DependsOn
  <2> QED BY <2>2, <2>4 DEF Turned
<1> QED BY <1>2, <1>3, <1>4, <1>5 DEF Turns

LEMMA AddedIsAdded ==
  ASSUME ViewInv, ViewInv', KeysSame, NEW X, NEW s \in X, Turned(X, {}, {s}),
         \A p : \A g, h : Pair(p, g, h) => Swept(X, p, g, h)
  PROVE  Dep!AddSource
<1>1. /\ depSources' = (depSources \ {}) \cup {s}
      /\ s \in Ids /\ s \notin depSources
      /\ depEdges' = {d \in depEdges : d[1] \notin {}}
      /\ depConsumers' = depConsumers /\ depPending' = depPending
  <2> PICK old, new : old = {} /\ new = {s}
    OBVIOUS
  <2>0. old \in SUBSET X /\ new \in SUBSET X /\ Turned(X, old, new)
    OBVIOUS
  <2>2. Turns(old, new)
    BY <2>0, TurnedSeen
  <2> QED BY <2>2 DEF Turns
<1> QED BY <1>1 DEF Dep!AddSource

LEMMA GoneIsRemoved ==
  ASSUME ViewInv, ViewInv', KeysSame, NEW X, NEW s \in X, Turned(X, {s}, {}),
         \A p : \A g, h : Pair(p, g, h) => Swept(X, p, g, h)
  PROVE  Dep!RemoveSource
<1>1. /\ depSources' = (depSources \ {s}) \cup {}
      /\ s \in depSources
      /\ depEdges' = {d \in depEdges : d[1] \notin {s}}
      /\ depConsumers' = depConsumers /\ depPending' = depPending
  <2> PICK old, new : old = {s} /\ new = {}
    OBVIOUS
  <2>0. old \in SUBSET X /\ new \in SUBSET X /\ Turned(X, old, new)
    OBVIOUS
  <2>2. Turns(old, new)
    BY <2>0, TurnedSeen
  <2> QED BY <2>2 DEF Turns
<1> QED BY <1>1 DEF Dep!RemoveSource

LEMMA TurnedIsRenewed ==
  ASSUME ViewInv, ViewInv', KeysSame, NEW X, NEW s \in X, NEW t \in X, s # t,
         s.partition = t.partition, Turned(X, {s}, {t}),
         \A p : \A g, h : Pair(p, g, h) => Swept(X, p, g, h)
  PROVE  Dep!RenewSource
<1>1. /\ depSources' = (depSources \ {s}) \cup {t}
      /\ s \in depSources /\ t \in Ids /\ t \notin depSources
      /\ depEdges' = {d \in depEdges : d[1] \notin {s}}
      /\ depConsumers' = depConsumers /\ depPending' = depPending
  <2> PICK old, new : old = {s} /\ new = {t}
    OBVIOUS
  <2>0. old \in SUBSET X /\ new \in SUBSET X /\ Turned(X, old, new)
    OBVIOUS
  <2>2. Turns(old, new)
    BY <2>0, TurnedSeen
  <2> QED BY <2>2 DEF Turns
<1> QED BY <1>1 DEF Dep!RenewSource

-----------------------------------------------------------------------------
(***************************************************************************)
(* An owner's own sources.                                                 *)
(***************************************************************************)
LEMMA OwnSourcesSeen ==
  ASSUME ViewInv, KeysSame, NEW i \in DOMAIN owners, NEW p, p = owners[i].key,
         NEW k, k.partition = p
  PROVE  /\ IsSource(k) <=> OwnSource(owners[i], k.slot)
         /\ IsSource(k)' <=> OwnSource(owners'[i], k.slot)
<1>1. p # Shared
  BY Partitions
<1>2. (IsSource(k) <=> \E n : Local(k, p, n)) /\ (IsSource(k)' <=> \E n : Local(k, p, n)')
  BY DEF IsSource, Local
<1>3. \A n : /\ Local(k, p, n) <=> KnownAs(owners[i], shared.sources, p, k, n)
             /\ Local(k, p, n)' <=> KnownAs(owners'[i], shared'.sources, p, k, n)
  BY LocalOfKey, LocalOfKeyPrimed
<1>4. \A o, nodes, n : KnownAs(o, nodes, p, k, n) <=> OwnSource(o, k.slot) /\ n = k.slot.slot
  BY <1>1 DEF KnownAs
<1> QED BY <1>2, <1>3, <1>4

LEMMA OwnerPair ==
  ASSUME ViewInv, KeysSame, NEW i \in DOMAIN owners, NEW p, p = owners[i].key
  PROVE  Pair(p, owners[i].graph, owners'[i].graph)
<1>1. p # Shared /\ OwnerIndex(p) = {i}
  BY Partitions
<1>2. OwnerIndex(p)' = OwnerIndex(p)
  BY DEF OwnerIndex, KeysSame
<1>3. GraphOf(p) = {owners[i].graph} /\ GraphOf(p)' = {owners'[i].graph}
  BY <1>1, <1>2 DEF GraphOf
<1> QED BY <1>3 DEF Pair

LEMMA OwnerProxiesLive ==
  ASSUME ViewInv, NEW i \in DOMAIN owners, NEW q \in Proxies(owners[i])
  PROVE  SourceIsLive(owners[i].graph, q) /\ q \in SlotId
<1>1. Faithful(owners[i], shared.sources) /\ owners[i] \in Owner
  BY OwnerTypes DEF ViewInv, IdentityInv, AllFaithful
<1>2. PICK s \in DOMAIN owners[i].sharedSources : q = owners[i].sharedSources[s] /\ q # NoProxy
  BY DEF Proxies
<1>3. owners[i].sharedSources \in Seq(SlotId \cup {NoProxy})
  BY <1>1 DEF Owner
<1> QED BY <1>1, <1>2, <1>3, ProxiesLive

LEMMA RegisterOwnerSourceImplements ==
  ASSUME ViewInv, ViewInv', NEW w, RegisterOwnerSource(w)
  PROVE  Dep!AddSource
<1>1. PICK i \in DOMAIN owners :
        /\ OwnSourceStep(i)
        /\ NodeAdded(owners[i].graph.sources, owners'[i].graph.sources,
                     NextId(owners[i].graph.sources))
        /\ owners'[i].graph.rows =
             ClearRow(owners[i].graph.rows, NextId(owners[i].graph.sources).slot)
        /\ owners'[i].graph.pending = owners[i].graph.pending
  BY RegisterOwnerSourceFacts DEF ViewInv, IdentityInv
<1> PICK id : id = NextId(owners[i].graph.sources)
  OBVIOUS
<1> PICK p : p = owners[i].key
  OBVIOUS
<1> PICK s : s = [partition |-> p, slot |-> id]
  OBVIOUS
<1> PICK m : m = id.slot
  OBVIOUS
<1> PICK X : X = SlotKeys(p, m)
  OBVIOUS
<1>2. /\ NodeAdded(owners[i].graph.sources, owners'[i].graph.sources, id)
      /\ owners'[i].graph.rows = ClearRow(owners[i].graph.rows, m)
  BY <1>1
<1>3. id \in SlotId /\ NodeIsLive(owners'[i].graph.sources, id)
      /\ \A j : NodeIsLive(owners[i].graph.sources, j) => j.slot # m
  BY <1>2 DEF NodeAdded, NodeIsLive
<1>4. \A q \in Proxies(owners[i]) : q.slot # m
  BY <1>3, OwnerProxiesLive DEF SourceIsLive
<1>5. SameOffSlot(owners[i].graph.sources, owners'[i].graph.sources, m)
  BY <1>2, ChangedSlots
<1>6. KeysSame /\ \A q : \A g, h : Pair(q, g, h) => Swept(X, q, g, h)
  BY <1>1, <1>2, <1>4, <1>5, OwnerSwept
<1>7. s \in X
  <2>1. owners'[i].graph \in GraphOf(p)'
    BY <1>6, OwnerPair DEF Pair
  <2>2. s \in Ids
    BY <1>3, <2>1, LiveAfter DEF SourceIsLive
  <2> QED BY <2>2 DEF SlotKeys
<1>8. Turned(X, {}, {s})
  <2>1. ASSUME NEW k \in X PROVE ~IsSource(k) /\ (IsSource(k)' <=> k = s)
    <3>1. k \in Ids /\ k.partition = p /\ k.slot.slot = m
      BY <2>1 DEF SlotKeys
    <3>2. ~IsSource(k)
      BY <1>3, <1>6, <3>1, OwnSourcesSeen DEF OwnSource, SourceIsLive
    <3>3. IsSource(k)' <=> NodeIsLive(owners'[i].graph.sources, k.slot)
      <4>1. Proxies(owners'[i]) = Proxies(owners[i])
        BY <1>1 DEF OwnSourceStep, Proxies
      <4> QED BY <1>4, <1>6, <3>1, <4>1, OwnSourcesSeen DEF OwnSource, SourceIsLive
    <3>4. NodeIsLive(owners'[i].graph.sources, k.slot) <=> k.slot = id
      <4>1. NodeIsLive(owners'[i].graph.sources, k.slot) => k.slot.generation = id.generation
        BY <1>3, <3>1 DEF NodeIsLive
      <4> QED BY <1>3, <3>1, <4>1, IdRecord DEF SlotId
    <3>5. k = s <=> k.slot = id
      BY <3>1, IdRecord
    <3> QED BY <3>2, <3>3, <3>4, <3>5
  <2> QED BY <2>1 DEF Turned, SlotKeys
<1> QED BY <1>6, <1>7, <1>8, AddedIsAdded

\* The swept slot of a source that is removed or renewed by its key.
LEMMA OwnSlotSwept ==
  ASSUME ViewInv, ViewInv', NEW s \in SourceKeys, NEW i \in OwnerIndex(s.partition),
         OwnSourceStep(i), SourceIsLive(owners[i].graph, s.slot),
         \/ NodeRemoved(owners[i].graph.sources, owners'[i].graph.sources, s.slot)
         \/ NodeRenewed(owners[i].graph.sources, owners'[i].graph.sources, s.slot),
         owners'[i].graph.rows = ClearRow(owners[i].graph.rows, s.slot.slot),
         owners'[i].graph.pending = owners[i].graph.pending,
         NEW X, X = SlotKeys(s.partition, s.slot.slot)
  PROVE  /\ KeysSame /\ \A q : \A g, h : Pair(q, g, h) => Swept(X, q, g, h)
         /\ X \subseteq Ids /\ s \in X
         /\ \A k \in X : /\ IsSource(k) <=> k = s
                         /\ IsSource(k)' <=> SourceIsLive(owners'[i].graph, k.slot)
                         /\ k.slot.slot = s.slot.slot /\ k.partition = s.partition
<1> PICK p : p = s.partition
  OBVIOUS
<1> PICK m : m = s.slot.slot
  OBVIOUS
<1>1. i \in DOMAIN owners /\ owners[i].key = p
  BY DEF OwnerIndex
<1>2. s \in Ids /\ s.slot \notin Proxies(owners[i])
  BY <1>1, KeysAreIds DEF SourceKeys
<1>3. \A q \in Proxies(owners[i]) : q.slot # m
  <2>1. ASSUME NEW q \in Proxies(owners[i]), q.slot = m PROVE FALSE
    <3>1. SourceIsLive(owners[i].graph, q) /\ q \in SlotId
      BY <1>1, OwnerProxiesLive
    <3>2. q.generation = s.slot.generation /\ q = [slot |-> q.slot, generation |-> q.generation]
      BY <2>1, <3>1 DEF SlotId, SourceIsLive, NodeIsLive
    <3>3. q = s.slot
      BY <1>2, <2>1, <3>2, IdRecord
    <3> QED BY <1>2, <3>3
  <2> QED BY <2>1
<1>4. SameOffSlot(owners[i].graph.sources, owners'[i].graph.sources, m)
  BY ChangedSlots DEF SourceIsLive
<1>5. KeysSame /\ \A q : \A g, h : Pair(q, g, h) => Swept(X, q, g, h)
  BY <1>1, <1>3, <1>4, OwnerSwept
<1>6. X \subseteq Ids /\ s \in X
  BY <1>2 DEF SlotKeys
<1>7. ASSUME NEW k \in X
      PROVE  /\ IsSource(k) <=> k = s
             /\ IsSource(k)' <=> SourceIsLive(owners'[i].graph, k.slot)
             /\ k.slot.slot = s.slot.slot /\ k.partition = s.partition
  <2>1. k \in Ids /\ k.partition = p /\ k.slot.slot = m
    BY <1>7 DEF SlotKeys
  <2>2. k.slot \notin Proxies(owners[i]) /\ Proxies(owners'[i]) = Proxies(owners[i])
    BY <1>3, <2>1 DEF OwnSourceStep, Proxies
  <2>3. /\ IsSource(k) <=> SourceIsLive(owners[i].graph, k.slot)
        /\ IsSource(k)' <=> SourceIsLive(owners'[i].graph, k.slot)
    BY <1>1, <1>5, <2>1, <2>2, OwnSourcesSeen DEF OwnSource
  <2>4. SourceIsLive(owners[i].graph, k.slot) <=> k = s
    <3>1. SourceIsLive(owners[i].graph, k.slot) => k.slot.generation = s.slot.generation
      BY <2>1 DEF SourceIsLive, NodeIsLive
    <3> QED BY <1>2, <2>1, <3>1, IdRecord
  <2> QED BY <2>1, <2>3, <2>4
<1> QED BY <1>5, <1>6, <1>7

LEMMA RemoveOwnerSourceImplements ==
  ASSUME ViewInv, ViewInv', NEW s \in SourceKeys, RemoveOwnerSource(s)
  PROVE  Dep!RemoveSource
<1>1. PICK i \in OwnerIndex(s.partition) :
        /\ OwnSourceStep(i)
        /\ SourceIsLive(owners[i].graph, s.slot)
        /\ NodeRemoved(owners[i].graph.sources, owners'[i].graph.sources, s.slot)
        /\ owners'[i].graph.rows = ClearRow(owners[i].graph.rows, s.slot.slot)
        /\ owners'[i].graph.pending = owners[i].graph.pending
  BY RemoveOwnerSourceFacts DEF ViewInv, IdentityInv
<1> PICK X : X = SlotKeys(s.partition, s.slot.slot)
  OBVIOUS
<1>2. /\ KeysSame /\ \A q : \A g, h : Pair(q, g, h) => Swept(X, q, g, h)
      /\ X \subseteq Ids /\ s \in X
      /\ \A k \in X : /\ IsSource(k) <=> k = s
                      /\ IsSource(k)' <=> SourceIsLive(owners'[i].graph, k.slot)
                      /\ k.slot.slot = s.slot.slot
  BY <1>1, OwnSlotSwept
<1>3. Turned(X, {s}, {})
  <2>1. \A k \in X : ~SourceIsLive(owners'[i].graph, k.slot)
    BY <1>1, <1>2 DEF NodeRemoved, SourceIsLive, NodeIsLive
  <2> QED BY <1>2, <2>1 DEF Turned
<1> QED BY <1>2, <1>3, GoneIsRemoved

\* After the last generation a renewal removes the source.
LEMMA RenewOwnerSourceImplements ==
  ASSUME ViewInv, ViewInv', NEW s \in SourceKeys, RenewOwnerSource(s)
  PROVE  Dep!RenewSource \/ Dep!RemoveSource
<1>1. PICK i \in OwnerIndex(s.partition) :
        /\ OwnSourceStep(i)
        /\ SourceIsLive(owners[i].graph, s.slot)
        /\ NodeRenewed(owners[i].graph.sources, owners'[i].graph.sources, s.slot)
        /\ owners'[i].graph.rows = ClearRow(owners[i].graph.rows, s.slot.slot)
        /\ owners'[i].graph.pending = owners[i].graph.pending
  BY RenewOwnerSourceFacts DEF ViewInv, IdentityInv
<1> PICK X : X = SlotKeys(s.partition, s.slot.slot)
  OBVIOUS
<1>2. /\ KeysSame /\ \A q : \A g, h : Pair(q, g, h) => Swept(X, q, g, h)
      /\ X \subseteq Ids /\ s \in X
      /\ \A k \in X : /\ IsSource(k) <=> k = s
                      /\ IsSource(k)' <=> SourceIsLive(owners'[i].graph, k.slot)
                      /\ k.slot.slot = s.slot.slot /\ k.partition = s.partition
  BY <1>1, OwnSlotSwept
<1> DEFINE new == owners'[i].graph.sources
<1>3. CASE ~new[s.slot.slot].live
  <2>1. \A k \in X : ~SourceIsLive(owners'[i].graph, k.slot)
    BY <1>2, <1>3 DEF SourceIsLive, NodeIsLive
  <2>2. Turned(X, {s}, {})
    BY <1>2, <2>1 DEF Turned
  <2> QED BY <1>2, <2>2, GoneIsRemoved
<1>4. CASE new[s.slot.slot].live
  <2> PICK next : next = s.slot.generation + 1
    OBVIOUS
  <2>1. /\ new[s.slot.slot].generation = next /\ s.slot.slot \in DOMAIN new
    BY <1>1, <1>4 DEF NodeRenewed, SourceIsLive, NodeIsLive
  <2> PICK t : t = [partition |-> s.partition,
                    slot |-> [slot |-> s.slot.slot, generation |-> next]]
    OBVIOUS
  <2>2. t.slot.slot = s.slot.slot /\ t.slot.generation = next /\ t.partition = s.partition
    OBVIOUS
  <2>3. t \in X
    <3>1. i \in DOMAIN owners /\ owners[i].key = s.partition
      BY DEF OwnerIndex
    <3>2. PICK p : p = s.partition
      OBVIOUS
    <3>3. owners'[i].graph \in GraphOf(p)'
      BY <1>2, <3>1, <3>2, OwnerPair DEF Pair
    <3>4. [partition |-> p, slot |-> [slot |-> s.slot.slot, generation |-> next]] \in Ids
      BY <2>1, <3>3, GoodAfter
    <3> QED BY <2>2, <3>2, <3>4 DEF SlotKeys
  <2>4. s # t
    <3>1. s.slot.generation \in Nat
      <4>1. s \in Ids
        BY <1>2
      <4>2. s.slot \in SlotIds
        BY <4>1, IdRecord
      <4> QED BY <4>2 DEF SlotIds
    <3> QED BY <2>2, <3>1
  <2>5. Turned(X, {s}, {t})
    <3>1. ASSUME NEW k \in X PROVE SourceIsLive(owners'[i].graph, k.slot) <=> k = t
      <4>1. SourceIsLive(owners'[i].graph, k.slot) <=> k.slot.generation = next
        BY <1>2, <1>4, <2>1 DEF SourceIsLive, NodeIsLive
      <4>2. k = [partition |-> k.partition, slot |-> k.slot]
            /\ k.slot = [slot |-> k.slot.slot, generation |-> k.slot.generation]
        BY <1>2, IdRecord
      <4>3. k = t <=> k.slot.generation = next
        BY <1>2, <2>2, <4>2
      <4> QED BY <4>1, <4>3
    <3> QED BY <1>2, <3>1 DEF Turned
  <2> QED BY <1>2, <2>2, <2>3, <2>4, <2>5, TurnedIsRenewed
<1> QED BY <1>3, <1>4

-----------------------------------------------------------------------------
(***************************************************************************)
(* The shared sources, swept in the shared partition under their own slot  *)
(* and in each owner's under their proxy's.                                *)
(***************************************************************************)
LEMMA SharedSwept ==
  ASSUME ViewInv, KeysSame, NEW m, NEW X, X = SlotKeys(Shared, m),
         SameOffSlot(shared.sources, shared'.sources, m),
         shared'.rows = ClearRow(shared.rows, m),
         shared'.consumers = shared.consumers, shared'.pending = shared.pending
  PROVE  Swept(X, Shared, shared, shared')
<1>1. Entries(shared') = Entries(shared)
  BY DEF Entries
<1>2. \A k, n : /\ Local(k, Shared, n) <=>
                     k.partition = Shared /\ NodeIsLive(shared.sources, k.slot) /\ n = k.slot.slot
                /\ Local(k, Shared, n)' <=>
                     k.partition = Shared /\ NodeIsLive(shared'.sources, k.slot) /\ n = k.slot.slot
  BY LocalOfShared, LocalOfSharedPrimed DEF SourceIsLive
<1>3. ASSUME NEW k \in Ids \ X PROVE k.partition = Shared => k.slot.slot # m
  BY <1>3 DEF SlotKeys
<1>4. \A k \in Ids \ X : \A n : Local(k, Shared, n)' <=> Local(k, Shared, n)
  BY <1>2, <1>3 DEF SameOffSlot
<1>5. ASSUME NEW k \in Ids \ X, NEW n, NEW c, Local(k, Shared, n)
      PROVE  <<n, c>> \in shared'.rows <=> <<n, c>> \in shared.rows
  <2>1. n # m
    BY <1>2, <1>3, <1>5
  <2> QED BY <2>1 DEF ClearRow
<1>6. ASSUME NEW k \in X, NEW n, NEW c, Local(k, Shared, n)' PROVE <<n, c>> \notin shared'.rows
  <2>1. n = m
    BY <1>2, <1>6 DEF SlotKeys
  <2> QED BY <2>1 DEF ClearRow
<1> QED BY <1>1, <1>4, <1>5, <1>6 DEF Swept

\* What an owner does with the proxy of the swept slot m; its own slot is mi.
ProxyMoved(o, q, m, mi) ==
  /\ \A s : s # m /\ s \in DOMAIN o.sharedSources => q.sharedSources[s] = o.sharedSources[s]
  /\ \A id \in SlotIds : OwnSource(q, id) <=> OwnSource(o, id)
  /\ q.graph.rows = ClearRow(o.graph.rows, mi)
  /\ q.graph.consumers = o.graph.consumers /\ q.graph.pending = o.graph.pending

LEMMA ProxySwept ==
  ASSUME ViewInv, KeysSame, NEW m, NEW X, X = SlotKeys(Shared, m),
         SameOffSlot(shared.sources, shared'.sources, m),
         NEW i \in DOMAIN owners, NEW p, p = owners[i].key, NEW mi,
         ProxyMoved(owners[i], owners'[i], m, mi),
         \A k \in Ids \ X : \A n : Local(k, p, n) => n # mi,
         \/ owners'[i].sharedSources[m].slot = mi
         \/ \A k \in X : ~NodeIsLive(shared'.sources, k.slot)
  PROVE  Swept(X, p, owners[i].graph, owners'[i].graph)
<1>1. \A k, n : /\ Local(k, p, n) <=> KnownAs(owners[i], shared.sources, p, k, n)
                /\ Local(k, p, n)' <=> KnownAs(owners'[i], shared'.sources, p, k, n)
  BY LocalOfKey, LocalOfKeyPrimed
<1>2. p # Shared /\ DOMAIN owners[i].sharedSources = DOMAIN shared.sources
  BY Partitions DEF ViewInv, IdentityInv, AllFaithful, Faithful
<1>3. ASSUME NEW k \in Ids \ X, NEW n
      PROVE  KnownAs(owners'[i], shared'.sources, p, k, n) <=>
               KnownAs(owners[i], shared.sources, p, k, n)
  <2>1. CASE k.partition = Shared
    <3>1. k.slot.slot # m
      BY <1>3, <2>1 DEF SlotKeys
    <3>2. NodeIsLive(shared'.sources, k.slot) <=> NodeIsLive(shared.sources, k.slot)
      BY <3>1 DEF SameOffSlot
    <3>3. NodeIsLive(shared.sources, k.slot) =>
            owners'[i].sharedSources[k.slot.slot] = owners[i].sharedSources[k.slot.slot]
      BY <1>2, <3>1 DEF ProxyMoved, NodeIsLive
    <3> QED BY <1>2, <2>1, <3>2, <3>3 DEF KnownAs
  <2>2. CASE k.partition # Shared
    BY <1>3, <2>2, IdRecord DEF KnownAs, ProxyMoved
  <2> QED BY <2>1, <2>2
<1>4. \A k \in Ids \ X : \A n : Local(k, p, n)' <=> Local(k, p, n)
  BY <1>1, <1>3
<1>5. \A k \in Ids \ X : \A n, c : Local(k, p, n) =>
        (<<n, c>> \in owners'[i].graph.rows <=> <<n, c>> \in owners[i].graph.rows)
  BY DEF ProxyMoved, ClearRow
<1>6. ASSUME NEW k \in X, NEW n, NEW c, Local(k, p, n)' PROVE <<n, c>> \notin owners'[i].graph.rows
  <2>1. k.partition = Shared /\ k.slot.slot = m
    BY <1>6 DEF SlotKeys
  <2>2. n = mi
    BY <1>1, <1>2, <1>6, <2>1 DEF KnownAs
  <2> QED BY <2>2 DEF ProxyMoved, ClearRow
<1>7. Entries(owners'[i].graph) = Entries(owners[i].graph)
      /\ owners'[i].graph.consumers = owners[i].graph.consumers
  BY DEF Entries, ProxyMoved
<1> QED BY <1>4, <1>5, <1>6, <1>7 DEF Swept

\* The shared sources of the swept slot, before and after.
LEMMA SharedSourcesSeen ==
  ASSUME ViewInv, KeysSame, NEW k, k.partition = Shared
  PROVE  /\ IsSource(k) <=> NodeIsLive(shared.sources, k.slot)
         /\ IsSource(k)' <=> NodeIsLive(shared'.sources, k.slot)
<1>1. \A n : /\ Local(k, Shared, n) <=> NodeIsLive(shared.sources, k.slot) /\ n = k.slot.slot
             /\ Local(k, Shared, n)' <=> NodeIsLive(shared'.sources, k.slot) /\ n = k.slot.slot
  BY LocalOfShared, LocalOfSharedPrimed DEF SourceIsLive
<1>2. (IsSource(k) <=> \E n : Local(k, Shared, n)) /\ (IsSource(k)' <=> \E n : Local(k, Shared, n)')
  BY DEF IsSource, Local
<1> QED BY <1>1, <1>2

LEMMA AddedMoves ==
  ASSUME NEW o, NEW q, NEW slot, AddedEverywhere(o, q, slot),
         slot \in DOMAIN o.sharedSources => o.sharedSources[slot] = NoProxy
  PROVE  /\ ProxyMoved(o, q, slot, NextId(o.graph.sources).slot)
         /\ q.sharedSources[slot].slot = NextId(o.graph.sources).slot
         /\ \A j : NodeIsLive(o.graph.sources, j) => j.slot # NextId(o.graph.sources).slot
<1> PICK m : m = slot
  OBVIOUS
<1> PICK proxy : proxy = NextId(o.graph.sources)
  OBVIOUS
<1>1. /\ NodeAdded(o.graph.sources, q.graph.sources, proxy)
      /\ q.graph.rows = ClearRow(o.graph.rows, proxy.slot)
      /\ q.graph.consumers = o.graph.consumers /\ q.graph.pending = o.graph.pending
      /\ q.sharedSources = Place(o.sharedSources, m, proxy)
  BY DEF AddedEverywhere
<1>2. /\ DOMAIN q.sharedSources = DOMAIN o.sharedSources \cup {m}
      /\ q.sharedSources[m] = proxy
      /\ \A s \in DOMAIN o.sharedSources : s # m => q.sharedSources[s] = o.sharedSources[s]
  BY <1>1 DEF Place
<1>3. m \in DOMAIN o.sharedSources => o.sharedSources[m] = NoProxy
  OBVIOUS
<1>4. proxy \in SlotId /\ proxy # NoProxy
  BY <1>1 DEF NodeAdded, SlotId, NoProxy
<1>5. Proxies(q) = Proxies(o) \cup {proxy}
  <2>1. \A r : r \in Proxies(q) => r \in Proxies(o) \cup {proxy}
    BY <1>2 DEF Proxies
  <2>2. \A r : r \in Proxies(o) => r \in Proxies(q)
    BY <1>2, <1>3 DEF Proxies
  <2>3. proxy \in Proxies(q)
    BY <1>2, <1>4 DEF Proxies
  <2> QED BY <2>1, <2>2, <2>3
<1>6. \A j : NodeIsLive(o.graph.sources, j) => j.slot # proxy.slot
  BY <1>1 DEF NodeAdded, NodeIsLive
<1>7. SameOffSlot(o.graph.sources, q.graph.sources, proxy.slot)
  BY <1>1, ChangedSlots
<1>8. ASSUME NEW j \in SlotIds PROVE OwnSource(q, j) <=> OwnSource(o, j)
  <2>1. CASE j.slot # proxy.slot
    <3>1. j # proxy
      BY <2>1
    <3> QED BY <1>5, <1>7, <2>1, <3>1 DEF SameOffSlot, OwnSource, SourceIsLive
  <2>2. CASE j.slot = proxy.slot
    <3>1. NodeIsLive(q.graph.sources, j) => j.generation = proxy.generation
      BY <1>1, <2>2 DEF NodeAdded, NodeIsLive
    <3>2. NodeIsLive(q.graph.sources, j) => j = proxy
      BY <1>4, <2>2, <3>1, SlotIdRecord DEF SlotId
    <3> QED BY <1>5, <1>6, <2>2, <3>2 DEF OwnSource, SourceIsLive
  <2> QED BY <2>1, <2>2
<1>9. ProxyMoved(o, q, m, proxy.slot)
  BY <1>1, <1>2, <1>8 DEF ProxyMoved
<1> QED BY <1>2, <1>6, <1>9

LEMMA RegisterSharedSourceImplements ==
  ASSUME ViewInv, ViewInv', RegisterSharedSource
  PROVE  Dep!AddSource
<1> PICK id : id = NextId(shared.sources)
  OBVIOUS
<1> PICK m : m = id.slot
  OBVIOUS
<1> PICK X : X = SlotKeys(Shared, m)
  OBVIOUS
<1> PICK s : s = [partition |-> Shared, slot |-> id]
  OBVIOUS
<1>1. /\ NodeAdded(shared.sources, shared'.sources, id)
      /\ shared'.rows = ClearRow(shared.rows, m)
      /\ shared'.consumers = shared.consumers /\ shared'.pending = shared.pending
      /\ DOMAIN owners' = DOMAIN owners
      /\ \A i \in DOMAIN owners : AddedEverywhere(owners[i], owners'[i], id.slot)
  BY RegisterSharedSourceFacts DEF ViewInv, IdentityInv
<1>2. KeysSame
  BY <1>1 DEF KeysSame, AddedEverywhere
<1>3. SameOffSlot(shared.sources, shared'.sources, m)
  BY <1>1, ChangedSlots
<1>4. Swept(X, Shared, shared, shared')
  BY <1>1, <1>2, <1>3, SharedSwept
<1>5. ASSUME NEW i \in DOMAIN owners, NEW p, p = owners[i].key
      PROVE  Swept(X, p, owners[i].graph, owners'[i].graph)
  <2> PICK mi : mi = NextId(owners[i].graph.sources).slot
    OBVIOUS
  <2>1. Faithful(owners[i], shared.sources)
    BY DEF ViewInv, IdentityInv, AllFaithful
  <2>2. /\ ProxyMoved(owners[i], owners'[i], m, mi)
        /\ owners'[i].sharedSources[m].slot = mi
        /\ \A j : NodeIsLive(owners[i].graph.sources, j) => j.slot # mi
    <3>1. /\ AddedEverywhere(owners[i], owners'[i], m)
          /\ m \in DOMAIN owners[i].sharedSources => owners[i].sharedSources[m] = NoProxy
      BY <1>1, <2>1 DEF Faithful, NodeAdded
    <3>2. /\ ProxyMoved(owners[i], owners'[i], m, NextId(owners[i].graph.sources).slot)
          /\ owners'[i].sharedSources[m].slot = NextId(owners[i].graph.sources).slot
          /\ \A j : NodeIsLive(owners[i].graph.sources, j) =>
                j.slot # NextId(owners[i].graph.sources).slot
      BY <3>1, AddedMoves
    <3> QED BY <3>2
  <2>3. ASSUME NEW k \in Ids, NEW n, Local(k, p, n) PROVE n # mi
    <3>1. Local(k, owners[i].key, n)
      BY <1>5, <2>3
    <3>2. n \in DOMAIN owners[i].graph.sources /\ owners[i].graph.sources[n].live
      BY <3>1, LocalIsBehind
    <3> PICK j : j = [slot |-> n, generation |-> owners[i].graph.sources[n].generation]
      OBVIOUS
    <3>3. NodeIsLive(owners[i].graph.sources, j) /\ j.slot = n
      BY <3>2 DEF NodeIsLive
    <3> QED BY <2>2, <3>3
  <2>4. \A k \in Ids \ X : \A n : Local(k, p, n) => n # mi
    BY <2>3
  <2>5. owners'[i].sharedSources[m].slot = mi
    BY <2>2
  <2>6. ProxyMoved(owners[i], owners'[i], m, mi)
    BY <2>2
  <2> QED BY <1>2, <1>3, <1>5, <2>4, <2>5, <2>6, ProxySwept
<1>6. \A q : \A g, h : Pair(q, g, h) => Swept(X, q, g, h)
  BY <1>2, <1>4, <1>5, SweptEverywhere
<1>7. id \in SlotId /\ NodeIsLive(shared'.sources, id)
      /\ \A j : NodeIsLive(shared.sources, j) => j.slot # m
  BY <1>1 DEF NodeAdded, NodeIsLive
<1>8. s \in X
  <2>1. shared' \in GraphOf(Shared)'
    BY DEF GraphOf
  <2>2. s \in Ids
    BY <1>7, <2>1, LiveAfter DEF SourceIsLive
  <2> QED BY <2>2 DEF SlotKeys
<1>9. Turned(X, {}, {s})
  <2>1. ASSUME NEW k \in X PROVE ~IsSource(k) /\ (IsSource(k)' <=> k = s)
    <3>1. k \in Ids /\ k.partition = Shared /\ k.slot.slot = m
      BY <2>1 DEF SlotKeys
    <3>2. /\ IsSource(k) <=> NodeIsLive(shared.sources, k.slot)
          /\ IsSource(k)' <=> NodeIsLive(shared'.sources, k.slot)
      BY <1>2, <3>1, SharedSourcesSeen
    <3>3. NodeIsLive(shared'.sources, k.slot) <=> k.slot = id
      <4>1. NodeIsLive(shared'.sources, k.slot) => k.slot.generation = id.generation
        BY <1>7, <3>1 DEF NodeIsLive
      <4> QED BY <1>7, <3>1, <4>1, IdRecord DEF SlotId
    <3>4. k = s <=> k.slot = id
      BY <3>1, IdRecord
    <3> QED BY <1>7, <3>1, <3>2, <3>3, <3>4
  <2> QED BY <2>1 DEF Turned, SlotKeys
<1> QED BY <1>2, <1>6, <1>8, <1>9, AddedIsAdded

LEMMA RemovedMoves ==
  ASSUME NEW o \in Owner, NEW q, NEW nodes, NEW id, Faithful(o, nodes), NodeIsLive(nodes, id),
         \A t \in DOMAIN o.graph.sources : t # 0,
         RemovedEverywhere(o, q, id.slot)
  PROVE  ProxyMoved(o, q, id.slot, o.sharedSources[id.slot].slot)
<1> PICK m : m = id.slot
  OBVIOUS
<1>1. m \in DOMAIN nodes /\ nodes[m].live /\ DOMAIN o.sharedSources = DOMAIN nodes
  BY DEF NodeIsLive, Faithful
<1> PICK proxy : proxy = o.sharedSources[m]
  OBVIOUS
<1>2. ProxyIn(o, m) = proxy /\ proxy \in Proxies(o)
  BY <1>1, ProxyIsProxy
<1>3. /\ SourceIsLive(o.graph, proxy)
      /\ NodeRemoved(o.graph.sources, q.graph.sources, proxy)
      /\ q.graph.rows = ClearRow(o.graph.rows, proxy.slot)
      /\ q.graph.consumers = o.graph.consumers /\ q.graph.pending = o.graph.pending
      /\ q.sharedSources = [o.sharedSources EXCEPT ![m] = NoProxy]
  BY <1>2 DEF RemovedEverywhere
<1>4. /\ DOMAIN q.sharedSources = DOMAIN o.sharedSources
      /\ q.sharedSources[m] = NoProxy
      /\ \A s \in DOMAIN o.sharedSources : s # m => q.sharedSources[s] = o.sharedSources[s]
  BY <1>1, <1>3
<1>5. \A s \in DOMAIN o.sharedSources : s # m => o.sharedSources[s] # proxy
  <2>1. ASSUME NEW s \in DOMAIN o.sharedSources, s # m, o.sharedSources[s] = proxy PROVE FALSE
    <3>1. proxy # NoProxy
      BY <1>2 DEF Proxies
    <3>2. nodes[s].live
      BY <1>1, <2>1, <3>1 DEF Faithful
    <3> QED BY <1>1, <2>1, <3>2 DEF Faithful
  <2> QED BY <2>1
<1>6. Proxies(q) = Proxies(o) \ {proxy}
  <2>1. \A r : r \in Proxies(q) => r \in Proxies(o) /\ r # proxy
    BY <1>4, <1>5 DEF Proxies
  <2>2. \A r : r \in Proxies(o) /\ r # proxy => r \in Proxies(q)
    BY <1>4 DEF Proxies
  <2> QED BY <2>1, <2>2
<1>7. SameOffSlot(o.graph.sources, q.graph.sources, proxy.slot)
  BY <1>3, ChangedSlots DEF SourceIsLive
<1>8. proxy \in SlotId
  <2>1. o.sharedSources \in Seq(SlotId \cup {NoProxy}) /\ m \in DOMAIN o.sharedSources
    BY <1>1 DEF Owner
  <2>2. proxy \in SlotId \cup {NoProxy} /\ proxy # NoProxy
    BY <1>2, <2>1 DEF Proxies
  <2> QED BY <2>2
<1>9. ASSUME NEW j \in SlotIds PROVE OwnSource(q, j) <=> OwnSource(o, j)
  <2>1. CASE j.slot # proxy.slot
    <3>1. j # proxy
      BY <2>1
    <3> QED BY <1>6, <1>7, <2>1, <3>1 DEF SameOffSlot, OwnSource, SourceIsLive
  <2>2. CASE j.slot = proxy.slot
    <3>1. ~SourceIsLive(q.graph, j)
      BY <1>3, <2>2 DEF NodeRemoved, SourceIsLive, NodeIsLive
    <3>2. SourceIsLive(o.graph, j) => j.generation = proxy.generation
      BY <1>3, <2>2 DEF SourceIsLive, NodeIsLive
    <3>3. SourceIsLive(o.graph, j) => j = proxy
      BY <1>8, <2>2, <3>2, SlotIdRecord DEF SlotId
    <3> QED BY <1>2, <3>1, <3>3 DEF OwnSource
  <2> QED BY <2>1, <2>2
<1> QED BY <1>3, <1>4, <1>9 DEF ProxyMoved

LEMMA RemoveSharedSourceImplements ==
  ASSUME ViewInv, ViewInv', NEW s \in SourceKeys, RemoveSharedSource(s)
  PROVE  Dep!RemoveSource
<1> PICK m : m = s.slot.slot
  OBVIOUS
<1> PICK X : X = SlotKeys(Shared, m)
  OBVIOUS
<1>1. /\ s.partition = Shared /\ NodeIsLive(shared.sources, s.slot)
      /\ NodeRemoved(shared.sources, shared'.sources, s.slot)
      /\ shared'.rows = ClearRow(shared.rows, m)
      /\ shared'.consumers = shared.consumers /\ shared'.pending = shared.pending
      /\ DOMAIN owners' = DOMAIN owners
      /\ \A i \in DOMAIN owners : RemovedEverywhere(owners[i], owners'[i], s.slot.slot)
  <2>1. s.partition = Shared
    BY DEF RemoveSharedSource
  <2> QED BY <2>1, RemoveSharedSourceFacts DEF ViewInv, IdentityInv, SourceIsLive
<1>2. KeysSame
  BY <1>1 DEF KeysSame, RemovedEverywhere
<1>3. SameOffSlot(shared.sources, shared'.sources, m)
  BY <1>1, ChangedSlots
<1>4. Swept(X, Shared, shared, shared')
  BY <1>1, <1>2, <1>3, SharedSwept
<1>5. s \in X /\ s \in Ids
  BY <1>1, KeysAreIds DEF SourceKeys, SlotKeys
<1>6. \A k \in X : ~NodeIsLive(shared'.sources, k.slot)
  BY <1>1 DEF NodeRemoved, NodeIsLive, SlotKeys
<1>7. ASSUME NEW i \in DOMAIN owners, NEW p, p = owners[i].key
      PROVE  Swept(X, p, owners[i].graph, owners'[i].graph)
  <2> PICK mi : mi = owners[i].sharedSources[m].slot
    OBVIOUS
  <2>1. /\ Faithful(owners[i], shared.sources) /\ owners[i] \in Owner
        /\ \A t \in DOMAIN owners[i].graph.sources : t # 0
    BY OwnerTypes, OwnerGraphInv, SlotsFromOne DEF ViewInv, IdentityInv, AllFaithful
  <2>2. ProxyMoved(owners[i], owners'[i], m, mi)
    BY <1>1, <2>1, RemovedMoves
  <2>3. Local(s, p, mi)
    BY <1>1, <1>7, LocalOfKey DEF KnownAs
  <2>4. \A k \in Ids \ X : \A n : Local(k, p, n) => n # mi
    BY <1>5, <2>3, LocalInjective
  <2> QED BY <1>2, <1>3, <1>6, <1>7, <2>2, <2>4, ProxySwept
<1>8. \A q : \A g, h : Pair(q, g, h) => Swept(X, q, g, h)
  BY <1>2, <1>4, <1>7, SweptEverywhere
<1>9. Turned(X, {s}, {})
  <2>1. ASSUME NEW k \in X PROVE (IsSource(k) <=> k = s) /\ ~IsSource(k)'
    <3>1. k \in Ids /\ k.partition = Shared /\ k.slot.slot = m
      BY <2>1 DEF SlotKeys
    <3>2. /\ IsSource(k) <=> NodeIsLive(shared.sources, k.slot)
          /\ IsSource(k)' <=> NodeIsLive(shared'.sources, k.slot)
      BY <1>2, <3>1, SharedSourcesSeen
    <3>3. NodeIsLive(shared.sources, k.slot) => k.slot.generation = s.slot.generation
      BY <1>1, <3>1 DEF NodeIsLive
    <3>4. NodeIsLive(shared.sources, k.slot) => k = s
      BY <1>1, <1>5, <3>1, <3>3, IdRecord
    <3> QED BY <1>1, <1>6, <3>2, <3>4
  <2> QED BY <2>1 DEF Turned, SlotKeys
<1> QED BY <1>2, <1>5, <1>8, <1>9, GoneIsRemoved

-----------------------------------------------------------------------------
(***************************************************************************)
(* Owners come and go with their partition, and no other is touched.       *)
(***************************************************************************)
OwnersOf(p) == {owners[j] : j \in OwnerIndex(p)}

LEMMA PartitionKept ==
  ASSUME shared' = shared, NEW p, OwnersOf(p)' = OwnersOf(p), NEW c, c.partition = p
  PROVE  SameConsumer(c) /\ (IsSource(c)' <=> IsSource(c))
<1>1. GraphOf(p) = IF p = Shared THEN {shared} ELSE {o.graph : o \in OwnersOf(p)}
  BY DEF GraphOf, OwnersOf
<1>2. GraphOf(p)' = IF p = Shared THEN {shared'} ELSE {o.graph : o \in OwnersOf(p)'}
  <2>1. OwnersOf(p)' = {owners'[j] : j \in OwnerIndex(p)'}
    BY DEF OwnersOf
  <2>2. GraphOf(p)' = IF p = Shared THEN {shared'} ELSE {owners'[j].graph : j \in OwnerIndex(p)'}
    BY DEF GraphOf
  <2>3. \A g : g \in {o.graph : o \in OwnersOf(p)'} <=> g \in {owners'[j].graph : j \in OwnerIndex(p)'}
    BY <2>1
  <2>4. {o.graph : o \in OwnersOf(p)'} = {owners'[j].graph : j \in OwnerIndex(p)'}
    BY <2>3
  <2> QED BY <2>2, <2>4
<1>3. GraphOf(p)' = GraphOf(p)
  BY <1>1, <1>2
<1>4. ASSUME NEW k, NEW n PROVE Local(k, p, n)' <=> Local(k, p, n)
  <2> DEFINE Known(o) ==
        \/ k.partition = Shared /\ SourceIsLive(shared, k.slot)
           /\ n = o.sharedSources[k.slot.slot].slot
        \/ k.partition = p /\ OwnSource(o, k.slot) /\ n = k.slot.slot
  <2>1. Local(k, p, n) <=>
          \/ k.partition = Shared /\ p = Shared /\ SourceIsLive(shared, k.slot) /\ n = k.slot.slot
          \/ \E o \in OwnersOf(p) : Known(o)
    BY DEF Local, OwnersOf
  <2>2. Local(k, p, n)' <=>
          \/ k.partition = Shared /\ p = Shared /\ SourceIsLive(shared, k.slot) /\ n = k.slot.slot
          \/ \E o \in OwnersOf(p)' : Known(o)
    BY DEF Local, OwnersOf, OwnSource, SourceIsLive, Proxies
  <2> HIDE DEF Known
  <2> QED BY <2>1, <2>2
<1>5. (IsSource(c) <=> \E n : Local(c, p, n)) /\ (IsSource(c)' <=> \E n : Local(c, p, n)')
  BY DEF IsSource, Local
<1>6. \A t : HasTarget(c, t)' <=> HasTarget(c, t)
  <2>1. \A t : /\ HasTarget(c, t) <=> \E g \in GraphOf(p) : NodeIsLive(g.consumers, c.slot)
                                                   /\ g.consumers[c.slot.slot].target = t
               /\ HasTarget(c, t)' <=> \E g \in GraphOf(p)' : NodeIsLive(g.consumers, c.slot)
                                                   /\ g.consumers[c.slot.slot].target = t
    BY DEF HasTarget, ConsumerIsLive
  <2> QED BY <1>3, <2>1
<1>7. IsDue(c)' <=> IsDue(c)
  <2>1. (IsDue(c) <=> \E g \in GraphOf(p) : c.slot \in Entries(g))
        /\ (IsDue(c)' <=> \E g \in GraphOf(p)' : c.slot \in Entries(g))
    BY DEF IsDue, Entries
  <2> QED BY <1>3, <2>1
<1>8. \A k \in Ids : DependsOn(k, c)' <=> DependsOn(k, c)
  <2>1. \A k : /\ DependsOn(k, c) <=>
                    \E g \in GraphOf(p) : NodeIsLive(g.consumers, c.slot)
                      /\ \E n : Local(k, p, n) /\ <<n, c.slot.slot>> \in g.rows
               /\ DependsOn(k, c)' <=>
                    \E g \in GraphOf(p)' : NodeIsLive(g.consumers, c.slot)
                      /\ \E n : Local(k, p, n)' /\ <<n, c.slot.slot>> \in g.rows
    BY DEF DependsOn, ConsumerIsLive
  <2> QED BY <1>3, <1>4, <2>1
<1> QED BY <1>4, <1>5, <1>6, <1>7, <1>8 DEF SameConsumer

\* Every source of a new owner is a proxy: the ranks of the live shared
\* sources are all the slots it has.
LEMMA NewOwnerProxies ==
  ASSUME GraphInv(shared), NEW key, NEW id \in SlotIds, SourceIsLive(NewOwner(key).graph, id)
  PROVE  id \in Proxies(NewOwner(key))
<1> DEFINE L == LiveSource(shared)
           live == Cardinality(L)
           nodes == shared.sources
           proxies == [s \in 1..live |-> [generation |-> 1, live |-> TRUE]]
           links == [s \in DOMAIN nodes |->
                       IF nodes[s].live THEN [slot |-> ProxySlot(s), generation |-> 1]
                                        ELSE NoProxy]
           o == NewOwner(key)
           f == [s \in L |-> ProxySlot(s)]
<1>1. Faithful(o, nodes) /\ o.sharedSources = links /\ o.graph.sources = proxies
  BY NewOwnerFaithful DEF NewOwner, NewGraph
<1>2. \A s \in L : s \in DOMAIN nodes /\ nodes[s].live
  BY DEF LiveSource
<1>3. IsFiniteSet(L) /\ live \in Nat
  <2>1. Len(nodes) \in Nat /\ L \in SUBSET (1..Len(nodes))
    BY DEF GraphInv, GraphTypeOK, Graph, LiveSource
  <2> HIDE DEF L, nodes
  <2> QED BY <2>1, FiniteSlots
<1> HIDE DEF o, L, live, nodes
<1>4. \A s \in L : links[s] = [slot |-> ProxySlot(s), generation |-> 1]
  BY <1>2
<1>5. id.slot \in 1..live /\ id.generation = 1
  BY <1>1 DEF o, SourceIsLive, NodeIsLive
<1>6. \A s \in L : ProxySlot(s) \in 1..live
  <2>1. ASSUME NEW s \in L PROVE ProxySlot(s) \in 1..live
    <3> DEFINE q == ProxySlot(s)
    <3>1. links[s] = [slot |-> q, generation |-> 1]
      BY <1>4
    <3>2. SourceIsLive(o.graph, links[s])
      BY <1>1, <1>2 DEF Faithful
    <3> HIDE DEF q, links
    <3>3. q \in DOMAIN proxies
      BY <1>1, <3>1, <3>2 DEF SourceIsLive, NodeIsLive
    <3> QED BY <3>3 DEF q
  <2> QED BY <2>1
<1>7. \A s, t \in L : ProxySlot(s) = ProxySlot(t) => s = t
  <2>1. ASSUME NEW s \in L, NEW t \in L, ProxySlot(s) = ProxySlot(t) PROVE s = t
    <3>1. links[s] = links[t]
      BY <1>4, <2>1
    <3> HIDE DEF links
    <3> QED BY <1>1, <1>2, <3>1 DEF Faithful
  <2> QED BY <2>1
<1>8. f \in Injection(L, 1..live)
  BY <1>6, <1>7 DEF Injection, IsInjective
<1>9. IsFiniteSet(1..live) /\ Cardinality(1..live) = live
  BY <1>3, FS_Interval
<1> HIDE DEF f
<1>10. f \in Surjection(L, 1..live)
  BY <1>3, <1>8, <1>9, FS_Injection DEF live
<1>11. PICK s \in L : f[s] = id.slot
  BY <1>5, <1>10 DEF Surjection
<1>12. ProxySlot(s) = id.slot
  BY <1>11 DEF f
<1>13. links[s] = id
  BY <1>4, <1>5, <1>12, SlotIdRecord
<1>14. id # NoProxy
  BY DEF SlotIds, NoProxy
<1>15. s \in DOMAIN o.sharedSources
  BY <1>1, <1>2 DEF Faithful
<1> HIDE DEF links
<1> QED BY <1>1, <1>13, <1>14, <1>15 DEF Proxies, o

LEMMA AddOwnerUnseen ==
  ASSUME ViewInv, ViewInv', NEW w \in Worlds, AddOwner(w)
  PROVE  UNCHANGED <<depSources, depConsumers, depEdges, depPending>>
<1> PICK key : key = OwnerKeyOf(w, nextOwnerEpoch)
  OBVIOUS
<1> PICK n : n = Len(owners)
  OBVIOUS
<1> PICK o : o = NewOwner(key)
  OBVIOUS
<1>1. /\ DOMAIN owners' = 1..(n + 1) /\ owners'[n + 1] = o /\ o.key = key
      /\ \A i \in 1..n : owners'[i] = owners[i]
      /\ shared' = shared /\ n \in Nat /\ DOMAIN owners = 1..n
      /\ OwnerOfWorld(w) = {}
  BY AddOwnerFacts, OwnerTypes DEF ViewInv, IdentityInv
<1>2. OwnerIndex(key) = {} /\ key # Shared
  <2>1. \A i \in DOMAIN owners : owners[i].key # key
    BY <1>1 DEF OwnerOfWorld, OwnerKeyOf
  <2>2. key # Shared
    <3>1. key.world = w /\ Shared.world = "shared"
      BY DEF OwnerKeyOf, Shared
    <3> QED BY <3>1, SharedIsNoWorld
  <2> QED BY <2>1, <2>2 DEF OwnerIndex
<1>3. OwnersOf(key)' = {o}
  <2>1. OwnerIndex(key)' = {n + 1}
    <3>1. \A i \in 1..n : owners'[i].key # key
      BY <1>1, <1>2 DEF OwnerIndex
    <3>2. 1..(n + 1) = (1..n) \cup {n + 1}
      BY <1>1
    <3> QED BY <1>1, <3>1, <3>2 DEF OwnerIndex
  <2> QED BY <1>1, <2>1 DEF OwnersOf
<1>4. ASSUME NEW p, p # key PROVE OwnersOf(p)' = OwnersOf(p)
  <2>1. OwnerIndex(p)' = OwnerIndex(p)
    <3>1. 1..(n + 1) = (1..n) \cup {n + 1} /\ owners'[n + 1].key # p
      BY <1>1, <1>4
    <3>2. OwnerIndex(p)' = {i \in 1..n : owners[i].key = p}
      BY <1>1, <3>1 DEF OwnerIndex
    <3> QED BY <1>1, <3>2 DEF OwnerIndex
  <2>2. OwnerIndex(p) \subseteq 1..n
    BY <1>1 DEF OwnerIndex
  <2> QED BY <1>1, <2>1, <2>2 DEF OwnersOf
<1>5. /\ o.graph.consumers = << >> /\ o.graph.pending = << >>
      /\ \A id \in SlotIds : ~OwnSource(o, id)
  <2>1. o.graph.consumers = << >> /\ o.graph.pending = << >>
    BY DEF NewOwner, NewGraph
  <2>2. \A id \in SlotIds : ~OwnSource(o, id)
    BY SharedGraphInv, NewOwnerProxies DEF OwnSource, ViewInv, IdentityInv
  <2> QED BY <2>1, <2>2
<1>6. ASSUME NEW c \in Ids PROVE SameConsumer(c) /\ (IsSource(c)' <=> IsSource(c))
  <2>1. CASE c.partition # key
    BY <1>1, <1>4, <2>1, PartitionKept
  <2>2. CASE c.partition = key
    <3>1. GraphOf(c.partition) = {} /\ GraphOf(c.partition)' = {o.graph}
      <4>1. GraphOf(key) = {}
        BY <1>2 DEF GraphOf
      <4>2. GraphOf(key)' = {r.graph : r \in OwnersOf(key)'}
        BY <1>2 DEF GraphOf, OwnersOf
      <4>3. GraphOf(key)' = {o.graph}
        BY <1>3, <4>2
      <4> PICK p : p = c.partition
        OBVIOUS
      <4> QED BY <2>2, <4>1, <4>3
    <3>2. ~NodeIsLive(o.graph.consumers, c.slot) /\ c.slot \notin Entries(o.graph)
      BY <1>5 DEF NodeIsLive, Entries
    <3>3. /\ \A t : ~HasTarget(c, t) /\ ~HasTarget(c, t)'
          /\ \A k : ~DependsOn(k, c) /\ ~DependsOn(k, c)'
          /\ ~IsDue(c) /\ ~IsDue(c)'
      BY <3>1, <3>2 DEF HasTarget, DependsOn, IsDue, ConsumerIsLive, Entries
    <3>4. ~IsSource(c) /\ ~IsSource(c)'
      <4>1. ~IsSource(c)
        BY <1>2, <2>2 DEF IsSource, Local
      <4>2. c.slot \in SlotIds /\ ~OwnSource(o, c.slot)
        BY <1>5, IdRecord
      <4>3. IsSource(c)' => \E r \in OwnersOf(key)' : OwnSource(r, c.slot)
        BY <1>2, <2>2 DEF IsSource, Local, OwnersOf, OwnSource, SourceIsLive, Proxies
      <4> QED BY <1>3, <4>1, <4>2, <4>3
    <3> QED BY <3>3, <3>4 DEF SameConsumer
  <2> QED BY <2>1, <2>2
<1>7. Viewed /\ Viewed'
  BY Views, ViewsPrimed
<1> QED BY <1>6, <1>7, SourcesStay, ConsumersStay, EdgesStay, DueStays DEF SameConsumer

LEMMA RemoveOwnerImplements ==
  ASSUME ViewInv, ViewInv', NEW w \in Worlds, RemoveOwner(w)
  PROVE  Dep!DropOwner \/ UNCHANGED <<depSources, depConsumers, depEdges, depPending>>
<1>1. PICK i \in OwnerOfWorld(w) : \E from \in [DOMAIN owners' -> DOMAIN owners \ {i}] :
        /\ \A j \in DOMAIN owners' : owners'[j] = owners[from[j]]
        /\ \A k \in DOMAIN owners \ {i} : \E j \in DOMAIN owners' : from[j] = k
        /\ shared' = shared
  BY RemoveOwnerFacts DEF ViewInv, IdentityInv
<1>2. PICK from \in [DOMAIN owners' -> DOMAIN owners \ {i}] :
        /\ \A j \in DOMAIN owners' : owners'[j] = owners[from[j]]
        /\ \A k \in DOMAIN owners \ {i} : \E j \in DOMAIN owners' : from[j] = k
        /\ shared' = shared
  BY <1>1
<1> PICK key : key = owners[i].key
  OBVIOUS
<1>3. i \in DOMAIN owners /\ key # Shared /\ key \in OwnerKeys
      /\ \A j \in DOMAIN owners \ {i} : owners[j].key # key
  <2>1. i \in DOMAIN owners
    BY DEF OwnerOfWorld
  <2> QED BY <2>1, Partitions DEF OwnerIndex
<1>4. OwnerIndex(key)' = {}
  BY <1>2, <1>3 DEF OwnerIndex
<1>5. ASSUME NEW p, p # key PROVE OwnersOf(p)' = OwnersOf(p)
  <2>1. \A o : o \in OwnersOf(p) <=> \E j \in DOMAIN owners \ {i} : o = owners[j] /\ o.key = p
    BY <1>5 DEF OwnersOf, OwnerIndex
  <2>2. \A o : o \in OwnersOf(p)' <=> \E j \in DOMAIN owners' : o = owners'[j] /\ o.key = p
    BY DEF OwnersOf, OwnerIndex
  <2>3. ASSUME NEW o \in OwnersOf(p) PROVE o \in OwnersOf(p)'
    <3>1. PICK k \in DOMAIN owners \ {i} : o = owners[k] /\ o.key = p
      BY <2>1
    <3>2. PICK j \in DOMAIN owners' : from[j] = k
      BY <1>2
    <3>3. owners'[j] = owners[k]
      BY <1>2, <3>2
    <3> QED BY <2>2, <3>1, <3>3
  <2>4. ASSUME NEW o \in OwnersOf(p)' PROVE o \in OwnersOf(p)
    <3>1. PICK j \in DOMAIN owners' : o = owners'[j] /\ o.key = p
      BY <2>2
    <3>2. owners'[j] = owners[from[j]] /\ from[j] \in DOMAIN owners \ {i}
      BY <1>2
    <3> QED BY <2>1, <3>1, <3>2
  <2> QED BY <2>3, <2>4
<1>6. ASSUME NEW c \in Ids
      PROVE  /\ c.partition # key => SameConsumer(c) /\ (IsSource(c)' <=> IsSource(c))
             /\ c.partition = key => /\ \A t : ~HasTarget(c, t)'
                                     /\ \A k : ~DependsOn(k, c)'
                                     /\ ~IsDue(c)' /\ ~IsSource(c)'
  <2>1. CASE c.partition # key
    BY <1>2, <1>5, <2>1, PartitionKept
  <2>2. CASE c.partition = key
    <3>1. GraphOf(c.partition)' = {}
      BY <1>3, <1>4, <2>2 DEF GraphOf
    <3>2. ~IsSource(c)'
      BY <1>3, <1>4, <2>2 DEF IsSource, Local
    <3> QED BY <2>2, <3>1, <3>2 DEF HasTarget, DependsOn, IsDue
  <2> QED BY <2>1, <2>2
<1>7. Viewed /\ Viewed'
  BY Views, ViewsPrimed
<1> DEFINE Out(k) == k.partition # key
<1>8. depSources' = {k \in depSources : Out(k)}
  BY <1>6, <1>7 DEF Viewed
<1>9. depPending' = {k \in depPending : Out(k)}
  BY <1>6, <1>7 DEF Viewed, SameConsumer
<1>10. depEdges' = {d \in depEdges : Out(d[2])}
  <2>1. ASSUME NEW e \in Ids \X Ids
        PROVE  DependsOn(e[1], e[2])' <=> DependsOn(e[1], e[2]) /\ Out(e[2])
    <3>1. e[1] \in Ids /\ e[2] \in Ids
      OBVIOUS
    <3> QED BY <1>6, <3>1 DEF SameConsumer
  <2> HIDE DEF Out
  <2> QED BY <1>7, <2>1 DEF Viewed
<1>11. depConsumers' = [k \in {k \in DOMAIN depConsumers : Out(k)} |-> depConsumers[k]]
  <2> DEFINE S == {j \in Ids : UsableConsumer(j)}
             T == {j \in Ids : UsableConsumer(j)'}
             U == {k \in S : Out(k)}
  <2>1. depConsumers = [k \in S |-> depConsumers[k]] /\ depConsumers' = [k \in T |-> depConsumers'[k]]
    BY <1>7 DEF Viewed
  <2>2. ASSUME NEW k \in Ids, Out(k)
        PROVE  /\ UsableConsumer(k)' <=> UsableConsumer(k)
               /\ UsableConsumer(k) => depConsumers'[k] = depConsumers[k]
    <3>1. \A t : HasTarget(k, t)' <=> HasTarget(k, t)
      BY <1>6, <2>2 DEF SameConsumer
    <3>2. \A t : /\ HasTarget(k, t) => UsableConsumer(k) /\ depConsumers[k] = t
                 /\ HasTarget(k, t)' => UsableConsumer(k)' /\ depConsumers'[k] = t
      BY <1>7 DEF Viewed
    <3> QED BY <3>1, <3>2, UsableHasTarget, UsableHasTargetPrimed
  <2>3. ASSUME NEW k \in Ids, ~Out(k) PROVE ~UsableConsumer(k)'
    BY <1>6, <2>3, UsableHasTargetPrimed
  <2> HIDE DEF Out
  <2>4. T = U
    BY <2>2, <2>3
  <2>5. \A k \in T : depConsumers'[k] = depConsumers[k]
    BY <2>2, <2>4
  <2>6. {k \in DOMAIN depConsumers : Out(k)} = U
    <3> HIDE DEF S
    <3> QED BY <2>1
  <2> HIDE DEF S, T, U
  <2> QED BY <2>1, <2>4, <2>5, <2>6
<1>12. CASE SlotLimit = 0
  <2>1. Ids = {}
    <3>1. SlotIds = {}
      BY <1>12 DEF SlotIds
    <3> QED BY <3>1 DEF Ids
  <2>2. depSources = {} /\ depPending = {} /\ depEdges = {} /\ DOMAIN depConsumers = {}
    BY <1>7, <2>1 DEF Viewed
  <2>3. depSources' = {} /\ depPending' = {} /\ depEdges' = {}
    BY <1>7, <2>1 DEF Viewed
  <2>4. depConsumers' = depConsumers
    BY <1>7, <2>1, ConsumersStay
  <2> QED BY <2>2, <2>3, <2>4
<1>13. CASE SlotLimit # 0
  <2> PICK s : s = [partition |-> key, slot |-> [slot |-> 1, generation |-> 1]]
    OBVIOUS
  <2>1. s.partition = key
    OBVIOUS
  <2>2. s \in Ids
    <3>1. [slot |-> 1, generation |-> 1] \in SlotIds
      BY <1>13, SlotAssumption, GenerationAssumption DEF SlotIds
    <3> QED BY <1>3, <3>1 DEF Ids, OwnerKeys
  <2> QED BY <1>3, <1>8, <1>9, <1>10, <1>11, <2>1, <2>2 DEF Dep!DropOwner
<1> QED BY <1>12, <1>13

-----------------------------------------------------------------------------
(***************************************************************************)
(* The whole graph against its promise.                                    *)
(***************************************************************************)
LEMMA InitSeen == Init => Dep!Init
<1> SUFFICES ASSUME Init PROVE Dep!Init
  OBVIOUS
<1>1. /\ shared.sources = <<>> /\ shared.consumers = <<>> /\ shared.rows = {}
      /\ shared.pending = <<>> /\ owners = <<>>
  BY DEF Init, NewGraph
<1>2. DOMAIN shared.sources = {} /\ DOMAIN shared.consumers = {} /\ DOMAIN shared.pending = {}
      /\ DOMAIN owners = {}
  BY <1>1
<1>3. depSources = {} /\ depEdges = {} /\ depPending = {}
  BY <1>1, <1>2 DEF depSources, depEdges, depPending, LiveKeys
<1>4. depConsumers = [c \in {} |-> {}]
  BY <1>1, <1>2 DEF depConsumers, LiveKeys
<1> QED BY <1>3, <1>4 DEF Dep!Init

PromiseKept ==
  \/ Dep!Next
  \/ UNCHANGED <<depSources, depConsumers, depEdges, depPending>>

LEMMA StructureImplements ==
  ASSUME ViewInv, ViewInv', Structure
  PROVE  PromiseKept
<1>1. ASSUME Growing PROVE PromiseKept
  BY <1>1, GrowthUnseen DEF PromiseKept
<1>2. ASSUME NEW w \in Worlds, AddOwner(w) PROVE PromiseKept
  BY <1>2, AddOwnerUnseen DEF PromiseKept
<1>3. ASSUME NEW w \in Worlds, RemoveOwner(w) PROVE PromiseKept
  BY <1>3, RemoveOwnerImplements DEF PromiseKept, Dep!Next
<1> QED BY <1>1, <1>2, <1>3 DEF Structure, Growing

LEMMA SourceStepImplements ==
  ASSUME ViewInv, ViewInv', SourceStep
  PROVE  PromiseKept
<1>1. ASSUME RegisterSharedSource PROVE PromiseKept
  BY <1>1, RegisterSharedSourceImplements DEF PromiseKept, Dep!Next
<1>2. ASSUME NEW w \in Worlds, RegisterOwnerSource(w) PROVE PromiseKept
  BY <1>2, RegisterOwnerSourceImplements DEF PromiseKept, Dep!Next
<1>3. ASSUME NEW source \in SourceKeys, RenewOwnerSource(source) PROVE PromiseKept
  BY <1>3, RenewOwnerSourceImplements DEF PromiseKept, Dep!Next
<1>4. ASSUME NEW source \in SourceKeys, RemoveSharedSource(source) PROVE PromiseKept
  BY <1>4, RemoveSharedSourceImplements DEF PromiseKept, Dep!Next
<1>5. ASSUME NEW source \in SourceKeys, RemoveOwnerSource(source) PROVE PromiseKept
  BY <1>5, RemoveOwnerSourceImplements DEF PromiseKept, Dep!Next
<1>6. ASSUME NEW source \in SourceKeys, NEW kind \in {"Any", "Computed"},
             PublishShared(source, kind)
      PROVE  PromiseKept
  BY <1>6, PublishSharedImplements DEF PromiseKept, Dep!Next
<1>7. ASSUME NEW source \in SourceKeys, NEW kind \in {"Any", "Computed"},
             PublishOwner(source, kind)
      PROVE  PromiseKept
  BY <1>7, PublishOwnerImplements DEF PromiseKept, Dep!Next
<1> QED BY <1>1, <1>2, <1>3, <1>4, <1>5, <1>6, <1>7 DEF SourceStep

LEMMA ConsumerStepImplements ==
  ASSUME ViewInv, ViewInv', ConsumerStep
  PROVE  PromiseKept
<1>1. QuietStep
  BY ConsumersQuiet DEF ViewInv, IdentityInv
<1>2. Keys \subseteq Ids /\ SourceKeys \subseteq Ids
  BY KeysAreIds DEF SourceKeys
<1>3. ASSUME NEW key \in PartitionKeys, NEW target \in Subscriber, RegisterConsumer(key, target)
      PROVE  PromiseKept
  BY <1>1, <1>3, RegisterConsumerImplements DEF PromiseKept, Dep!Next
<1>4. ASSUME NEW consumer \in Keys, ClearConsumerEdges(consumer) PROVE PromiseKept
  BY <1>1, <1>2, <1>4, ClearConsumerImplements DEF PromiseKept, Dep!Next
<1>5. ASSUME NEW consumer \in Keys, RemoveConsumerNode(consumer) PROVE PromiseKept
  BY <1>1, <1>2, <1>5, RemoveConsumerImplements DEF PromiseKept, Dep!Next
<1>6. ASSUME NEW consumer \in Keys, NEW source \in SourceKeys, SubscribeShared(source, consumer)
      PROVE  PromiseKept
  BY <1>1, <1>2, <1>6, SubscribeSharedImplements DEF PromiseKept, Dep!Next
<1>7. ASSUME NEW consumer \in Keys, NEW source \in SourceKeys, SubscribeInOwner(source, consumer)
      PROVE  PromiseKept
  BY <1>1, <1>7, SubscribeInOwnerImplements DEF PromiseKept, Dep!Next
<1>8. ASSUME NEW kind, TakePendingAnyKind(kind) PROVE PromiseKept
  BY <1>8, TakePendingImplements DEF PromiseKept, Dep!Next
<1> QED BY <1>3, <1>4, <1>5, <1>6, <1>7, <1>8 DEF ConsumerStep

LEMMA IdleUnseen ==
  ASSUME UNCHANGED vars
  PROVE  UNCHANGED <<depSources, depConsumers, depEdges, depPending>>
<1>1. shared' = shared /\ owners' = owners
  BY DEF vars
<1>2. depSources' = depSources
  BY <1>1 DEF depSources, LiveKeys, Key, Proxies
<1>3. depConsumers' = depConsumers
  BY <1>1 DEF depConsumers, LiveKeys, Key, GraphOf, OwnerIndex
<1>4. depEdges' = depEdges
  BY <1>1 DEF depEdges, SourceBehind, Key, Proxies
<1>5. depPending' = depPending
  BY <1>1 DEF depPending
<1> QED BY <1>2, <1>3, <1>4, <1>5

LEMMA StepImplements ==
  ASSUME ViewInv, ViewInv', [Next]_vars
  PROVE  [Dep!Next]_<<depSources, depConsumers, depEdges, depPending>>
<1>1. CASE Structure
  BY <1>1, StructureImplements DEF PromiseKept
<1>2. CASE SourceStep
  BY <1>2, SourceStepImplements DEF PromiseKept
<1>3. CASE ConsumerStep
  BY <1>3, ConsumerStepImplements DEF PromiseKept
<1>4. CASE UNCHANGED vars
  BY <1>4, IdleUnseen
<1> QED BY <1>1, <1>2, <1>3, <1>4 DEF Next

\* The partitioned graph, with its slots, generations, proxies, bit rows and
\* queues, is indistinguishable to its client from the plain dependencies of
\* Dependencies: a publication makes due exactly the live dependents of its
\* kind, in all partitions at once; renewal and removal drop the dependencies on
\* the old key and nothing else; dropping an owner takes its own partition only;
\* growth and a failed call change nothing (ReactiveGraph, core/reactive/graph.rs).
THEOREM Implementation == Spec => ImplementsDependencies
<1>1. Init => Dep!Init
  BY InitSeen
<1>2. ViewInv /\ ViewInv' /\ [Next]_vars
        => [Dep!Next]_<<depSources, depConsumers, depEdges, depPending>>
  BY StepImplements
<1> QED
  BY <1>1, <1>2, ViewsHold, PTL DEF Spec, ImplementsDependencies, Dep!Spec, Dep!depVars
=============================================================================
