-------------------------- MODULE BitGraph_proofs --------------------------
(***************************************************************************)
(* Every operation of one partition preserves GraphInv, and under GraphInv *)
(* a publication always fits into the pending queue.                       *)
(***************************************************************************)
EXTENDS BitGraph, FiniteSetTheorems, WellFoundedInduction, TLAPS

-----------------------------------------------------------------------------
(***************************************************************************)
(* Naturals and enumerations.                                              *)
(***************************************************************************)

\* A set of natural numbers that is not empty has a least element.
LEMMA LeastNatural ==
  ASSUME NEW T \in SUBSET Nat, T # {}
  PROVE  \E x \in T : \A y \in T : x <= y
<1> DEFINE R == {ss \in Nat \X Nat : ss[1] < ss[2]}
<1>1. IsWellFoundedOn(R, Nat)
  BY NatLessThanWellFounded DEF OpToRel
<1>2. \A x, y \in Nat : y < x => <<y, x>> \in R
  OBVIOUS
<1> HIDE DEF R
<1>3. PICK x \in T : \A y \in T : <<y, x>> \notin R
  BY <1>1, WFMin
<1>4. \A y \in T : ~(y < x)
  BY <1>2, <1>3
<1> QED BY <1>3, <1>4

\* What Kept chooses: an enumeration of K in increasing order.
Increasing(f, n) == \A i, j \in 1..n : i < j => f[i] < f[j]

Enumerated(n) ==
  \A K \in SUBSET (1..n) :
    \E f \in [1..Cardinality(K) -> K] : Increasing(f, Cardinality(K))

LEMMA FiniteSlots ==
  ASSUME NEW n \in Nat, NEW K \in SUBSET (1..n)
  PROVE  /\ IsFiniteSet(K)
         /\ Cardinality(K) \in Nat
         /\ Cardinality(K) <= n
<1>1. IsFiniteSet(1..n) /\ Cardinality(1..n) = n
  <2>1. 1 \in Int /\ n \in Int
    OBVIOUS
  <2>2. IsFiniteSet(1..n) /\ Cardinality(1..n) = IF 1 > n THEN 0 ELSE n - 1 + 1
    BY <2>1, FS_Interval
  <2> QED BY <2>2
<1>2. IsFiniteSet(K) /\ Cardinality(K) <= Cardinality(1..n)
  BY <1>1, FS_Subset
<1>3. Cardinality(K) \in Nat
  BY <1>2, FS_CardinalityType
<1> QED BY <1>1, <1>2, <1>3

\* Every set of slots can be enumerated in increasing order (by induction on
\* the largest slot).
LEMMA EnumerationExists == \A n \in Nat : Enumerated(n)
<1> DEFINE T == {n \in Nat : ~Enumerated(n)}
<1>1. SUFFICES ASSUME T # {} PROVE FALSE
  OBVIOUS
<1>2. PICK m \in T : \A y \in T : m <= y
  BY <1>1, LeastNatural
<1>3. m \in Nat /\ ~Enumerated(m)
  OBVIOUS
<1>4. PICK K \in SUBSET (1..m) :
        ~ \E f \in [1..Cardinality(K) -> K] : Increasing(f, Cardinality(K))
  BY <1>3 DEF Enumerated
<1>5. CASE m = 0
  <2>1. K = {}
    BY <1>4, <1>5
  <2>2. Cardinality(K) = 0
    BY <2>1, FS_EmptySet
  <2>3. [i \in 1..0 |-> i] \in [1..0 -> K] /\ Increasing([i \in 1..0 |-> i], 0)
    BY DEF Increasing
  <2> QED BY <1>4, <2>2, <2>3
<1>6. CASE m # 0
  <2>1. m - 1 \in Nat /\ Enumerated(m - 1)
    <3>1. m - 1 \in Nat /\ m - 1 < m
      BY <1>3, <1>6
    <3>2. m - 1 \notin T
      BY <1>2, <1>3, <3>1
    <3> QED BY <3>1, <3>2
  <2>2. CASE m \notin K
    <3>1. K \in SUBSET (1..(m - 1))
      BY <1>3, <1>6, <2>2
    <3> QED BY <1>4, <2>1, <3>1 DEF Enumerated
  <2>3. CASE m \in K
    <3> DEFINE L == K \ {m}
               c == Cardinality(L)
    <3>1. L \in SUBSET (1..(m - 1)) /\ m \notin L /\ K = L \cup {m}
      BY <1>3, <1>6, <2>3
    <3>2. IsFiniteSet(L) /\ c \in Nat
      BY <2>1, <3>1, FiniteSlots
    <3>3. Cardinality(K) = c + 1
      BY <3>1, <3>2, FS_AddElement
    <3> HIDE DEF c
    <3>4. PICK f \in [1..c -> L] : Increasing(f, c)
      BY <2>1, <3>1 DEF Enumerated, c
    <3> DEFINE h == [i \in 1..(c + 1) |-> IF i = c + 1 THEN m ELSE f[i]]
    <3>5. h \in [1..(c + 1) -> K]
      BY <3>1, <3>2, <3>4
    <3>6. \A i \in 1..c : f[i] < m
      <4>1. \A i \in 1..c : f[i] \in 1..(m - 1)
        BY <3>1, <3>4
      <4> QED BY <1>3, <4>1
    <3>7. Increasing(h, c + 1)
      BY <3>2, <3>4, <3>6 DEF Increasing
    <3> QED BY <1>4, <3>3, <3>5, <3>7
  <2> QED BY <2>2, <2>3
<1> QED BY <1>3, <1>5, <1>6

-----------------------------------------------------------------------------
(***************************************************************************)
(* Kept: which entries stay, each once.                                    *)
(***************************************************************************)
Order(K) ==
  CHOOSE f \in [1..Cardinality(K) -> K] :
    \A i, j \in 1..Cardinality(K) : i < j => f[i] < f[j]

LEMMA OrderProperties ==
  ASSUME NEW n \in Nat, NEW K \in SUBSET (1..n)
  PROVE  /\ Order(K) \in [1..Cardinality(K) -> K]
         /\ \A i, j \in 1..Cardinality(K) : Order(K)[i] = Order(K)[j] => i = j
         /\ \A k \in K : \E i \in 1..Cardinality(K) : Order(K)[i] = k
<1> DEFINE c == Cardinality(K)
           f == Order(K)
<1>1. IsFiniteSet(K) /\ c \in Nat
  BY FiniteSlots
<1>2. f \in [1..c -> K] /\ Increasing(f, c)
  <2>1. \E h \in [1..c -> K] : \A i, j \in 1..c : i < j => h[i] < h[j]
    BY EnumerationExists DEF Enumerated, Increasing
  <2> QED BY <2>1 DEF Order, Increasing
<1> HIDE DEF c, f
<1>3. \A i, j \in 1..c : f[i] = f[j] => i = j
  <2>1. \A i \in 1..c : f[i] \in 1..n
    BY <1>2
  <2>2. \A i, j \in 1..c : i < j => f[i] # f[j]
    BY <1>2, <2>1 DEF Increasing
  <2> QED BY <1>1, <2>2
<1>4. f \in Injection(1..c, K)
  BY <1>2, <1>3 DEF Injection, IsInjective
<1>5. Cardinality(1..c) = Cardinality(K)
  <2>1. Cardinality(1..c) = c
    BY <1>1, FS_Interval
  <2> QED BY <2>1 DEF c
<1>6. f \in Surjection(1..c, K)
  BY <1>1, <1>4, <1>5, FS_Injection
<1> QED BY <1>2, <1>3, <1>6 DEF Surjection, c, f

KeptFacts(S, q, K, r) ==
  /\ r \in Seq(S)
  /\ Len(r) = Cardinality(K)
  /\ Len(r) <= Len(q)
  /\ \A i \in DOMAIN r : \E k \in K : r[i] = q[k]
  /\ \A k \in K : \E i \in DOMAIN r : r[i] = q[k]
  /\ \A i, j \in DOMAIN r :
       i # j => \E k, l \in K : k # l /\ r[i] = q[k] /\ r[j] = q[l]

LEMMA KeptProperties ==
  ASSUME NEW S, NEW q \in Seq(S), NEW K \in SUBSET (DOMAIN q)
  PROVE  KeptFacts(S, q, K, Kept(q, K))
<1> DEFINE c == Cardinality(K)
           f == Order(K)
           r == Kept(q, K)
<1>1. Len(q) \in Nat /\ DOMAIN q = 1..Len(q)
  OBVIOUS
<1>2. c \in Nat /\ c <= Len(q)
  BY <1>1, FiniteSlots
<1>3. /\ f \in [1..c -> K]
      /\ \A i, j \in 1..c : f[i] = f[j] => i = j
      /\ \A k \in K : \E i \in 1..c : f[i] = k
  BY <1>1, OrderProperties
<1>4. r = [i \in 1..c |-> q[f[i]]]
  BY DEF Kept, Order
<1> HIDE DEF c, f, r
<1>5. \A i \in 1..c : f[i] \in K /\ q[f[i]] \in S
  BY <1>1, <1>3
<1>6. r \in [1..c -> S]
  BY <1>4, <1>5
<1>7. r \in Seq(S) /\ Len(r) = c /\ DOMAIN r = 1..c
  BY <1>2, <1>6
<1>8. \A i \in 1..c : r[i] = q[f[i]]
  BY <1>4
<1>9. \A k \in K : \E i \in DOMAIN r : r[i] = q[k]
  BY <1>3, <1>7, <1>8
<1>10. \A i, j \in DOMAIN r :
         i # j => \E k, l \in K : k # l /\ r[i] = q[k] /\ r[j] = q[l]
  BY <1>3, <1>5, <1>7, <1>8
<1>11. \A i \in DOMAIN r : \E k \in K : r[i] = q[k]
  BY <1>5, <1>7, <1>8
<1> QED BY <1>2, <1>7, <1>9, <1>10, <1>11 DEF KeptFacts, c, r

-----------------------------------------------------------------------------
(***************************************************************************)
(* Slots.                                                                  *)
(***************************************************************************)
PlaceFacts(S, nodes, s, node, r) ==
  /\ r \in Seq(S)
  /\ Len(r) = IF s = Len(nodes) + 1 THEN s ELSE Len(nodes)
  /\ DOMAIN r = DOMAIN nodes \cup {s}
  /\ r[s] = node
  /\ \A i \in DOMAIN nodes : i # s => r[i] = nodes[i]

LEMMA PlaceProperties ==
  ASSUME NEW S, NEW nodes \in Seq(S), NEW s \in 1..(Len(nodes) + 1), NEW node \in S
  PROVE  PlaceFacts(S, nodes, s, node, Place(nodes, s, node))
<1> DEFINE m == IF s = Len(nodes) + 1 THEN s ELSE Len(nodes)
           r == Place(nodes, s, node)
<1>1. Len(nodes) \in Nat /\ DOMAIN nodes = 1..Len(nodes)
  OBVIOUS
<1>2. DOMAIN nodes \cup {s} = 1..m /\ m \in Nat
  BY <1>1
<1>3. r = [i \in 1..m |-> IF i = s THEN node ELSE nodes[i]]
  BY <1>2 DEF Place
<1>4. \A i \in 1..m : (IF i = s THEN node ELSE nodes[i]) \in S
  BY <1>1, <1>2
<1> HIDE DEF m, r
<1>5. r \in [1..m -> S]
  BY <1>3, <1>4
<1>6. r \in Seq(S) /\ Len(r) = m /\ DOMAIN r = 1..m
  BY <1>2, <1>5
<1>7. r[s] = node /\ \A i \in DOMAIN nodes : i # s => r[i] = nodes[i]
  BY <1>2, <1>3
<1> QED BY <1>2, <1>6, <1>7 DEF PlaceFacts, m, r

\* Where the next source or consumer goes: a dead slot with a generation left,
\* or a new slot when the limit allows one.
NextIdFacts(nodes, limit, id) ==
  /\ id \in SlotId
  /\ id.slot \in 1..(Len(nodes) + 1)
  /\ id.slot \in DOMAIN nodes => ~nodes[id.slot].live
  /\ id.slot = Len(nodes) + 1 => Len(nodes) < limit
  /\ id.generation \in 1..MaxGeneration

LEMMA NextIdProperties ==
  ASSUME NEW S, NEW nodes \in Seq(S),
         \A i \in DOMAIN nodes : nodes[i].generation \in 1..MaxGeneration,
         NEW limit \in Nat, Len(nodes) <= limit,
         Reusable(nodes) # {} \/ Len(nodes) < limit
  PROVE  NextIdFacts(nodes, limit, NextId(nodes))
<1> DEFINE s == NextSlot(nodes)
<1>1. Len(nodes) \in Nat /\ DOMAIN nodes = 1..Len(nodes) /\ MaxGeneration \in Nat \ {0}
  BY GenerationAssumption
<1>2. CASE Reusable(nodes) = {}
  <2>1. s = Len(nodes) + 1 /\ s \notin DOMAIN nodes
    BY <1>1, <1>2 DEF NextSlot
  <2> QED BY <1>1, <1>2, <2>1 DEF NextId, SlotId, NextIdFacts
<1>3. CASE Reusable(nodes) # {}
  <2>1. Reusable(nodes) \in SUBSET Nat
    BY <1>1 DEF Reusable
  <2>2. \E t \in Reusable(nodes) : \A u \in Reusable(nodes) : t <= u
    BY <1>3, <2>1, LeastNatural
  <2>3. s \in Reusable(nodes)
    BY <1>3, <2>2 DEF NextSlot
  <2>4. s \in DOMAIN nodes /\ ~nodes[s].live /\ nodes[s].generation < MaxGeneration
    BY <2>3 DEF Reusable
  <2>5. s \in 1..Len(nodes) /\ s \in Nat \ {0} /\ nodes[s].generation + 1 \in 1..MaxGeneration
    BY <1>1, <2>4
  <2> HIDE DEF s
  <2>6. NextId(nodes) = [slot |-> s, generation |-> nodes[s].generation + 1]
    BY <2>4 DEF NextId, s
  <2> QED BY <1>1, <2>4, <2>5, <2>6 DEF SlotId, NextIdFacts, s
<1> QED BY <1>2, <1>3

-----------------------------------------------------------------------------
(***************************************************************************)
(* Every operation preserves GraphInv.                                     *)
(***************************************************************************)
\* What an operation other than AddSource and Grown leaves alone.
SameFrame(g, h) ==
  /\ h.sourceLimit = g.sourceLimit
  /\ h.consumerLimit = g.consumerLimit
  /\ Len(h.sources) = Len(g.sources)

LEMMA NewGraphInv ==
  ASSUME NEW sl \in Nat, NEW cl \in Nat
  PROVE  GraphInv(NewGraph(sl, cl))
BY DEF GraphInv, GraphTypeOK, Graph, EdgesLive, QueueExact, QueueEntriesFlagged,
       QueueEntriesDistinct, FlaggedAreQueued, NewGraph

LEMMA GrownInv ==
  ASSUME NEW g, GraphInv(g), NEW sl \in Nat, NEW cl \in Nat,
         g.sourceLimit <= sl, g.consumerLimit <= cl
  PROVE  GraphInv(Grown(g, sl, cl))
<1>1. Grown(g, sl, cl) \in Graph
  BY DEF GraphInv, GraphTypeOK, Graph, Grown
<1>2. Len(g.sources) <= sl /\ Len(g.consumers) <= cl
  <2>1. Len(g.sources) \in Nat /\ Len(g.consumers) \in Nat
    BY DEF GraphInv, GraphTypeOK, Graph
  <2> QED BY <2>1 DEF GraphInv, GraphTypeOK, Graph
<1>3. GraphTypeOK(Grown(g, sl, cl))
  BY <1>1, <1>2 DEF GraphInv, GraphTypeOK, Graph, Grown
<1> QED
  BY <1>3 DEF GraphInv, EdgesLive, QueueExact, QueueEntriesFlagged, QueueEntriesDistinct,
     FlaggedAreQueued, Grown, GraphTypeOK, Graph, ConsumerIsLive, NodeIsLive

LEMMA AddSourceInv ==
  ASSUME NEW g, GraphInv(g), CanAddSource(g)
  PROVE  /\ GraphInv(AddSource(g))
         /\ AddSource(g).sourceLimit = g.sourceLimit
         /\ AddSource(g).consumerLimit = g.consumerLimit
         /\ NextId(g.sources) \in SlotId
<1> DEFINE id == NextId(g.sources)
           node == [generation |-> id.generation, live |-> TRUE]
           r == Place(g.sources, id.slot, node)
           h == AddSource(g)
<1>1. g \in Graph /\ GraphTypeOK(g) /\ EdgesLive(g) /\ QueueExact(g)
  BY DEF GraphInv, GraphTypeOK
<1>2. NextIdFacts(g.sources, g.sourceLimit, id)
  <2>1. /\ g.sources \in Seq(SourceNode) /\ g.sourceLimit \in Nat
        /\ Len(g.sources) <= g.sourceLimit
    BY <1>1 DEF GraphTypeOK, Graph
  <2>2. \A i \in DOMAIN g.sources : g.sources[i].generation \in 1..MaxGeneration
    <3>1. \A i \in DOMAIN g.sources : g.sources[i] \in SourceNode
      BY <2>1
    <3> QED BY <3>1 DEF SourceNode
  <2>3. Reusable(g.sources) # {} \/ Len(g.sources) < g.sourceLimit
    BY DEF CanAddSource
  <2> QED BY <2>1, <2>2, <2>3, NextIdProperties
<1>3. g.sources \in Seq(SourceNode) /\ id.slot \in 1..(Len(g.sources) + 1) /\ node \in SourceNode
  BY <1>1, <1>2 DEF Graph, SourceNode, NextIdFacts
<1>4. h = [g EXCEPT !.sources = r, !.rows = ClearRow(g.rows, id.slot)]
  BY DEF AddSource
<1>5. id \in SlotId
  BY <1>2 DEF NextIdFacts
<1> HIDE DEF id, node
<1>6. PlaceFacts(SourceNode, g.sources, id.slot, node, r)
  BY <1>3, PlaceProperties
<1> HIDE DEF h, r
<1>7. /\ h.sources = r /\ h.rows = ClearRow(g.rows, id.slot)
      /\ h.consumers = g.consumers /\ h.pending = g.pending
      /\ h.sourceLimit = g.sourceLimit /\ h.consumerLimit = g.consumerLimit
      /\ h \in Graph
  BY <1>1, <1>4, <1>6 DEF Graph, ClearRow, PlaceFacts
<1>8. GraphTypeOK(h)
  <2>1. Len(r) <= g.sourceLimit
    BY <1>1, <1>2, <1>3, <1>6 DEF GraphTypeOK, Graph, PlaceFacts, NextIdFacts
  <2> QED BY <1>1, <1>6, <1>7, <2>1 DEF GraphTypeOK, ClearRow, PlaceFacts
<1>9. EdgesLive(h)
  BY <1>1, <1>6, <1>7 DEF EdgesLive, ClearRow, GraphTypeOK, PlaceFacts, node
<1>10. QueueExact(h)
  BY <1>1, <1>7 DEF QueueExact, QueueEntriesFlagged, QueueEntriesDistinct,
     FlaggedAreQueued, ConsumerIsLive, NodeIsLive
<1> QED BY <1>5, <1>7, <1>8, <1>9, <1>10 DEF GraphInv, h, id

LEMMA AddConsumerInv ==
  ASSUME NEW g, GraphInv(g), CanAddConsumer(g), NEW target \in Subscriber
  PROVE  LET h == AddConsumer(g, target)
         IN  GraphInv(h) /\ SameFrame(g, h)
<1> DEFINE id == NextId(g.consumers)
           node == [generation |-> id.generation, live |-> TRUE,
                    pending |-> FALSE, target |-> target]
           r == Place(g.consumers, id.slot, node)
           h == AddConsumer(g, target)
<1>1. g \in Graph /\ GraphTypeOK(g) /\ EdgesLive(g) /\ QueueExact(g)
  BY DEF GraphInv, GraphTypeOK
<1>2. NextIdFacts(g.consumers, g.consumerLimit, id)
  <2>1. /\ g.consumers \in Seq(ConsumerNode) /\ g.consumerLimit \in Nat
        /\ Len(g.consumers) <= g.consumerLimit
    BY <1>1 DEF GraphTypeOK, Graph
  <2>2. \A i \in DOMAIN g.consumers : g.consumers[i].generation \in 1..MaxGeneration
    <3>1. \A i \in DOMAIN g.consumers : g.consumers[i] \in ConsumerNode
      BY <2>1
    <3> QED BY <3>1 DEF ConsumerNode
  <2>3. Reusable(g.consumers) # {} \/ Len(g.consumers) < g.consumerLimit
    BY DEF CanAddConsumer
  <2> QED BY <2>1, <2>2, <2>3, NextIdProperties
<1>3. /\ g.consumers \in Seq(ConsumerNode)
      /\ id.slot \in 1..(Len(g.consumers) + 1)
      /\ node \in ConsumerNode
  BY <1>1, <1>2 DEF Graph, ConsumerNode, NextIdFacts
<1>4. h = [g EXCEPT !.consumers = r, !.rows = ClearColumn(g.rows, id.slot)]
  BY DEF AddConsumer
<1>5. node.live /\ ~node.pending
  OBVIOUS
<1> HIDE DEF id, node
<1>6. PlaceFacts(ConsumerNode, g.consumers, id.slot, node, r)
  BY <1>3, PlaceProperties
<1> HIDE DEF h, r
<1>7. /\ h.consumers = r /\ h.rows = ClearColumn(g.rows, id.slot)
      /\ h.sources = g.sources /\ h.pending = g.pending
      /\ h.sourceLimit = g.sourceLimit /\ h.consumerLimit = g.consumerLimit
      /\ h \in Graph
  BY <1>1, <1>4, <1>6 DEF Graph, ClearColumn, PlaceFacts
<1>8. GraphTypeOK(h)
  <2>1. Len(r) <= g.consumerLimit
    BY <1>1, <1>2, <1>3, <1>6 DEF GraphTypeOK, Graph, PlaceFacts, NextIdFacts
  <2> QED BY <1>1, <1>6, <1>7, <2>1 DEF GraphTypeOK, ClearColumn, PlaceFacts
<1>9. EdgesLive(h)
  BY <1>1, <1>6, <1>7 DEF EdgesLive, ClearColumn, GraphTypeOK, PlaceFacts
<1>10. \A i \in DOMAIN g.pending : g.pending[i].slot # id.slot
  BY <1>1, <1>2 DEF QueueExact, QueueEntriesFlagged, ConsumerIsLive, NodeIsLive, NextIdFacts
<1>11. QueueEntriesFlagged(h)
  BY <1>1, <1>6, <1>7, <1>10 DEF QueueExact, QueueEntriesFlagged, ConsumerIsLive, NodeIsLive, PlaceFacts
<1>12. FlaggedAreQueued(h)
  BY <1>1, <1>5, <1>6, <1>7 DEF QueueExact, FlaggedAreQueued, PlaceFacts
<1>13. QueueExact(h)
  BY <1>1, <1>7, <1>11, <1>12 DEF QueueExact, QueueEntriesDistinct
<1> QED BY <1>7, <1>8, <1>9, <1>13 DEF GraphInv, SameFrame, h

LEMMA RemoveSourceInv ==
  ASSUME NEW g, GraphInv(g), NEW id, SourceIsLive(g, id)
  PROVE  LET h == RemoveSource(g, id)
         IN  GraphInv(h) /\ SameFrame(g, h)
<1> DEFINE h == RemoveSource(g, id)
<1>1. g \in Graph /\ GraphTypeOK(g) /\ EdgesLive(g) /\ QueueExact(g)
  BY DEF GraphInv, GraphTypeOK
<1>2. id.slot \in DOMAIN g.sources /\ g.sources \in Seq(SourceNode)
  BY <1>1 DEF SourceIsLive, NodeIsLive, Graph
<1> DEFINE r == [g.sources EXCEPT ![id.slot].live = FALSE]
<1>3. /\ r \in Seq(SourceNode) /\ Len(r) = Len(g.sources) /\ DOMAIN r = DOMAIN g.sources
      /\ \A i \in DOMAIN g.sources : i # id.slot => r[i] = g.sources[i]
  <2>1. [g.sources[id.slot] EXCEPT !.live = FALSE] \in SourceNode
    <3>1. g.sources[id.slot] \in SourceNode
      BY <1>2
    <3> QED BY <3>1 DEF SourceNode
  <2> QED BY <1>2, <2>1
<1>4. h = [g EXCEPT !.sources = r, !.rows = ClearRow(g.rows, id.slot)]
  BY <1>1 DEF RemoveSource, Graph
<1> HIDE DEF h, r
<1>5. /\ h.sources = r /\ h.rows = ClearRow(g.rows, id.slot)
      /\ h.consumers = g.consumers /\ h.pending = g.pending
      /\ h.sourceLimit = g.sourceLimit /\ h.consumerLimit = g.consumerLimit
      /\ h \in Graph
  BY <1>1, <1>3, <1>4 DEF Graph, ClearRow
<1>6. GraphTypeOK(h)
  BY <1>1, <1>3, <1>5 DEF GraphTypeOK, ClearRow
<1>7. EdgesLive(h)
  BY <1>1, <1>3, <1>5 DEF EdgesLive, ClearRow, GraphTypeOK
<1>8. QueueExact(h)
  BY <1>1, <1>5 DEF QueueExact, QueueEntriesFlagged, QueueEntriesDistinct,
     FlaggedAreQueued, ConsumerIsLive, NodeIsLive
<1> QED BY <1>3, <1>5, <1>6, <1>7, <1>8 DEF GraphInv, SameFrame, h

LEMMA RenewSourceInv ==
  ASSUME NEW g, GraphInv(g), NEW id, SourceIsLive(g, id)
  PROVE  LET h == RenewSource(g, id)
         IN  GraphInv(h) /\ SameFrame(g, h)
<1> DEFINE h == RenewSource(g, id)
<1>1. g \in Graph /\ GraphTypeOK(g) /\ EdgesLive(g) /\ QueueExact(g)
  BY DEF GraphInv, GraphTypeOK
<1>2. id.slot \in DOMAIN g.sources /\ g.sources \in Seq(SourceNode)
  BY <1>1 DEF SourceIsLive, NodeIsLive, Graph
<1> DEFINE old == g.sources[id.slot]
           node == Renewed(old)
           r == [g.sources EXCEPT ![id.slot] = node]
<1>3. node \in SourceNode
  <2>1. old \in SourceNode
    BY <1>2
  <2>2. MaxGeneration \in Nat \ {0}
    BY GenerationAssumption
  <2> HIDE DEF old
  <2>3. CASE old.generation = MaxGeneration
    BY <2>1, <2>2, <2>3 DEF SourceNode, Renewed
  <2>4. CASE old.generation # MaxGeneration
    BY <2>1, <2>2, <2>4 DEF SourceNode, Renewed
  <2> QED BY <2>3, <2>4
<1>4. h = [g EXCEPT !.rows = ClearRow(g.rows, id.slot), !.sources = r]
  BY <1>1 DEF RenewSource, Graph
<1> HIDE DEF node, h
<1>5. /\ r \in Seq(SourceNode) /\ Len(r) = Len(g.sources) /\ DOMAIN r = DOMAIN g.sources
      /\ \A i \in DOMAIN g.sources : i # id.slot => r[i] = g.sources[i]
  BY <1>2, <1>3
<1> HIDE DEF r
<1>6. /\ h.sources = r /\ h.rows = ClearRow(g.rows, id.slot)
      /\ h.consumers = g.consumers /\ h.pending = g.pending
      /\ h.sourceLimit = g.sourceLimit /\ h.consumerLimit = g.consumerLimit
      /\ h \in Graph
  BY <1>1, <1>4, <1>5 DEF Graph, ClearRow
<1>7. GraphTypeOK(h)
  BY <1>1, <1>5, <1>6 DEF GraphTypeOK, ClearRow
<1>8. EdgesLive(h)
  BY <1>1, <1>5, <1>6 DEF EdgesLive, ClearRow, GraphTypeOK
<1>9. QueueExact(h)
  BY <1>1, <1>6 DEF QueueExact, QueueEntriesFlagged, QueueEntriesDistinct,
     FlaggedAreQueued, ConsumerIsLive, NodeIsLive
<1> QED BY <1>5, <1>6, <1>7, <1>8, <1>9 DEF GraphInv, SameFrame, h

LEMMA ClearConsumerInv ==
  ASSUME NEW g, GraphInv(g), NEW id
  PROVE  LET h == ClearConsumer(g, id)
         IN  GraphInv(h) /\ SameFrame(g, h)
<1> DEFINE h == ClearConsumer(g, id)
<1>1. g \in Graph /\ GraphTypeOK(g) /\ EdgesLive(g) /\ QueueExact(g)
  BY DEF GraphInv, GraphTypeOK
<1>2. /\ h.sources = g.sources /\ h.rows = ClearColumn(g.rows, id.slot)
      /\ h.consumers = g.consumers /\ h.pending = g.pending
      /\ h.sourceLimit = g.sourceLimit /\ h.consumerLimit = g.consumerLimit
      /\ h \in Graph
  BY <1>1 DEF Graph, ClearColumn, ClearConsumer
<1> HIDE DEF h
<1>3. GraphTypeOK(h) /\ EdgesLive(h)
  BY <1>1, <1>2 DEF GraphTypeOK, ClearColumn, EdgesLive
<1>4. QueueExact(h)
  BY <1>1, <1>2 DEF QueueExact, QueueEntriesFlagged, QueueEntriesDistinct,
     FlaggedAreQueued, ConsumerIsLive, NodeIsLive
<1> QED BY <1>2, <1>3, <1>4 DEF GraphInv, SameFrame, h

LEMMA SubscribeInv ==
  ASSUME NEW g, GraphInv(g), NEW s, NEW c, SourceIsLive(g, s), ConsumerIsLive(g, c)
  PROVE  LET h == Subscribe(g, s, c)
         IN  GraphInv(h) /\ SameFrame(g, h)
<1> DEFINE h == Subscribe(g, s, c)
<1>1. g \in Graph /\ GraphTypeOK(g) /\ EdgesLive(g) /\ QueueExact(g)
  BY DEF GraphInv, GraphTypeOK
<1>2. /\ s.slot \in DOMAIN g.sources /\ g.sources[s.slot].live
      /\ c.slot \in DOMAIN g.consumers /\ g.consumers[c.slot].live
      /\ s.slot \in Nat /\ c.slot \in Nat
  BY <1>1 DEF SourceIsLive, ConsumerIsLive, NodeIsLive, Graph
<1> DEFINE rows == g.rows \cup {<<s.slot, c.slot>>}
<1>6. rows \in SUBSET (Nat \X Nat)
  <2>1. <<s.slot, c.slot>> \in Nat \X Nat /\ g.rows \in SUBSET (Nat \X Nat)
    BY <1>1, <1>2 DEF Graph
  <2> QED BY <2>1
<1>7. h = [g EXCEPT !.rows = rows]
  BY DEF Subscribe
<1> HIDE DEF rows, h
<1>3. /\ h.sources = g.sources /\ h.rows = rows
      /\ h.consumers = g.consumers /\ h.pending = g.pending
      /\ h.sourceLimit = g.sourceLimit /\ h.consumerLimit = g.consumerLimit
      /\ h \in Graph
  BY <1>1, <1>6, <1>7 DEF Graph
<1>4. GraphTypeOK(h) /\ EdgesLive(h)
  BY <1>1, <1>2, <1>3 DEF GraphTypeOK, EdgesLive, rows
<1>5. QueueExact(h)
  BY <1>1, <1>3 DEF QueueExact, QueueEntriesFlagged, QueueEntriesDistinct,
     FlaggedAreQueued, ConsumerIsLive, NodeIsLive
<1> QED BY <1>3, <1>4, <1>5 DEF GraphInv, SameFrame, h

LEMMA RemoveConsumerInv ==
  ASSUME NEW g, GraphInv(g), NEW id \in SlotId, ConsumerIsLive(g, id)
  PROVE  LET h == RemoveConsumer(g, id)
         IN  GraphInv(h) /\ SameFrame(g, h)
<1> DEFINE h == RemoveConsumer(g, id)
           K == {i \in DOMAIN g.pending : g.pending[i] # id}
           q == Kept(g.pending, K)
           node == [g.consumers[id.slot] EXCEPT !.live = FALSE, !.pending = FALSE]
           r == [g.consumers EXCEPT ![id.slot] = node]
<1>1. g \in Graph /\ GraphTypeOK(g) /\ EdgesLive(g) /\ QueueExact(g)
  BY DEF GraphInv, GraphTypeOK
<1>2. /\ id.slot \in DOMAIN g.consumers /\ g.consumers \in Seq(ConsumerNode)
      /\ g.pending \in Seq(SlotId)
  BY <1>1 DEF ConsumerIsLive, NodeIsLive, Graph
<1>3. /\ r \in Seq(ConsumerNode) /\ Len(r) = Len(g.consumers) /\ DOMAIN r = DOMAIN g.consumers
      /\ \A c \in DOMAIN g.consumers : c # id.slot => r[c] = g.consumers[c]
      /\ r[id.slot].pending = FALSE
  <2>1. g.consumers[id.slot] \in ConsumerNode
    BY <1>2
  <2>2. node \in ConsumerNode /\ node.pending = FALSE
    BY <2>1 DEF ConsumerNode
  <2> HIDE DEF node
  <2> QED BY <1>2, <2>2
<1>4. KeptFacts(SlotId, g.pending, K, q)
  BY <1>2, KeptProperties
<1>5. h = [g EXCEPT !.rows = ClearColumn(g.rows, id.slot), !.consumers = r, !.pending = q]
  BY <1>1, <1>2 DEF RemoveConsumer, ClearConsumer, Graph
<1> HIDE DEF h, q, r
<1>6. /\ h.sources = g.sources /\ h.rows = ClearColumn(g.rows, id.slot)
      /\ h.consumers = r /\ h.pending = q
      /\ h.sourceLimit = g.sourceLimit /\ h.consumerLimit = g.consumerLimit
      /\ h \in Graph
  BY <1>1, <1>3, <1>4, <1>5 DEF Graph, ClearColumn, KeptFacts
<1>7. GraphTypeOK(h) /\ EdgesLive(h)
  BY <1>1, <1>3, <1>6 DEF GraphTypeOK, ClearColumn, EdgesLive
<1>8. \A k \in K : g.pending[k].slot # id.slot
  <2> SUFFICES ASSUME NEW k \in K, g.pending[k].slot = id.slot PROVE FALSE
    OBVIOUS
  <2>1. g.pending[k] \in SlotId /\ g.pending[k] # id
    BY <1>2
  <2>2. g.pending[k].generation = id.generation
    BY <1>1 DEF QueueExact, QueueEntriesFlagged, ConsumerIsLive, NodeIsLive
  <2> QED BY <2>1, <2>2 DEF SlotId
<1>9. QueueEntriesFlagged(h)
  <2> SUFFICES ASSUME NEW i \in DOMAIN q
               PROVE  ConsumerIsLive(h, q[i]) /\ h.consumers[q[i].slot].pending
    BY <1>6 DEF QueueEntriesFlagged
  <2>1. PICK k \in K : q[i] = g.pending[k]
    BY <1>4 DEF KeptFacts
  <2>2. ConsumerIsLive(g, g.pending[k]) /\ g.consumers[g.pending[k].slot].pending
    BY <1>1 DEF QueueExact, QueueEntriesFlagged
  <2> QED BY <1>3, <1>6, <1>8, <2>1, <2>2 DEF ConsumerIsLive, NodeIsLive
<1>10. QueueEntriesDistinct(h)
  <2> SUFFICES ASSUME NEW i \in DOMAIN q, NEW j \in DOMAIN q, q[i].slot = q[j].slot, i # j
               PROVE  FALSE
    BY <1>6 DEF QueueEntriesDistinct
  <2>1. PICK k \in K, l \in K : k # l /\ q[i] = g.pending[k] /\ q[j] = g.pending[l]
    BY <1>4 DEF KeptFacts
  <2> QED BY <1>1, <2>1 DEF QueueExact, QueueEntriesDistinct
<1>11. FlaggedAreQueued(h)
  <2> SUFFICES ASSUME NEW c \in DOMAIN r, r[c].pending
               PROVE  \E i \in DOMAIN q : q[i].slot = c
    BY <1>6 DEF FlaggedAreQueued
  <2>1. c \in DOMAIN g.consumers /\ c # id.slot /\ g.consumers[c].pending
    BY <1>3
  <2>2. PICK k \in DOMAIN g.pending : g.pending[k].slot = c
    BY <1>1, <2>1 DEF QueueExact, FlaggedAreQueued
  <2>3. k \in K
    BY <2>1, <2>2
  <2>4. PICK i \in DOMAIN q : q[i] = g.pending[k]
    BY <1>4, <2>3 DEF KeptFacts
  <2> QED BY <2>2, <2>4
<1> QED BY <1>3, <1>6, <1>7, <1>9, <1>10, <1>11 DEF GraphInv, QueueExact, SameFrame, h

\* The slots of the queue entries a publication adds.
LEMMA AwakenedProperties ==
  ASSUME NEW g, GraphInv(g), NEW source, NEW kind
  PROVE  LET slots == Kept([c \in DOMAIN g.consumers |-> c], Awakened(g, source, kind))
         IN  /\ slots \in Seq(Awakened(g, source, kind))
             /\ \A c \in Awakened(g, source, kind) : \E i \in DOMAIN slots : slots[i] = c
             /\ \A i, j \in DOMAIN slots : slots[i] = slots[j] => i = j
<1> DEFINE A == Awakened(g, source, kind)
           q == [c \in DOMAIN g.consumers |-> c]
           slots == Kept(q, A)
<1>1. g.consumers \in Seq(ConsumerNode)
  BY DEF GraphInv, GraphTypeOK, Graph
<1>2. /\ q \in Seq(Nat) /\ DOMAIN q = DOMAIN g.consumers
      /\ \A c \in DOMAIN g.consumers : q[c] = c
  BY <1>1
<1>3. A \in SUBSET (DOMAIN q)
  BY <1>2 DEF Awakened
<1> HIDE DEF A, q
<1>4. KeptFacts(Nat, q, A, slots)
  BY <1>2, <1>3, KeptProperties
<1> HIDE DEF slots
<1>5. slots \in Seq(A)
  <2>1. \A i \in DOMAIN slots : slots[i] \in A
    BY <1>2, <1>3, <1>4 DEF KeptFacts
  <2>2. slots \in Seq(Nat)
    BY <1>4 DEF KeptFacts
  <2> QED BY <2>1, <2>2
<1>6. \A c \in A : \E i \in DOMAIN slots : slots[i] = c
  BY <1>2, <1>3, <1>4 DEF KeptFacts
<1>7. \A i, j \in DOMAIN slots : slots[i] = slots[j] => i = j
  <2> SUFFICES ASSUME NEW i \in DOMAIN slots, NEW j \in DOMAIN slots, i # j
               PROVE  slots[i] # slots[j]
    OBVIOUS
  <2>1. PICK k \in A, l \in A : k # l /\ slots[i] = q[k] /\ slots[j] = q[l]
    BY <1>4 DEF KeptFacts
  <2> QED BY <1>2, <1>3, <2>1
<1> QED BY <1>5, <1>6, <1>7 DEF A, q, slots

LEMMA PublishCheckedInv ==
  ASSUME NEW g, GraphInv(g), NEW source, NEW kind
  PROVE  LET h == PublishChecked(g, source, kind)
         IN  GraphInv(h) /\ SameFrame(g, h)
<1> DEFINE A == Awakened(g, source, kind)
           slots == Kept([c \in DOMAIN g.consumers |-> c], A)
           added == [i \in DOMAIN slots |->
                       [slot |-> slots[i], generation |-> g.consumers[slots[i]].generation]]
           q == g.pending \o added
           r == [c \in DOMAIN g.consumers |->
                   IF c \in A THEN [g.consumers[c] EXCEPT !.pending = TRUE]
                               ELSE g.consumers[c]]
           h == PublishChecked(g, source, kind)
<1>1. g \in Graph /\ GraphTypeOK(g) /\ EdgesLive(g) /\ QueueExact(g)
  BY DEF GraphInv, GraphTypeOK
<1>2. g.consumers \in Seq(ConsumerNode) /\ g.pending \in Seq(SlotId)
  BY <1>1 DEF Graph
<1>3. /\ slots \in Seq(A)
      /\ \A c \in A : \E i \in DOMAIN slots : slots[i] = c
      /\ \A i, j \in DOMAIN slots : slots[i] = slots[j] => i = j
  BY AwakenedProperties
<1>4. \A c \in A : c \in DOMAIN g.consumers /\ c \in Nat \ {0}
                    /\ g.consumers[c].live /\ ~g.consumers[c].pending
  BY <1>2 DEF Awakened
<1>5. h = [g EXCEPT !.consumers = r, !.pending = q]
  BY DEF PublishChecked
<1> HIDE DEF A, slots, h
<1>6. \A c \in DOMAIN g.consumers : g.consumers[c] \in ConsumerNode
  BY <1>2
<1>7. /\ r \in Seq(ConsumerNode) /\ Len(r) = Len(g.consumers) /\ DOMAIN r = DOMAIN g.consumers
      /\ \A c \in DOMAIN g.consumers :
           /\ r[c].generation = g.consumers[c].generation
           /\ r[c].live = g.consumers[c].live
           /\ (r[c].pending <=> (c \in A \/ g.consumers[c].pending))
  <2>1. \A c \in DOMAIN g.consumers :
           /\ r[c] \in ConsumerNode
           /\ r[c].generation = g.consumers[c].generation
           /\ r[c].live = g.consumers[c].live
           /\ (r[c].pending <=> (c \in A \/ g.consumers[c].pending))
    BY <1>6 DEF ConsumerNode
  <2>2. DOMAIN r = DOMAIN g.consumers
    OBVIOUS
  <2> HIDE DEF r
  <2>3. r \in Seq(ConsumerNode) /\ Len(r) = Len(g.consumers)
    <3> DEFINE n == Len(g.consumers)
    <3>1. n \in Nat /\ DOMAIN g.consumers = 1..n
      BY <1>2
    <3>2. r = [c \in 1..n |-> r[c]]
      BY <3>1 DEF r
    <3> HIDE DEF n
    <3>3. r \in [1..n -> ConsumerNode]
      BY <2>1, <3>1, <3>2
    <3>4. r \in Seq(ConsumerNode) /\ Len(r) = n
      BY <3>1, <3>3
    <3> QED BY <3>4 DEF n
  <2> QED BY <2>1, <2>2, <2>3
<1>8. /\ added \in Seq(SlotId) /\ DOMAIN added = DOMAIN slots
      /\ \A i \in DOMAIN slots :
           /\ added[i].slot = slots[i]
           /\ added[i].generation = g.consumers[slots[i]].generation
  <2>1. \A i \in DOMAIN slots : slots[i] \in A
    BY <1>3
  <2>2. \A i \in DOMAIN slots : added[i] \in SlotId
    BY <1>4, <1>6, <2>1, GenerationAssumption DEF SlotId, ConsumerNode
  <2>3. DOMAIN slots = 1..Len(slots) /\ Len(slots) \in Nat
    BY <1>3
  <2> QED BY <2>2, <2>3
<1> HIDE DEF added, r
<1>9. /\ q \in Seq(SlotId) /\ Len(q) = Len(g.pending) + Len(added)
      /\ \A i \in DOMAIN g.pending : i \in DOMAIN q /\ q[i] = g.pending[i]
      /\ \A i \in DOMAIN added : /\ i + Len(g.pending) \in DOMAIN q
                                  /\ q[i + Len(g.pending)] = added[i]
      /\ \A i \in DOMAIN q : \/ i \in DOMAIN g.pending
                              \/ i - Len(g.pending) \in DOMAIN added
      /\ Len(g.pending) \in Nat
  BY <1>2, <1>8
<1> HIDE DEF q
<1>10. /\ h.sources = g.sources /\ h.rows = g.rows
       /\ h.consumers = r /\ h.pending = q
       /\ h.sourceLimit = g.sourceLimit /\ h.consumerLimit = g.consumerLimit
       /\ h \in Graph
  BY <1>1, <1>5, <1>7, <1>9 DEF Graph
<1>11. GraphTypeOK(h) /\ EdgesLive(h)
  BY <1>1, <1>7, <1>10 DEF GraphTypeOK, EdgesLive
<1>12. \A i \in DOMAIN g.pending : /\ g.pending[i].slot \in DOMAIN g.consumers
                                   /\ g.pending[i].slot \notin A
                                   /\ g.consumers[g.pending[i].slot].live
                                   /\ g.consumers[g.pending[i].slot].generation = g.pending[i].generation
                                   /\ g.consumers[g.pending[i].slot].pending
  BY <1>1, <1>4 DEF QueueExact, QueueEntriesFlagged, ConsumerIsLive, NodeIsLive
<1>13. \A i \in DOMAIN added : added[i].slot \in A
  BY <1>3, <1>8
<1>14. QueueEntriesFlagged(h)
  <2> SUFFICES ASSUME NEW i \in DOMAIN q
               PROVE  /\ q[i].slot \in DOMAIN r /\ r[q[i].slot].live
                      /\ r[q[i].slot].generation = q[i].generation /\ r[q[i].slot].pending
    BY <1>10 DEF QueueEntriesFlagged, ConsumerIsLive, NodeIsLive
  <2>1. CASE i \in DOMAIN g.pending
    <3>1. q[i] = g.pending[i]
      BY <1>9, <2>1
    <3> QED BY <1>7, <1>12, <2>1, <3>1
  <2>2. CASE i - Len(g.pending) \in DOMAIN added
    <3> DEFINE k == i - Len(g.pending)
    <3>1. i \in Nat
      BY <1>9
    <3>2. k + Len(g.pending) = i
      BY <1>9, <3>1
    <3>3. q[i] = added[k]
      BY <1>9, <2>2, <3>2
    <3> QED BY <1>4, <1>7, <1>8, <1>13, <2>2, <3>3
  <2> QED BY <1>9, <2>1, <2>2
<1>15. QueueEntriesDistinct(h)
  <2> SUFFICES ASSUME NEW i \in DOMAIN q, NEW j \in DOMAIN q, q[i].slot = q[j].slot
               PROVE  i = j
    BY <1>10 DEF QueueEntriesDistinct
  <2> DEFINE n == Len(g.pending)
  <2>1. i \in Nat /\ j \in Nat /\ n \in Nat
    BY <1>9
  <2>2. \A k \in DOMAIN q : k - n \in DOMAIN added => q[k] = added[k - n]
    <3> SUFFICES ASSUME NEW k \in DOMAIN q, k - n \in DOMAIN added
                 PROVE  q[k] = added[k - n]
      OBVIOUS
    <3>1. (k - n) + n = k
      BY <1>9, <2>1
    <3> QED BY <1>9, <3>1
  <2>3. CASE i \in DOMAIN g.pending /\ j \in DOMAIN g.pending
    BY <1>1, <1>9, <2>3 DEF QueueExact, QueueEntriesDistinct
  <2>4. CASE i - n \in DOMAIN added /\ j - n \in DOMAIN added
    <3>1. slots[i - n] = slots[j - n]
      BY <1>8, <2>2, <2>4
    <3>2. i - n = j - n
      BY <1>3, <1>8, <2>4, <3>1
    <3> QED BY <2>1, <3>2
  <2>5. CASE i \in DOMAIN g.pending /\ j - n \in DOMAIN added
    BY <1>9, <1>12, <1>13, <2>2, <2>5
  <2>6. CASE i - n \in DOMAIN added /\ j \in DOMAIN g.pending
    BY <1>9, <1>12, <1>13, <2>2, <2>6
  <2> QED BY <1>9, <2>3, <2>4, <2>5, <2>6
<1>16. FlaggedAreQueued(h)
  <2> SUFFICES ASSUME NEW c \in DOMAIN r, r[c].pending
               PROVE  \E i \in DOMAIN q : q[i].slot = c
    BY <1>10 DEF FlaggedAreQueued
  <2>1. CASE g.consumers[c].pending
    <3>1. PICK i \in DOMAIN g.pending : g.pending[i].slot = c
      BY <1>1, <1>7, <2>1 DEF QueueExact, FlaggedAreQueued
    <3> QED BY <1>9, <3>1
  <2>2. CASE c \in A
    <3>1. PICK i \in DOMAIN slots : slots[i] = c
      BY <1>3, <2>2
    <3>2. i \in DOMAIN added /\ added[i].slot = c
      BY <1>8, <3>1
    <3> QED BY <1>9, <3>2
  <2> QED BY <1>7, <2>1, <2>2
<1> QED BY <1>10, <1>11, <1>14, <1>15, <1>16 DEF GraphInv, QueueExact, SameFrame, h

LEMMA TakePendingKindInv ==
  ASSUME NEW g, GraphInv(g), NEW kind
  PROVE  LET h == TakePendingKind(g, kind)
         IN  GraphInv(h) /\ SameFrame(g, h)
<1> DEFINE first == FirstTakeable(g, kind)
           c == g.pending[first].slot
           K == DOMAIN g.pending \ {first}
           q == Kept(g.pending, K)
           node == [g.consumers[c] EXCEPT !.pending = FALSE]
           r == [g.consumers EXCEPT ![c] = node]
           h == TakePendingKind(g, kind)
<1>1. g \in Graph /\ GraphTypeOK(g) /\ EdgesLive(g) /\ QueueExact(g)
  BY DEF GraphInv, GraphTypeOK
<1>2. g.consumers \in Seq(ConsumerNode) /\ g.pending \in Seq(SlotId)
  BY <1>1 DEF Graph
<1>3. \A i \in DOMAIN g.pending : ConsumerIsLive(g, g.pending[i])
  BY <1>1 DEF QueueExact, QueueEntriesFlagged
<1>4. CASE Takeable(g, kind) = {}
  <2>1. h = [g EXCEPT !.pending = Kept(g.pending, DOMAIN g.pending)]
    <3>1. DOMAIN g.pending \
            {i \in DOMAIN g.pending : (Takeable(g, kind) # {} => i < first)
                                       /\ ~ConsumerIsLive(g, g.pending[i])} = DOMAIN g.pending
      BY <1>3
    <3> QED BY <1>4, <3>1 DEF TakePendingKind
  <2> DEFINE p == Kept(g.pending, DOMAIN g.pending)
  <2>2. KeptFacts(SlotId, g.pending, DOMAIN g.pending, p)
    BY <1>2, KeptProperties
  <2> HIDE DEF p, h
  <2>3. /\ h.sources = g.sources /\ h.rows = g.rows
        /\ h.consumers = g.consumers /\ h.pending = p
        /\ h.sourceLimit = g.sourceLimit /\ h.consumerLimit = g.consumerLimit
        /\ h \in Graph
    BY <1>1, <2>1, <2>2 DEF Graph, KeptFacts, p
  <2>4. GraphTypeOK(h) /\ EdgesLive(h)
    BY <1>1, <2>3 DEF GraphTypeOK, EdgesLive
  <2>5. QueueEntriesFlagged(h)
    BY <1>1, <2>2, <2>3 DEF QueueExact, QueueEntriesFlagged, KeptFacts, ConsumerIsLive, NodeIsLive
  <2>6. QueueEntriesDistinct(h)
    <3> SUFFICES ASSUME NEW i \in DOMAIN p, NEW j \in DOMAIN p, i # j
                 PROVE  p[i].slot # p[j].slot
      BY <2>3 DEF QueueEntriesDistinct
    <3>1. PICK k \in DOMAIN g.pending, l \in DOMAIN g.pending :
            k # l /\ p[i] = g.pending[k] /\ p[j] = g.pending[l]
      BY <2>2 DEF KeptFacts
    <3> QED BY <1>1, <3>1 DEF QueueExact, QueueEntriesDistinct
  <2>7. FlaggedAreQueued(h)
    <3> SUFFICES ASSUME NEW x \in DOMAIN g.consumers, g.consumers[x].pending
                 PROVE  \E i \in DOMAIN p : p[i].slot = x
      BY <2>3 DEF FlaggedAreQueued
    <3>1. PICK k \in DOMAIN g.pending : g.pending[k].slot = x
      BY <1>1 DEF QueueExact, FlaggedAreQueued
    <3>2. PICK i \in DOMAIN p : p[i] = g.pending[k]
      BY <2>2 DEF KeptFacts
    <3> QED BY <3>1, <3>2
  <2> QED BY <2>3, <2>4, <2>5, <2>6, <2>7 DEF GraphInv, QueueExact, SameFrame, h
<1>5. CASE Takeable(g, kind) # {}
  <2>1. first \in Takeable(g, kind)
    <3>1. Takeable(g, kind) \in SUBSET Nat
      BY <1>2 DEF Takeable
    <3>2. \E i \in Takeable(g, kind) : \A j \in Takeable(g, kind) : i <= j
      BY <1>5, <3>1, LeastNatural
    <3> QED BY <3>2 DEF FirstTakeable
  <2>2. first \in DOMAIN g.pending
    BY <2>1 DEF Takeable
  <2>3. c \in DOMAIN g.consumers
    BY <1>3, <2>2 DEF ConsumerIsLive, NodeIsLive
  <2>4. h = [g EXCEPT !.pending = q, !.consumers = r]
    <3>1. {i \in DOMAIN g.pending : (Takeable(g, kind) # {} => i < first)
             /\ ~ConsumerIsLive(g, g.pending[i])} \cup {first} = {first}
      BY <1>3
    <3>2. h = [g EXCEPT !.pending = q, !.consumers[c].pending = FALSE]
      BY <1>5, <3>1 DEF TakePendingKind
    <3> QED BY <1>1, <3>2 DEF Graph
  <2>5. /\ r \in Seq(ConsumerNode) /\ Len(r) = Len(g.consumers) /\ DOMAIN r = DOMAIN g.consumers
        /\ \A x \in DOMAIN g.consumers :
             /\ r[x].generation = g.consumers[x].generation
             /\ r[x].live = g.consumers[x].live
             /\ x # c => r[x] = g.consumers[x]
        /\ ~r[c].pending
    <3>1. g.consumers[c] \in ConsumerNode
      BY <1>2, <2>3
    <3>2. /\ node \in ConsumerNode /\ ~node.pending
          /\ node.generation = g.consumers[c].generation /\ node.live = g.consumers[c].live
      BY <3>1 DEF ConsumerNode
    <3> HIDE DEF node, c
    <3> QED BY <1>2, <2>3, <3>2
  <2>6. KeptFacts(SlotId, g.pending, K, q)
    BY <1>2, KeptProperties
  <2> HIDE DEF q, r, h, c, first
  <2>7. /\ h.sources = g.sources /\ h.rows = g.rows
        /\ h.consumers = r /\ h.pending = q
        /\ h.sourceLimit = g.sourceLimit /\ h.consumerLimit = g.consumerLimit
        /\ h \in Graph
    BY <1>1, <2>4, <2>5, <2>6 DEF Graph, KeptFacts
  <2>8. GraphTypeOK(h) /\ EdgesLive(h)
    BY <1>1, <2>5, <2>7 DEF GraphTypeOK, EdgesLive
  <2>9. \A k \in K : g.pending[k].slot # c
    BY <1>1, <2>2 DEF QueueExact, QueueEntriesDistinct, c
  <2>10. QueueEntriesFlagged(h)
    <3> SUFFICES ASSUME NEW i \in DOMAIN q
                 PROVE  ConsumerIsLive(h, q[i]) /\ h.consumers[q[i].slot].pending
      BY <2>7 DEF QueueEntriesFlagged
    <3>1. PICK k \in K : q[i] = g.pending[k]
      BY <2>6 DEF KeptFacts
    <3>2. ConsumerIsLive(g, q[i]) /\ g.consumers[q[i].slot].pending /\ q[i].slot # c
      BY <1>1, <2>9, <3>1 DEF QueueExact, QueueEntriesFlagged
    <3> QED BY <2>5, <2>7, <3>2 DEF ConsumerIsLive, NodeIsLive
  <2>11. QueueEntriesDistinct(h)
    <3> SUFFICES ASSUME NEW i \in DOMAIN q, NEW j \in DOMAIN q, i # j
                 PROVE  q[i].slot # q[j].slot
      BY <2>7 DEF QueueEntriesDistinct
    <3>1. PICK k \in K, l \in K : k # l /\ q[i] = g.pending[k] /\ q[j] = g.pending[l]
      BY <2>6 DEF KeptFacts
    <3> QED BY <1>1, <3>1 DEF QueueExact, QueueEntriesDistinct
  <2>12. FlaggedAreQueued(h)
    <3> SUFFICES ASSUME NEW x \in DOMAIN r, r[x].pending
                 PROVE  \E i \in DOMAIN q : q[i].slot = x
      BY <2>7 DEF FlaggedAreQueued
    <3>1. x # c /\ x \in DOMAIN g.consumers /\ g.consumers[x].pending
      BY <2>5
    <3>2. PICK k \in DOMAIN g.pending : g.pending[k].slot = x
      BY <1>1, <3>1 DEF QueueExact, FlaggedAreQueued
    <3>3. k \in K
      BY <3>1, <3>2 DEF c
    <3>4. PICK i \in DOMAIN q : q[i] = g.pending[k]
      BY <2>6, <3>3 DEF KeptFacts
    <3> QED BY <3>2, <3>4
  <2> QED BY <2>5, <2>7, <2>8, <2>10, <2>11, <2>12 DEF GraphInv, QueueExact, SameFrame, h
<1> QED BY <1>4, <1>5

-----------------------------------------------------------------------------
(***************************************************************************)
(* A publication fits: the queued consumers and the awakened ones are      *)
(* disjoint sets of slots, so together they are no more than the slots.    *)
(***************************************************************************)
THEOREM CheckPublishSucceeds ==
  ASSUME NEW g, GraphInv(g), NEW source, SourceIsLive(g, source), NEW kind
  PROVE  CheckPublish(g, source, kind)
<1> DEFINE n == Len(g.consumers)
           m == Len(g.pending)
           A == Awakened(g, source, kind)
           F == {c \in 1..n : g.consumers[c].pending}
           f == [i \in 1..m |-> g.pending[i].slot]
<1>1. /\ g.consumers \in Seq(ConsumerNode) /\ g.pending \in Seq(SlotId)
      /\ n \in Nat /\ m \in Nat /\ g.consumerLimit \in Nat /\ n <= g.consumerLimit
      /\ DOMAIN g.consumers = 1..n /\ DOMAIN g.pending = 1..m
  BY DEF GraphInv, GraphTypeOK, Graph
<1>2. A \in SUBSET (1..n) /\ F \in SUBSET (1..n) /\ A \cap F = {}
  BY <1>1 DEF Awakened
<1>3. f \in Injection(1..m, F)
  <2>1. \A i \in 1..m : g.pending[i].slot \in F
    BY <1>1 DEF GraphInv, QueueExact, QueueEntriesFlagged, ConsumerIsLive, NodeIsLive
  <2>2. \A i, j \in 1..m : g.pending[i].slot = g.pending[j].slot => i = j
    BY <1>1 DEF GraphInv, QueueExact, QueueEntriesDistinct
  <2> QED BY <2>1, <2>2 DEF Injection, IsInjective
<1> HIDE DEF A, F, f, n, m
<1>4. /\ IsFiniteSet(A) /\ Cardinality(A) \in Nat
      /\ IsFiniteSet(F) /\ Cardinality(F) \in Nat
  BY <1>1, <1>2, FiniteSlots
<1>5. m <= Cardinality(F)
  <2>1. Cardinality(1..m) <= Cardinality(F)
    BY <1>3, <1>4, FS_Injection
  <2>2. Cardinality(1..m) = m
    BY <1>1, FS_Interval
  <2> QED BY <2>1, <2>2
<1>6. Cardinality(A \cup F) = Cardinality(A) + Cardinality(F)
  <2>1. Cardinality(A \cup F) = Cardinality(A) + Cardinality(F) - Cardinality(A \cap F)
    BY <1>4, FS_Union
  <2>2. Cardinality(A \cap F) = 0
    BY <1>2, FS_EmptySet
  <2> QED BY <1>4, <2>1, <2>2
<1>7. Cardinality(A \cup F) <= n /\ Cardinality(A \cup F) \in Nat
  <2>1. A \cup F \in SUBSET (1..n)
    BY <1>2
  <2> QED BY <1>1, <2>1, FiniteSlots
<1>8. m + Cardinality(A) <= g.consumerLimit
  BY <1>1, <1>4, <1>5, <1>6, <1>7
<1> QED BY <1>8 DEF CheckPublish, A, m

-----------------------------------------------------------------------------
(***************************************************************************)
(* What each operation does to the nodes, the rows and the queue, in the   *)
(* terms in which ReactiveGraph is reasoned about.                         *)
(***************************************************************************)

\* A node is put at id: into a dead slot under its next generation, or a new slot.
NodeAdded(old, new, id) ==
  /\ id \in SlotId
  /\ id.slot \in DOMAIN old =>
       ~old[id.slot].live /\ id.generation = old[id.slot].generation + 1
  /\ DOMAIN new = DOMAIN old \cup {id.slot}
  /\ new[id.slot].live /\ new[id.slot].generation = id.generation
  /\ \A s \in DOMAIN old : s # id.slot => new[s] = old[s]

NodeRemoved(old, new, id) ==
  /\ DOMAIN new = DOMAIN old
  /\ ~new[id.slot].live /\ new[id.slot].generation = old[id.slot].generation
  /\ \A s \in DOMAIN old : s # id.slot => new[s] = old[s]

NodeRenewed(old, new, id) ==
  /\ DOMAIN new = DOMAIN old
  /\ \/ new[id.slot].live /\ new[id.slot].generation = id.generation + 1
     \/ ~new[id.slot].live /\ new[id.slot].generation = id.generation
  /\ \A s \in DOMAIN old : s # id.slot => new[s] = old[s]

\* Only the pending flags of consumers change.
OnlyFlags(old, new) ==
  /\ DOMAIN new = DOMAIN old
  /\ \A c \in DOMAIN old : /\ new[c].live = old[c].live
                           /\ new[c].generation = old[c].generation
                           /\ new[c].target = old[c].target

\* The entries of the queue, whatever their order.
Entries(g) == {g.pending[i] : i \in DOMAIN g.pending}

LEMMA AddSourceEffect ==
  ASSUME NEW g, GraphInv(g), CanAddSource(g)
  PROVE  /\ NodeAdded(g.sources, AddSource(g).sources, NextId(g.sources))
         /\ AddSource(g).rows = ClearRow(g.rows, NextId(g.sources).slot)
         /\ AddSource(g).consumers = g.consumers
         /\ AddSource(g).pending = g.pending
<1> DEFINE id == NextId(g.sources)
           node == [generation |-> id.generation, live |-> TRUE]
           r == Place(g.sources, id.slot, node)
           h == AddSource(g)
<1>1. /\ g \in Graph /\ g.sources \in Seq(SourceNode) /\ g.sourceLimit \in Nat
      /\ Len(g.sources) <= g.sourceLimit
  BY DEF GraphInv, GraphTypeOK, Graph
<1>2. \A i \in DOMAIN g.sources : g.sources[i].generation \in 1..MaxGeneration
  <2>1. \A i \in DOMAIN g.sources : g.sources[i] \in SourceNode
    BY <1>1
  <2> QED BY <2>1 DEF SourceNode
<1>3. NextIdFacts(g.sources, g.sourceLimit, id)
  <2>1. Reusable(g.sources) # {} \/ Len(g.sources) < g.sourceLimit
    BY DEF CanAddSource
  <2> QED BY <1>1, <1>2, <2>1, NextIdProperties
<1>4. id.slot \in DOMAIN g.sources => id.generation = g.sources[id.slot].generation + 1
  BY DEF NextId
<1>5. /\ h.sources = r /\ h.rows = ClearRow(g.rows, id.slot)
      /\ h.consumers = g.consumers /\ h.pending = g.pending
  <2>1. h = [g EXCEPT !.sources = r, !.rows = ClearRow(g.rows, id.slot)]
    BY DEF AddSource
  <2> HIDE DEF h, r, id
  <2> QED BY <1>1, <2>1 DEF Graph
<1>6. node \in SourceNode /\ id.slot \in 1..(Len(g.sources) + 1)
  BY <1>3 DEF NextIdFacts, SourceNode
<1>7. node.live /\ node.generation = id.generation
  OBVIOUS
<1> HIDE DEF node, id, h
<1>8. PlaceFacts(SourceNode, g.sources, id.slot, node, r)
  BY <1>1, <1>6, PlaceProperties
<1> HIDE DEF r
<1>9. NodeAdded(g.sources, h.sources, id)
  BY <1>3, <1>4, <1>5, <1>7, <1>8 DEF NodeAdded, NextIdFacts, PlaceFacts
<1> QED BY <1>5, <1>9 DEF h, id

LEMMA AddConsumerEffect ==
  ASSUME NEW g, GraphInv(g), CanAddConsumer(g), NEW target \in Subscriber
  PROVE  /\ NodeAdded(g.consumers, AddConsumer(g, target).consumers, NextId(g.consumers))
         /\ AddConsumer(g, target).consumers[NextId(g.consumers).slot].target = target
         /\ AddConsumer(g, target).rows = ClearColumn(g.rows, NextId(g.consumers).slot)
         /\ AddConsumer(g, target).sources = g.sources
         /\ AddConsumer(g, target).pending = g.pending
<1> DEFINE id == NextId(g.consumers)
           node == [generation |-> id.generation, live |-> TRUE,
                    pending |-> FALSE, target |-> target]
           r == Place(g.consumers, id.slot, node)
           h == AddConsumer(g, target)
<1>1. /\ g \in Graph /\ g.consumers \in Seq(ConsumerNode) /\ g.consumerLimit \in Nat
      /\ Len(g.consumers) <= g.consumerLimit
  BY DEF GraphInv, GraphTypeOK, Graph
<1>2. \A i \in DOMAIN g.consumers : g.consumers[i].generation \in 1..MaxGeneration
  <2>1. \A i \in DOMAIN g.consumers : g.consumers[i] \in ConsumerNode
    BY <1>1
  <2> QED BY <2>1 DEF ConsumerNode
<1>3. NextIdFacts(g.consumers, g.consumerLimit, id)
  <2>1. Reusable(g.consumers) # {} \/ Len(g.consumers) < g.consumerLimit
    BY DEF CanAddConsumer
  <2> QED BY <1>1, <1>2, <2>1, NextIdProperties
<1>4. id.slot \in DOMAIN g.consumers => id.generation = g.consumers[id.slot].generation + 1
  BY DEF NextId
<1>5. /\ h.consumers = r /\ h.rows = ClearColumn(g.rows, id.slot)
      /\ h.sources = g.sources /\ h.pending = g.pending
  <2>1. h = [g EXCEPT !.consumers = r, !.rows = ClearColumn(g.rows, id.slot)]
    BY DEF AddConsumer
  <2> HIDE DEF h, r, id
  <2> QED BY <1>1, <2>1 DEF Graph
<1>6. node \in ConsumerNode /\ id.slot \in 1..(Len(g.consumers) + 1)
  BY <1>3 DEF NextIdFacts, ConsumerNode
<1>7. node.live /\ node.generation = id.generation /\ node.target = target
  OBVIOUS
<1> HIDE DEF node, id, h
<1>8. PlaceFacts(ConsumerNode, g.consumers, id.slot, node, r)
  BY <1>1, <1>6, PlaceProperties
<1> HIDE DEF r
<1>9. NodeAdded(g.consumers, h.consumers, id) /\ h.consumers[id.slot].target = target
  BY <1>3, <1>4, <1>5, <1>7, <1>8 DEF NodeAdded, NextIdFacts, PlaceFacts
<1> QED BY <1>5, <1>9 DEF h, id

LEMMA RemoveSourceEffect ==
  ASSUME NEW g, GraphInv(g), NEW id, SourceIsLive(g, id)
  PROVE  /\ NodeRemoved(g.sources, RemoveSource(g, id).sources, id)
         /\ RemoveSource(g, id).rows = ClearRow(g.rows, id.slot)
         /\ RemoveSource(g, id).consumers = g.consumers
         /\ RemoveSource(g, id).pending = g.pending
<1> DEFINE r == [g.sources EXCEPT ![id.slot].live = FALSE]
           h == RemoveSource(g, id)
<1>1. g \in Graph /\ g.sources \in Seq(SourceNode) /\ id.slot \in DOMAIN g.sources
  BY DEF GraphInv, GraphTypeOK, Graph, SourceIsLive, NodeIsLive
<1>2. /\ h.sources = r /\ h.rows = ClearRow(g.rows, id.slot)
      /\ h.consumers = g.consumers /\ h.pending = g.pending
  BY <1>1 DEF RemoveSource, Graph
<1>3. g.sources[id.slot] \in SourceNode
  BY <1>1
<1>4. NodeRemoved(g.sources, r, id)
  BY <1>1, <1>3 DEF NodeRemoved, SourceNode
<1> QED BY <1>2, <1>4

LEMMA RenewSourceEffect ==
  ASSUME NEW g, GraphInv(g), NEW id, SourceIsLive(g, id)
  PROVE  /\ NodeRenewed(g.sources, RenewSource(g, id).sources, id)
         /\ RenewSource(g, id).rows = ClearRow(g.rows, id.slot)
         /\ RenewSource(g, id).consumers = g.consumers
         /\ RenewSource(g, id).pending = g.pending
<1> DEFINE old == g.sources[id.slot]
           node == Renewed(old)
           r == [g.sources EXCEPT ![id.slot] = node]
           h == RenewSource(g, id)
<1>1. g \in Graph /\ g.sources \in Seq(SourceNode) /\ id.slot \in DOMAIN g.sources
  BY DEF GraphInv, GraphTypeOK, Graph, SourceIsLive, NodeIsLive
<1>2. /\ h.sources = r /\ h.rows = ClearRow(g.rows, id.slot)
      /\ h.consumers = g.consumers /\ h.pending = g.pending
  <2>1. h = [g EXCEPT !.rows = ClearRow(g.rows, id.slot), !.sources = r]
    BY <1>1 DEF RenewSource, Graph
  <2> HIDE DEF h, r
  <2> QED BY <1>1, <2>1 DEF Graph
<1>3. old \in SourceNode /\ old.live /\ old.generation = id.generation
  BY <1>1 DEF SourceIsLive, NodeIsLive
<1> HIDE DEF old
<1>4. \/ node.live /\ node.generation = id.generation + 1
      \/ ~node.live /\ node.generation = id.generation
  BY <1>3 DEF Renewed, SourceNode
<1> HIDE DEF node
<1>5. NodeRenewed(g.sources, r, id)
  BY <1>1, <1>4 DEF NodeRenewed
<1> QED BY <1>2, <1>5

LEMMA ClearConsumerEffect ==
  ASSUME NEW g, GraphInv(g), NEW id
  PROVE  /\ ClearConsumer(g, id).rows = ClearColumn(g.rows, id.slot)
         /\ ClearConsumer(g, id).sources = g.sources
         /\ ClearConsumer(g, id).consumers = g.consumers
         /\ ClearConsumer(g, id).pending = g.pending
BY DEF GraphInv, GraphTypeOK, Graph, ClearConsumer

LEMMA SubscribeEffect ==
  ASSUME NEW g, GraphInv(g), NEW s, NEW c
  PROVE  /\ Subscribe(g, s, c).rows = g.rows \cup {<<s.slot, c.slot>>}
         /\ Subscribe(g, s, c).sources = g.sources
         /\ Subscribe(g, s, c).consumers = g.consumers
         /\ Subscribe(g, s, c).pending = g.pending
BY DEF GraphInv, GraphTypeOK, Graph, Subscribe

LEMMA GrownEffect ==
  ASSUME NEW g, GraphInv(g), NEW sl, NEW cl
  PROVE  /\ Grown(g, sl, cl).rows = g.rows
         /\ Grown(g, sl, cl).sources = g.sources
         /\ Grown(g, sl, cl).consumers = g.consumers
         /\ Grown(g, sl, cl).pending = g.pending
BY DEF GraphInv, GraphTypeOK, Graph, Grown

\* The entries that Kept leaves are those at the positions it is given.
LEMMA KeptEntries ==
  ASSUME NEW S, NEW q \in Seq(S), NEW K \in SUBSET (DOMAIN q)
  PROVE  {Kept(q, K)[i] : i \in DOMAIN Kept(q, K)} = {q[k] : k \in K}
<1> DEFINE r == Kept(q, K)
<1>1. KeptFacts(S, q, K, r)
  BY KeptProperties
<1> HIDE DEF r
<1>2. /\ \A k \in K : \E i \in DOMAIN r : r[i] = q[k]
      /\ \A i \in DOMAIN r : \E k \in K : r[i] = q[k]
  BY <1>1 DEF KeptFacts
<1>3. {r[i] : i \in DOMAIN r} = {q[k] : k \in K}
  BY <1>2
<1> QED BY <1>3 DEF r

LEMMA RemoveConsumerEffect ==
  ASSUME NEW g, GraphInv(g), NEW id, ConsumerIsLive(g, id)
  PROVE  /\ NodeRemoved(g.consumers, RemoveConsumer(g, id).consumers, id)
         /\ RemoveConsumer(g, id).rows = ClearColumn(g.rows, id.slot)
         /\ RemoveConsumer(g, id).sources = g.sources
         /\ Entries(RemoveConsumer(g, id)) = Entries(g) \ {id}
<1> DEFINE h == RemoveConsumer(g, id)
           K == {i \in DOMAIN g.pending : g.pending[i] # id}
           q == Kept(g.pending, K)
           node == [g.consumers[id.slot] EXCEPT !.live = FALSE, !.pending = FALSE]
           r == [g.consumers EXCEPT ![id.slot] = node]
<1>1. /\ g \in Graph /\ g.consumers \in Seq(ConsumerNode) /\ id.slot \in DOMAIN g.consumers
      /\ g.pending \in Seq(SlotId)
  BY DEF GraphInv, GraphTypeOK, Graph, ConsumerIsLive, NodeIsLive
<1>2. h = [g EXCEPT !.rows = ClearColumn(g.rows, id.slot), !.consumers = r, !.pending = q]
  BY <1>1 DEF RemoveConsumer, ClearConsumer, Graph
<1>3. g.consumers[id.slot] \in ConsumerNode
  BY <1>1
<1>4. NodeRemoved(g.consumers, r, id)
  BY <1>1, <1>3 DEF NodeRemoved, ConsumerNode
<1>5. {q[i] : i \in DOMAIN q} = {g.pending[k] : k \in K}
  BY <1>1, KeptEntries
<1> HIDE DEF h, q, r
<1>6. /\ h.sources = g.sources /\ h.rows = ClearColumn(g.rows, id.slot)
      /\ h.consumers = r /\ h.pending = q
  BY <1>1, <1>2 DEF Graph
<1>7. {g.pending[k] : k \in K} = Entries(g) \ {id}
  BY DEF Entries
<1>8. Entries(h) = Entries(g) \ {id}
  BY <1>5, <1>6, <1>7 DEF Entries
<1> QED BY <1>4, <1>6, <1>8 DEF h

LEMMA PublishCheckedEffect ==
  ASSUME NEW g, GraphInv(g), NEW source, NEW kind
  PROVE  /\ OnlyFlags(g.consumers, PublishChecked(g, source, kind).consumers)
         /\ PublishChecked(g, source, kind).rows = g.rows
         /\ PublishChecked(g, source, kind).sources = g.sources
         /\ Entries(PublishChecked(g, source, kind)) =
              Entries(g) \cup {[slot |-> c, generation |-> g.consumers[c].generation] :
                                 c \in Awakened(g, source, kind)}
<1> DEFINE A == Awakened(g, source, kind)
           slots == Kept([c \in DOMAIN g.consumers |-> c], A)
           Id(c) == [slot |-> c, generation |-> g.consumers[c].generation]
           added == [i \in DOMAIN slots |->
                       [slot |-> slots[i], generation |-> g.consumers[slots[i]].generation]]
           q == g.pending \o added
           r == [c \in DOMAIN g.consumers |->
                   IF c \in A THEN [g.consumers[c] EXCEPT !.pending = TRUE]
                               ELSE g.consumers[c]]
           h == PublishChecked(g, source, kind)
<1>1. g \in Graph /\ g.consumers \in Seq(ConsumerNode) /\ g.pending \in Seq(SlotId)
  BY DEF GraphInv, GraphTypeOK, Graph
<1>2. /\ slots \in Seq(A)
      /\ \A c \in A : \E i \in DOMAIN slots : slots[i] = c
      /\ \A i, j \in DOMAIN slots : slots[i] = slots[j] => i = j
  BY AwakenedProperties
<1>3. h = [g EXCEPT !.consumers = r, !.pending = q]
  BY DEF PublishChecked
<1> HIDE DEF A, slots, h
<1>4. OnlyFlags(g.consumers, r)
  <2>1. \A c \in DOMAIN g.consumers : g.consumers[c] \in ConsumerNode
    BY <1>1
  <2> QED BY <2>1 DEF OnlyFlags, ConsumerNode
<1>5. DOMAIN slots = 1..Len(slots) /\ Len(slots) \in Nat /\ \A i \in DOMAIN slots : slots[i] \in A
  BY <1>2
<1>6. DOMAIN added = 1..Len(slots) /\ \A i \in DOMAIN added : added[i] = Id(slots[i])
  BY <1>5
<1>7. added \in Seq({Id(c) : c \in A})
  <2>1. \A i \in 1..Len(slots) : added[i] \in {Id(c) : c \in A}
    BY <1>5, <1>6
  <2>2. added = [i \in 1..Len(slots) |-> added[i]]
    BY <1>5
  <2> HIDE DEF added, Id
  <2>3. added \in [1..Len(slots) -> {Id(c) : c \in A}]
    BY <2>1, <2>2
  <2> QED BY <1>5, <2>3
<1>8. \A c \in A : \E i \in DOMAIN added : added[i] = Id(c)
  BY <1>2, <1>5, <1>6
<1> HIDE DEF added, r
<1>9. {q[i] : i \in DOMAIN q} = Entries(g) \cup {Id(c) : c \in A}
  <2> DEFINE m == Len(g.pending)
             l == Len(added)
  <2>1. m \in Nat /\ l \in Nat /\ DOMAIN g.pending = 1..m /\ DOMAIN added = 1..l
    BY <1>1, <1>7
  <2>2. /\ DOMAIN q = 1..(m + l)
        /\ \A i \in 1..m : q[i] = g.pending[i]
        /\ \A i \in 1..l : q[m + i] = added[i]
    BY <1>1, <1>7, <2>1
  <2>3. \A i \in 1..l : added[i] \in {Id(c) : c \in A}
    BY <1>7, <2>1
  <2> HIDE DEF m, l, q, Id
  <2>4. ASSUME NEW i \in DOMAIN q PROVE q[i] \in Entries(g) \cup {Id(c) : c \in A}
    <3>1. CASE i \in 1..m
      BY <2>1, <2>2, <3>1 DEF Entries
    <3>2. CASE i \notin 1..m
      <4>1. i - m \in 1..l /\ m + (i - m) = i
        BY <2>1, <2>2, <3>2
      <4>2. q[i] = added[i - m]
        BY <2>2, <4>1
      <4> QED BY <2>3, <4>1, <4>2
    <3> QED BY <3>1, <3>2
  <2>5. ASSUME NEW e \in Entries(g) PROVE e \in {q[i] : i \in DOMAIN q}
    <3>1. PICK i \in 1..m : e = g.pending[i]
      BY <2>1 DEF Entries
    <3>2. i \in DOMAIN q /\ q[i] = e
      BY <2>1, <2>2, <3>1
    <3> QED BY <3>2
  <2>6. ASSUME NEW c \in A PROVE Id(c) \in {q[i] : i \in DOMAIN q}
    <3>1. PICK i \in 1..l : added[i] = Id(c)
      BY <1>8, <2>1
    <3>2. m + i \in DOMAIN q /\ q[m + i] = Id(c)
      BY <2>1, <2>2, <3>1
    <3> QED BY <3>2
  <2> QED BY <2>4, <2>5, <2>6
<1> HIDE DEF q
<1>10. /\ h.sources = g.sources /\ h.rows = g.rows
       /\ h.consumers = r /\ h.pending = q
  BY <1>1, <1>3 DEF Graph
<1> QED BY <1>4, <1>9, <1>10 DEF h, A, Entries

\* A queue has nothing to drop; take removes one entry of the kind, if there is one.
LEMMA TakePendingKindEffect ==
  ASSUME NEW g, GraphInv(g), NEW kind
  PROVE  /\ OnlyFlags(g.consumers, TakePendingKind(g, kind).consumers)
         /\ TakePendingKind(g, kind).rows = g.rows
         /\ TakePendingKind(g, kind).sources = g.sources
         /\ IF Takeable(g, kind) = {}
              THEN Entries(TakePendingKind(g, kind)) = Entries(g)
              ELSE \E e \in Entries(g) : Entries(TakePendingKind(g, kind)) = Entries(g) \ {e}
<1> DEFINE first == FirstTakeable(g, kind)
           passed == {i \in DOMAIN g.pending :
                        (Takeable(g, kind) # {} => i < first) /\ ~ConsumerIsLive(g, g.pending[i])}
           h == TakePendingKind(g, kind)
<1>1. /\ g \in Graph /\ g.consumers \in Seq(ConsumerNode) /\ g.pending \in Seq(SlotId)
      /\ QueueExact(g)
  BY DEF GraphInv, GraphTypeOK, Graph
<1>2. passed = {}
  BY <1>1 DEF QueueExact, QueueEntriesFlagged
<1> HIDE DEF passed
<1>3. CASE Takeable(g, kind) = {}
  <2> DEFINE q == Kept(g.pending, DOMAIN g.pending)
  <2>1. h = [g EXCEPT !.pending = q]
    <3>1. h = [g EXCEPT !.pending = Kept(g.pending, DOMAIN g.pending \ passed)]
      BY <1>3 DEF TakePendingKind, passed
    <3>2. DOMAIN g.pending \ passed = DOMAIN g.pending
      BY <1>2
    <3> QED BY <3>1, <3>2
  <2>2. {q[i] : i \in DOMAIN q} = {g.pending[k] : k \in DOMAIN g.pending}
    BY <1>1, KeptEntries
  <2> HIDE DEF q, h
  <2>3. h.sources = g.sources /\ h.rows = g.rows /\ h.consumers = g.consumers /\ h.pending = q
    BY <1>1, <2>1 DEF Graph
  <2>4. Entries(h) = Entries(g)
    BY <2>2, <2>3 DEF Entries
  <2> QED BY <1>3, <2>3, <2>4 DEF h, OnlyFlags
<1>4. CASE Takeable(g, kind) # {}
  <2> DEFINE c == g.pending[first].slot
             K == DOMAIN g.pending \ {first}
             q == Kept(g.pending, K)
             node == [g.consumers[c] EXCEPT !.pending = FALSE]
             r == [g.consumers EXCEPT ![c] = node]
  <2>1. first \in Takeable(g, kind)
    <3>1. Takeable(g, kind) \in SUBSET Nat
      BY <1>1 DEF Takeable
    <3>2. \E i \in Takeable(g, kind) : \A j \in Takeable(g, kind) : i <= j
      BY <1>4, <3>1, LeastNatural
    <3> QED BY <3>2 DEF FirstTakeable
  <2>2. first \in DOMAIN g.pending /\ c \in DOMAIN g.consumers
    BY <2>1 DEF Takeable, ConsumerIsLive, NodeIsLive
  <2>3. h = [g EXCEPT !.pending = q, !.consumers = r]
    <3>1. h = [g EXCEPT !.pending = Kept(g.pending, DOMAIN g.pending \ (passed \cup {first})),
                        !.consumers[c].pending = FALSE]
      BY <1>4 DEF TakePendingKind, passed
    <3>2. DOMAIN g.pending \ (passed \cup {first}) = K
      BY <1>2
    <3> HIDE DEF first
    <3> QED BY <1>1, <3>1, <3>2 DEF Graph
  <2>4. OnlyFlags(g.consumers, r)
    <3>1. g.consumers[c] \in ConsumerNode
      BY <1>1, <2>2
    <3>2. /\ node.live = g.consumers[c].live /\ node.generation = g.consumers[c].generation
          /\ node.target = g.consumers[c].target
      BY <3>1 DEF ConsumerNode
    <3> HIDE DEF node, c
    <3> QED BY <3>2 DEF OnlyFlags
  <2>5. {q[i] : i \in DOMAIN q} = {g.pending[k] : k \in K}
    BY <1>1, KeptEntries
  <2>6. {g.pending[k] : k \in K} = Entries(g) \ {g.pending[first]}
    <3>1. \A i \in DOMAIN g.pending : g.pending[i] = g.pending[first] => i = first
      BY <1>1, <2>2 DEF QueueExact, QueueEntriesDistinct
    <3> HIDE DEF first
    <3> QED BY <2>2, <3>1 DEF Entries
  <2> HIDE DEF q, r, h
  <2>7. h.sources = g.sources /\ h.rows = g.rows /\ h.consumers = r /\ h.pending = q
    BY <1>1, <2>3 DEF Graph
  <2>8. Entries(h) = Entries(g) \ {g.pending[first]} /\ g.pending[first] \in Entries(g)
    BY <2>2, <2>5, <2>6, <2>7 DEF Entries
  <2> QED BY <1>4, <2>4, <2>7, <2>8 DEF h
<1> QED BY <1>3, <1>4

-----------------------------------------------------------------------------
(***************************************************************************)
(* Generations only grow, and a slot that is dead comes back under a later *)
(* one.                                                                    *)
(***************************************************************************)
Aged(old, new) ==
  /\ DOMAIN old \subseteq DOMAIN new
  /\ \A s \in DOMAIN old :
       /\ old[s].generation <= new[s].generation
       /\ new[s].live /\ new[s].generation = old[s].generation => old[s].live

GraphAges(g, h) == Aged(g.sources, h.sources) /\ Aged(g.consumers, h.consumers)

LEMMA Generations ==
  ASSUME NEW g, GraphInv(g)
  PROVE  /\ \A s \in DOMAIN g.sources : g.sources[s].generation \in Nat
         /\ \A c \in DOMAIN g.consumers : g.consumers[c].generation \in Nat
<1>1. g.sources \in Seq(SourceNode) /\ g.consumers \in Seq(ConsumerNode)
  BY DEF GraphInv, GraphTypeOK, Graph
<1>2. /\ \A s \in DOMAIN g.sources : g.sources[s] \in SourceNode
      /\ \A c \in DOMAIN g.consumers : g.consumers[c] \in ConsumerNode
  BY <1>1
<1> QED BY <1>2, GenerationAssumption DEF SourceNode, ConsumerNode

LEMMA NodesAge ==
  ASSUME NEW old, NEW new, \A s \in DOMAIN old : old[s].generation \in Nat,
         \/ new = old
         \/ OnlyFlags(old, new)
         \/ \E id : \/ NodeAdded(old, new, id)
                    \/ NodeRemoved(old, new, id)
                    \/ NodeIsLive(old, id) /\ NodeRenewed(old, new, id)
  PROVE  Aged(old, new)
<1>1. CASE new = old
  BY <1>1 DEF Aged
<1>2. CASE OnlyFlags(old, new)
  BY <1>2 DEF Aged, OnlyFlags
<1>3. ASSUME NEW id, NodeAdded(old, new, id) PROVE Aged(old, new)
  BY <1>3 DEF Aged, NodeAdded
<1>4. ASSUME NEW id, NodeRemoved(old, new, id) PROVE Aged(old, new)
  BY <1>4 DEF Aged, NodeRemoved
<1>5. ASSUME NEW id, NodeIsLive(old, id), NodeRenewed(old, new, id) PROVE Aged(old, new)
  BY <1>5 DEF Aged, NodeRenewed, NodeIsLive
<1> QED BY <1>1, <1>2, <1>3, <1>4, <1>5
=============================================================================
