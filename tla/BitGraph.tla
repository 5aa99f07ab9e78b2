---------------------------- MODULE BitGraph ----------------------------
(***************************************************************************)
(* One partition of the reactive dependency graph: generational source and *)
(* consumer slots, a bit matrix of subscriptions between them, and the     *)
(* bounded FIFO of consumers that a publication has made pending           *)
(* (core/reactive/graph.rs, BitGraph).                                     *)
(*                                                                         *)
(* A graph is a record and every method of BitGraph is an operator from    *)
(* graphs to graphs.  The test a method makes before it changes anything   *)
(* is an operator of its own (CanAddSource, SourceIsLive, CheckPublish,    *)
(* ...); a caller whose test fails gets an error and the graph as it was.  *)
(*                                                                         *)
(* Abstractions: slots count from 1; the bit matrix is the set of its 1    *)
(* bits, <<source slot, consumer slot>>; a failed allocation is an error   *)
(* that changes nothing, as every buffer is reserved before the first      *)
(* write.                                                                  *)
(***************************************************************************)
EXTENDS Integers, Sequences, FiniteSets

CONSTANTS
  MaxGeneration,   \* the last generation of a slot: u32::MAX in the code
  SlotLimit,       \* the largest capacity of a partition: u32::MAX in the code
  Widgets,         \* targets Subscriber::Widget and Subscriber::VisualWidget
  Effects,         \* targets Subscriber::Effect
  Computeds        \* targets Subscriber::Computed

ASSUME GenerationAssumption == MaxGeneration \in Nat \ {0}
ASSUME SlotAssumption == SlotLimit \in Nat
ASSUME TargetAssumption == (Widgets \cup Effects) \cap Computeds = {}

Subscriber == Widgets \cup Effects \cup Computeds

SlotId == [slot : Nat \ {0}, generation : Nat \ {0}]

PendingKind == {"Any", "NonComputed", "Computed"}

\* PendingKind::matches
Matches(kind, target) ==
  \/ kind = "Any"
  \/ kind = "NonComputed" /\ target \notin Computeds
  \/ kind = "Computed" /\ target \in Computeds

SourceNode == [generation : 1..MaxGeneration, live : BOOLEAN]

\* The automatic flag of a node only matters to find_consumer, which is in
\* module ReactiveRuntime.
ConsumerNode ==
  [generation : 1..MaxGeneration, live : BOOLEAN, pending : BOOLEAN,
   target : Subscriber]

\* An edge of the matrix is <<source slot, consumer slot>>.
Graph ==
  [sources : Seq(SourceNode), consumers : Seq(ConsumerNode),
   rows : SUBSET (Nat \X Nat), pending : Seq(SlotId),
   sourceLimit : Nat, consumerLimit : Nat]

\* BitGraph::try_new: an empty graph, or an error above the slot limit.
CanAllocate(sourceLimit, consumerLimit) ==
  sourceLimit <= SlotLimit /\ consumerLimit <= SlotLimit

NewGraph(sourceLimit, consumerLimit) ==
  [sources |-> << >>, consumers |-> << >>, rows |-> {}, pending |-> << >>,
   sourceLimit |-> sourceLimit, consumerLimit |-> consumerLimit]

\* BitGraph::try_grown: larger limits, everything else copied.
Grown(g, sourceLimit, consumerLimit) ==
  [g EXCEPT !.sourceLimit = sourceLimit, !.consumerLimit = consumerLimit]

-----------------------------------------------------------------------------
(***************************************************************************)
(* Slots.  A dead slot is used again under its next generation, unless     *)
(* its generations are spent; otherwise a slot is pushed.                  *)
(***************************************************************************)
Reusable(nodes) ==
  {s \in DOMAIN nodes : ~nodes[s].live /\ nodes[s].generation < MaxGeneration}

NextSlot(nodes) ==
  IF Reusable(nodes) = {}
    THEN Len(nodes) + 1
    ELSE CHOOSE s \in Reusable(nodes) : \A t \in Reusable(nodes) : s <= t

\* Mutant: a reused slot keeps its generation.
NextIdSameGeneration(nodes) ==
  LET s == NextSlot(nodes)
  IN  [slot |-> s, generation |-> IF s \in DOMAIN nodes THEN nodes[s].generation ELSE 1]

NextId(nodes) ==
  LET s == NextSlot(nodes)
  IN  [slot |-> s,
       generation |-> IF s \in DOMAIN nodes THEN nodes[s].generation + 1 ELSE 1]

Place(nodes, s, node) ==
  [i \in DOMAIN nodes \cup {s} |-> IF i = s THEN node ELSE nodes[i]]

NodeIsLive(nodes, id) ==
  /\ id.slot \in DOMAIN nodes
  /\ nodes[id.slot].live
  /\ nodes[id.slot].generation = id.generation

SourceIsLive(g, id) == NodeIsLive(g.sources, id)
ConsumerIsLive(g, id) == NodeIsLive(g.consumers, id)

\* Mutant: the limit is off by one.
CanAddSourceOneMore(g) == Reusable(g.sources) # {} \/ Len(g.sources) <= g.sourceLimit

CanAddSource(g) == Reusable(g.sources) # {} \/ Len(g.sources) < g.sourceLimit
CanAddConsumer(g) == Reusable(g.consumers) # {} \/ Len(g.consumers) < g.consumerLimit

AvailableConsumerSlots(g) ==
  Cardinality(Reusable(g.consumers)) + g.consumerLimit - Len(g.consumers)

ClearRow(rows, s) == {e \in rows : e[1] # s}
ClearColumn(rows, c) == {e \in rows : e[2] # c}

AddSource(g) ==
  LET id == NextId(g.sources)
  IN  [g EXCEPT !.sources = Place(@, id.slot, [generation |-> id.generation, live |-> TRUE]),
                !.rows = ClearRow(@, id.slot)]

AddConsumer(g, target) ==
  LET id == NextId(g.consumers)
  IN  [g EXCEPT !.consumers =
                  Place(@, id.slot, [generation |-> id.generation, live |-> TRUE,
                                     pending |-> FALSE, target |-> target]),
                !.rows = ClearColumn(@, id.slot)]

RemoveSource(g, id) ==
  [g EXCEPT !.sources[id.slot].live = FALSE, !.rows = ClearRow(@, id.slot)]

\* A source under its next generation, or dead after its last one.
Renewed(node) ==
  IF node.generation = MaxGeneration
    THEN [node EXCEPT !.live = FALSE]
    ELSE [node EXCEPT !.generation = node.generation + 1]

\* Mutant: the subscriptions of the old generation stay.
RenewSourceKeepingRow(g, id) == [g EXCEPT !.sources[id.slot] = Renewed(@)]

\* renew_source: the next generation of the same slot, or the slot dies with
\* its last one (Err(IdentityExhausted)).
RenewSource(g, id) ==
  [g EXCEPT !.rows = ClearRow(@, id.slot), !.sources[id.slot] = Renewed(@)]

ClearConsumer(g, id) == [g EXCEPT !.rows = ClearColumn(@, id.slot)]

\* The queue with only the entries at the positions of K, in their order.
Kept(queue, K) ==
  LET n == Cardinality(K)
      order == CHOOSE f \in [1..n -> K] :
                 \A i, j \in 1..n : i < j => f[i] < f[j]
  IN  [i \in 1..n |-> queue[order[i]]]

\* Mutants: the subscriptions, or the queue entry, of the consumer stay.
RemoveConsumerKeepingRows(g, id) ==
  [g EXCEPT
     !.consumers[id.slot].live = FALSE,
     !.consumers[id.slot].pending = FALSE,
     !.pending = Kept(@, {i \in DOMAIN @ : @[i] # id})]

RemoveConsumerKeepingQueue(g, id) ==
  [ClearConsumer(g, id) EXCEPT
     !.consumers[id.slot].live = FALSE,
     !.consumers[id.slot].pending = FALSE]

RemoveConsumer(g, id) ==
  [ClearConsumer(g, id) EXCEPT
     !.consumers[id.slot].live = FALSE,
     !.consumers[id.slot].pending = FALSE,
     !.pending = Kept(@, {i \in DOMAIN @ : @[i] # id})]

Subscribe(g, source, consumer) ==
  [g EXCEPT !.rows = @ \cup {<<source.slot, consumer.slot>>}]

-----------------------------------------------------------------------------
(***************************************************************************)
(* Publication.  check_publish counts the consumers that a publication     *)
(* would queue; publish_checked queues them in slot order.                 *)
(***************************************************************************)
\* Mutant: a consumer that is pending is queued again.
AwakenedAgain(g, source, kind) ==
  {c \in DOMAIN g.consumers :
     /\ <<source.slot, c>> \in g.rows
     /\ g.consumers[c].live
     /\ Matches(kind, g.consumers[c].target)}

Awakened(g, source, kind) ==
  {c \in DOMAIN g.consumers :
     /\ <<source.slot, c>> \in g.rows
     /\ g.consumers[c].live
     /\ ~g.consumers[c].pending
     /\ Matches(kind, g.consumers[c].target)}

CheckPublish(g, source, kind) ==
  /\ SourceIsLive(g, source)
  /\ Len(g.pending) + Cardinality(Awakened(g, source, kind)) <= g.consumerLimit

PublishChecked(g, source, kind) ==
  LET awakened == Awakened(g, source, kind)
      slots == Kept([c \in DOMAIN g.consumers |-> c], awakened)
  IN  [g EXCEPT
         !.consumers = [c \in DOMAIN @ |->
            IF c \in awakened THEN [g.consumers[c] EXCEPT !.pending = TRUE]
                              ELSE g.consumers[c]],
         !.pending = @ \o
            [i \in DOMAIN slots |->
               [slot |-> slots[i], generation |-> g.consumers[slots[i]].generation]]]

\* The queue positions that hold a live consumer of the kind, and the one
\* take_pending_kind returns.
Takeable(g, kind) ==
  {i \in DOMAIN g.pending :
     /\ ConsumerIsLive(g, g.pending[i])
     /\ Matches(kind, g.consumers[g.pending[i].slot].target)}

FirstTakeable(g, kind) ==
  CHOOSE i \in Takeable(g, kind) : \A j \in Takeable(g, kind) : i <= j

\* take_pending_kind: entries of dead or reused slots that the scan meets are
\* dropped, the first match is removed and its flag cleared, others stay.
TakePendingKind(g, kind) ==
  LET first == FirstTakeable(g, kind)
      found == Takeable(g, kind) # {}
      passed == {i \in DOMAIN g.pending :
                   (found => i < first) /\ ~ConsumerIsLive(g, g.pending[i])}
  IN  IF found
        THEN [g EXCEPT !.pending = Kept(@, DOMAIN @ \ (passed \cup {first})),
                       !.consumers[g.pending[first].slot].pending = FALSE]
        ELSE [g EXCEPT !.pending = Kept(@, DOMAIN @ \ passed)]

-----------------------------------------------------------------------------
(***************************************************************************)
(* What holds of every partition.                                          *)
(***************************************************************************)

\* No more slots than the limits, and edges between existing slots.
GraphTypeOK(g) ==
  /\ g \in Graph
  /\ Len(g.sources) <= g.sourceLimit
  /\ Len(g.consumers) <= g.consumerLimit
  /\ g.rows \subseteq (DOMAIN g.sources) \X (DOMAIN g.consumers)

EdgesLive(g) == \A e \in g.rows : g.sources[e[1]].live /\ g.consumers[e[2]].live

QueueEntriesFlagged(g) ==
  \A i \in DOMAIN g.pending :
    ConsumerIsLive(g, g.pending[i]) /\ g.consumers[g.pending[i].slot].pending

QueueEntriesDistinct(g) ==
  \A i, j \in DOMAIN g.pending : g.pending[i].slot = g.pending[j].slot => i = j

FlaggedAreQueued(g) ==
  \A c \in DOMAIN g.consumers : g.consumers[c].pending =>
    \E i \in DOMAIN g.pending : g.pending[i].slot = c

QueueExact(g) == QueueEntriesFlagged(g) /\ QueueEntriesDistinct(g) /\ FlaggedAreQueued(g)

GraphInv(g) == GraphTypeOK(g) /\ EdgesLive(g) /\ QueueExact(g)
=============================================================================
