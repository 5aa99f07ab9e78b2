------------------------- MODULE MCReactiveGraph -------------------------
(***************************************************************************)
(* Small instances of ReactiveGraph: two of them side by side, for the     *)
(* shared partition in full beside several owners is too large.  In one    *)
(* the client never gives owners a capacity, so that the shared partition  *)
(* runs alone through all its generations; in the other it adds and        *)
(* removes Worlds, beside a shared partition with no consumers of its own. *)
(***************************************************************************)
EXTENDS ReactiveGraph, TLC

CONSTANTS
  MaxReuse,       \* how often slots are used again where there are no owners
  Sources,        \* sources of the shared partition where there are none
  Consumers, OwnerSources, OwnerConsumers   \* the other parts of Growth

MCGrowth ==
  [sharedSources |-> Sources, sharedConsumers |-> Consumers,
   ownerSources |-> OwnerSources, ownerConsumers |-> OwnerConsumers,
   owners |-> MaxOwners]

Symmetry == Permutations(Worlds)

RECURSIVE Reuses(_)
Reuses(nodes) ==
  IF nodes = << >> THEN 0 ELSE Head(nodes).generation - 1 + Reuses(Tail(nodes))

Partition ==
  /\ nextOwnerEpoch = 1
  /\ capacity.owners = 0 /\ capacity.ownerSources = 0 /\ capacity.ownerConsumers = 0
  /\ Reuses(shared.sources) + Reuses(shared.consumers) <= MaxReuse

OwnerWithinBounds(o) ==
  /\ Reuses(o.graph.sources) + Reuses(o.graph.consumers) = 0
  /\ \A c \in DOMAIN o.graph.consumers : o.graph.consumers[c].target \notin Computeds

Owners ==
  /\ capacity.sharedSources <= 1 /\ capacity.sharedConsumers = 0
  /\ Reuses(shared.sources) = 0
  /\ \A i \in DOMAIN owners : OwnerWithinBounds(owners[i])

Instances == Partition \/ Owners
=============================================================================
