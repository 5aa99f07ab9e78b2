------------------------ MODULE MCReactiveRuntime ------------------------
(***************************************************************************)
(* Small instances of ReactiveRuntime, and three of them side by side:     *)
(* each keeps to a part of the constants, and no behaviour of one needs    *)
(* what belongs to another.                                                *)
(***************************************************************************)
EXTENDS ReactiveRuntime, TLC

CONSTANTS
  First, InFirst,     \* a World and what it owns
  Second, InSecond,
  Bound,              \* the effects bound to a widget behind all gates
  Chained             \* the computeds of the instance with a single effect

MCOwnerOf ==
  [x \in Models \cup Computeds \cup Entities \cup Gates |->
     IF x \in InFirst THEN First ELSE IF x \in InSecond THEN Second ELSE None]

MCEntityOf ==
  [e \in Effects |-> IF e \in Bound THEN CHOOSE n \in Entities : TRUE ELSE None]

MCGatesOf == [e \in Effects |-> IF e \in Bound THEN Gates ELSE {}]

UsedEffects == {e \in Effects : status[e] # "new"}
UsedComputeds ==
  {c \in Computeds : c \notin stale \/ c \in Running \/ reads[c] # {}
                     \/ \E d \in deps : c \in {d[1], d[2]}}

OneWorld ==
  /\ Second \notin {home[e] : e \in Effects} \cup {frames[i].world : i \in DOMAIN frames}
  /\ Second \notin released /\ flushing # Second
  /\ concealed = {} /\ dead = {} /\ retired = {}
  /\ \A x \in Subscribers : reads[x] \cap Models = {}
  /\ \A d \in deps : d[1] \notin Models

Instances ==
  \/ /\ OneWorld
     /\ \/ UsedComputeds \cap Chained = {}
        \/ Cardinality(UsedEffects) <= 1
  \/ UsedComputeds = {}
=============================================================================
