--------------------------- MODULE Dependencies ---------------------------
(***************************************************************************)
(* What the reactive dependency graph promises its client, without slots,  *)
(* proxies, bit rows or queues: sources, consumers, who depends on what,   *)
(* and which consumers are due.  ReactiveGraph implements this             *)
(* (core/reactive/graph.rs, ReactiveGraph's public methods).               *)
(***************************************************************************)
CONSTANTS
  Ids,          \* identities, each of one partition: records with .partition
  Shared,       \* the partition every other one may depend on
  Subscriber,   \* what a consumer stands for
  Computeds     \* the subscribers that are computed values

VARIABLES
  sources,      \* the live sources
  consumers,    \* from each live consumer to what it stands for
  deps,         \* pairs <<source, consumer>>
  pending       \* the consumers a publication has made due

depVars == <<sources, consumers, deps, pending>>

Init ==
  /\ sources = {}
  /\ consumers = [c \in {} |-> {}]
  /\ deps = {}
  /\ pending = {}

OfKind(kind, target) ==
  \/ kind = "Any"
  \/ kind = "NonComputed" /\ target \notin Computeds
  \/ kind = "Computed" /\ target \in Computeds

\* Consumers of another World never see a World's source.
MayDepend(c, s) == s.partition = Shared \/ s.partition = c.partition

\* A new source or consumer has an identity nobody uses and no dependency.
AddSource ==
  /\ \E s \in Ids \ sources : sources' = sources \cup {s}
  /\ UNCHANGED <<consumers, deps, pending>>

RemoveSource ==
  \E s \in sources :
    /\ sources' = sources \ {s}
    /\ deps' = {d \in deps : d[1] # s}
    /\ UNCHANGED <<consumers, pending>>

\* The same source under a new identity: whoever depended on it no longer does.
RenewSource ==
  \E s \in sources :
    /\ \E t \in Ids \ sources :
         /\ t.partition = s.partition
         /\ sources' = (sources \ {s}) \cup {t}
    /\ deps' = {d \in deps : d[1] # s}
    /\ UNCHANGED <<consumers, pending>>

AddConsumer ==
  /\ \E c \in Ids \ DOMAIN consumers, target \in Subscriber :
       consumers' = [k \in DOMAIN consumers \cup {c} |->
                       IF k = c THEN target ELSE consumers[k]]
  /\ UNCHANGED <<sources, deps, pending>>

ClearConsumer ==
  /\ \E c \in DOMAIN consumers : deps' = {d \in deps : d[2] # c}
  /\ UNCHANGED <<sources, consumers, pending>>

RemoveConsumer ==
  \E c \in DOMAIN consumers :
    /\ consumers' = [k \in DOMAIN consumers \ {c} |-> consumers[k]]
    /\ deps' = {d \in deps : d[2] # c}
    /\ pending' = pending \ {c}
    /\ UNCHANGED sources

Subscribe ==
  /\ \E s \in sources, c \in DOMAIN consumers :
       MayDepend(c, s) /\ deps' = deps \cup {<<s, c>>}
  /\ UNCHANGED <<sources, consumers, pending>>

\* Every consumer of the kind that depends on the source becomes due, in
\* whatever partition, in one step.
Publish ==
  /\ \E s \in sources, kind \in {"Any", "Computed"} :
       pending' = pending \cup
         {c \in DOMAIN consumers : <<s, c>> \in deps /\ OfKind(kind, consumers[c])}
  /\ UNCHANGED <<sources, consumers, deps>>

Take ==
  /\ \E c \in pending : pending' = pending \ {c}
  /\ UNCHANGED <<sources, consumers, deps>>

\* A World goes away with its sources and consumers; nothing else changes.
DropOwner ==
  \E s \in Ids :
    LET Out(k) == k.partition # s.partition
    IN  /\ s.partition # Shared
        /\ sources' = {k \in sources : Out(k)}
        /\ consumers' = [k \in {k \in DOMAIN consumers : Out(k)} |-> consumers[k]]
        /\ deps' = {d \in deps : Out(d[2])}
        /\ pending' = {k \in pending : Out(k)}

Next ==
  \/ AddSource \/ RemoveSource \/ RenewSource
  \/ AddConsumer \/ ClearConsumer \/ RemoveConsumer
  \/ Subscribe \/ Publish \/ Take \/ DropOwner

Spec == Init /\ [][Next]_depVars
=============================================================================
