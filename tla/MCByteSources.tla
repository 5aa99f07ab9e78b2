--------------------------- MODULE MCByteSources ---------------------------
(* Instances of ByteSources for TLC. *)
EXTENDS ByteSources

(* Two instances side by side: of Pair, Reader reads all offsets and the   *)
(* other a single one; or Reader reads that one while any number open.     *)
CONSTANTS Pair, Reader, Single

ReadsSingle(s) ==
  /\ src[s].want \in {Single, None}
  /\ src[s].last # None => src[s].last.key.offset = Single
  /\ src[s].read # None => src[s].read.key.offset = Single
Opens(s) == src[s].stage \in {"closed", "opening", "opened"} /\ ~src[s].retiring

TwoRead ==
  /\ \A s \in Sessions \ Pair : src[s].stage = "closed"
  /\ \A s \in Sessions \ {Reader} : ReadsSingle(s)
  /\ waiters \subseteq Pair
OneReads ==
  /\ faults = 0
  /\ ReadsSingle(Reader)
  /\ \A i \in Slots : block[i].key \in {None, [source |-> Reader, offset |-> Single]}
  /\ \A s \in Sessions \ {Reader} : Opens(s)
Instances == TwoRead \/ OneReads

FairSpec == Spec /\ Fairness(Reader)

(* A session that is dropped with an operation pending can be opened again *)
(* eventually, unless retiring it panics (poll_retired; put).              *)
ReaderReturns == Returns(Reader)
=============================================================================
