------------------------- MODULE ByteSources_proofs -------------------------
(***************************************************************************)
(* The safety of the byte sources for any number of sessions, blocks, reads *)
(* in flight and waiters: buffers and reservations are accounted for, a    *)
(* block that is held keeps its bytes, and who waits will be woken.        *)
(***************************************************************************)
EXTENDS ByteSources, FiniteSetTheorems, SequenceTheorems, TLAPS

-----------------------------------------------------------------------------
(***************************************************************************)
(* The inductive invariant.                                                *)
(***************************************************************************)

\* What the state of session s says of where it is in its life, and of the blocks b
\* that it reads into and holds.
Sound(s, x, b) ==
  /\ x.read # None => /\ x.stage = "open" /\ x.io # "none" /\ x.read.key.source = s
                      /\ b[x.read.slot] = [key |-> x.read.key, buffer |-> "out"]
  /\ x.last # None => /\ x.stage = "open" /\ x.last.key.source = s
                      /\ b[x.last.slot] = [key |-> x.last.key, buffer |-> "here"]
  /\ x.stage = "opening" => x.io \in {"running", "ready"} /\ x.at = "out"
  /\ x.stage = "opened" => x.at \in {"out", "identify"} /\ x.io = "none"
  /\ x.stage \in {"closed", "failed", "broken"} => x.at = "out" /\ x.io = "none"
  /\ x.stage = "open" /\ x.read = None => x.io = "none"
  /\ x.at = "identify" => x.stage = "opened"
  /\ x.at \in {"lookup", "reserve"} => x.stage = "open" /\ x.want # None /\ ~x.retiring
  /\ x.at = "reserve" => x.read = None
  /\ x.at \in {"physical", "finish", "abandon"} => x.read # None
  /\ x.retiring => x.stage = "opening" \/ x.read # None
  /\ x.at # "out" => ~x.parked
  /\ x.at = "abandon" => x.retiring

SessionInv == \A s \in Sessions : Sound(s, src[s], block)

\* Buffers that are out have one read each.
OwnersInv ==
  /\ \A i \in Slots : block[i].buffer = "out"
       => \E s \in Sessions : src[s].read # None /\ src[s].read.slot = i
  /\ \A s, t \in Sessions :
       src[s].read # None /\ src[t].read # None /\ src[s].read.slot = src[t].read.slot => s = t

Charged == {s \in Sessions : src[s].read # None \/ src[s].stage = "broken"}
CountInv == inFlight = Cardinality(Charged)

\* The cache has each block once, and only blocks whose buffer is there.
CacheOf(q, b) ==
  /\ q \in Seq(Slots)
  /\ \A m, n \in 1..Len(q) : q[m] = q[n] => m = n
  /\ \A n \in 1..Len(q) : b[q[n]].buffer = "here"
LruInv == CacheOf(lru, block)

IInv ==
  TypeOK /\ SessionInv /\ OwnersInv /\ CountInv /\ LruInv /\ ParkedWillWake

-----------------------------------------------------------------------------
(***************************************************************************)
(* One session moves, and the return of a lease wakes those who wait.      *)
(***************************************************************************)

\* The state z of a session is x, except that it may have been woken.
SameButWoken(x, z) ==
  z \in Session /\ (z = x \/ z = [x EXCEPT !.parked = FALSE])

Moves(s, y) ==
  src' = [src EXCEPT ![s] = y] \/ src' = Woken([src EXCEPT ![s] = y])

LEMMA SessionOf ==
  ASSUME IInv, NEW s \in Sessions
  PROVE  src[s] \in Session /\ Sound(s, src[s], block)
BY DEF IInv, TypeOK, SessionInv

LEMMA MovesTo ==
  ASSUME IInv, NEW s \in Sessions, NEW y \in Session, Moves(s, y)
  PROVE  /\ src' \in [Sessions -> Session]
         /\ SameButWoken(y, src'[s])
         /\ \A t \in Sessions \ {s} : SameButWoken(src[t], src'[t])
<1> DEFINE a == [src EXCEPT ![s] = y]
<1>1. a \in [Sessions -> Session] /\ a[s] = y /\ \A t \in Sessions \ {s} : a[t] = src[t]
  BY DEF IInv, TypeOK
<1>2. src' = a \/ src' = Woken(a)
  BY DEF Moves
<1> HIDE DEF a
<1>3. \A t \in Sessions : [a[t] EXCEPT !.parked = FALSE] \in Session
  BY <1>1 DEF Session
<1>4. \A t \in Sessions : SameButWoken(a[t], a[t]) /\ SameButWoken(a[t], Woken(a)[t])
  BY <1>1, <1>3 DEF SameButWoken, Woken
<1>5. Woken(a) \in [Sessions -> Session]
  BY <1>1, <1>3 DEF Woken
<1> QED
  BY <1>1, <1>2, <1>4, <1>5

LEMMA WokenFields ==
  ASSUME NEW x \in Session, NEW z, SameButWoken(x, z)
  PROVE  /\ z \in Session
         /\ z.stage = x.stage /\ z.at = x.at /\ z.want = x.want /\ z.read = x.read
         /\ z.io = x.io /\ z.last = x.last /\ z.retiring = x.retiring
         /\ z.parked => x.parked
BY DEF SameButWoken, Session

LEMMA WokenSound ==
  ASSUME NEW s, NEW b, NEW x \in Session, NEW z, SameButWoken(x, z), Sound(s, x, b)
  PROVE  Sound(s, z, b)
BY WokenFields DEF Sound

\* What a session reads into and holds is all that it says of the blocks.
LEMMA SoundElsewhere ==
  ASSUME NEW s, NEW b, NEW c, NEW x \in Session, Sound(s, x, b),
         x.read # None => c[x.read.slot] = b[x.read.slot],
         x.last # None => c[x.last.slot] = b[x.last.slot]
  PROVE  Sound(s, x, c)
BY DEF Sound

\* The blocks that sessions read into and hold are other blocks.
LEMMA Apart ==
  ASSUME IInv, NEW s \in Sessions, NEW t \in Sessions
  PROVE  /\ src[s].read # None /\ src[t].last # None => src[s].read.slot # src[t].last.slot
         /\ src[s].read # None => /\ src[s].read \in Blocks /\ src[s].read.slot \in Slots
                                  /\ block[src[s].read.slot].buffer = "out"
                                  /\ src[s].read.key \in Keys
         /\ src[s].last # None => /\ src[s].last \in Blocks /\ src[s].last.slot \in Slots
                                  /\ src[s].last.key \in Keys
                                  /\ block[src[s].last.slot].buffer = "here"
<1>1. src[s] \in Session /\ Sound(s, src[s], block) /\ src[t] \in Session /\ Sound(t, src[t], block)
  BY SessionOf
<1> QED
  BY <1>1 DEF Sound, Session, Blocks

\* Whoever is parked by the time the lease is back waits for a provider.
LEMMA ReturnWakes ==
  ASSUME IInv, NEW s \in Sessions, NEW y \in Session,
         src' = Woken([src EXCEPT ![s] = y]), ~y.parked
  PROVE  ParkedWillWake'
<1>1. src \in [Sessions -> Session]
  BY DEF IInv, TypeOK
<1>2. SUFFICES ASSUME NEW t \in Sessions, src'[t].parked
               PROVE  src'[t].io = "running"
  BY DEF ParkedWillWake
<1>3. t # s /\ t \notin waiters /\ src'[t] = src[t]
  BY <1>1, <1>2 DEF Woken, Session
<1> QED
  BY <1>2, <1>3 DEF IInv, ParkedWillWake

LEMMA MovesParked ==
  ASSUME IInv, NEW s \in Sessions, NEW y \in Session,
         src' = [src EXCEPT ![s] = y],
         lease # None => lease' # None, waiters \subseteq waiters',
         y.parked => y.io = "running" \/ (lease' # None /\ s \in waiters')
  PROVE  ParkedWillWake'
<1>1. src \in [Sessions -> Session]
  BY DEF IInv, TypeOK
<1> QED
  BY <1>1 DEF IInv, ParkedWillWake

LEMMA WaitersFit ==
  ASSUME IInv, waiters' = {} \/ waiters' = waiters
  PROVE  waiters' \subseteq Sessions /\ Cardinality(waiters') =< WaiterSlots
BY PoolAssumption, FS_EmptySet DEF IInv, TypeOK

\* A move that leaves the pool alone, and the read of the session.
LEMMA PoolStays ==
  ASSUME IInv, NEW s \in Sessions, NEW y \in Session, Moves(s, y), Sound(s, y, block),
         y.read = src[s].read, y.stage = "broken" <=> src[s].stage = "broken",
         UNCHANGED <<block, inFlight>>
  PROVE  /\ src' \in [Sessions -> Session]
         /\ SessionInv' /\ OwnersInv' /\ CountInv'
<1>1. /\ src' \in [Sessions -> Session]
      /\ SameButWoken(y, src'[s])
      /\ \A t \in Sessions \ {s} : SameButWoken(src[t], src'[t])
  BY MovesTo
<1>2. \A t \in Sessions : Sound(t, src'[t], block)
  BY <1>1, WokenSound, SessionOf
<1>3. \A t \in Sessions : src'[t].read = src[t].read /\ (src'[t].stage = "broken" <=> src[t].stage = "broken")
  BY <1>1, WokenFields, SessionOf
<1>4. Charged' = Charged
  BY <1>3 DEF Charged
<1> QED
  BY <1>1, <1>2, <1>3, <1>4 DEF IInv, SessionInv, OwnersInv, CountInv
\* The read of the session ends: its buffer is back, or lost.
LEMMA Released ==
  ASSUME IInv, NEW s \in Sessions, NEW y \in Session, Moves(s, y),
         src[s].read # None, y.read = None,
         NEW w \in {"here", "lost"},
         block' = [block EXCEPT ![src[s].read.slot].buffer = w],
         Sound(s, y, block'),
         IF y.stage = "broken" THEN inFlight' = inFlight ELSE inFlight' = inFlight - 1
  PROVE  /\ src' \in [Sessions -> Session]
         /\ block' \in [Slots -> [key : Keys \cup {None}, buffer : {"here", "out", "lost"}]]
         /\ inFlight' \in 0..MaxInFlight
         /\ SessionInv' /\ OwnersInv' /\ CountInv' /\ CacheOf(lru, block')
<1> DEFINE i == src[s].read.slot
<1>1. /\ src' \in [Sessions -> Session]
      /\ SameButWoken(y, src'[s])
      /\ \A t \in Sessions \ {s} : SameButWoken(src[t], src'[t])
  BY MovesTo
<1>2. /\ i \in Slots /\ block[i].buffer = "out" /\ src[s].stage = "open"
      /\ block \in [Slots -> [key : Keys \cup {None}, buffer : {"here", "out", "lost"}]]
  BY Apart, SessionOf DEF Sound, IInv, TypeOK
<1>3. /\ block' \in [Slots -> [key : Keys \cup {None}, buffer : {"here", "out", "lost"}]]
      /\ block'[i].buffer = w
      /\ \A j \in Slots \ {i} : block'[j] = block[j]
  BY <1>2
<1>4. ASSUME NEW t \in Sessions \ {s}
      PROVE  Sound(t, src'[t], block')
  <2>1. src[t] \in Session /\ Sound(t, src[t], block)
    BY SessionOf
  <2>2. src[t].read # None => src[t].read.slot \in Slots \ {i}
    BY Apart DEF IInv, OwnersInv
  <2>3. src[t].last # None => src[t].last.slot \in Slots \ {i}
    BY Apart
  <2>4. Sound(t, src[t], block')
    BY <1>3, <2>1, <2>2, <2>3, SoundElsewhere
  <2> QED
    BY <1>1, <2>1, <2>4, WokenSound
<1>5. Sound(s, src'[s], block')
  BY <1>1, WokenSound
<1>6. SessionInv'
  BY <1>4, <1>5 DEF SessionInv
<1>7. /\ src'[s].read = None /\ src'[s].stage = y.stage
      /\ \A t \in Sessions \ {s} : src'[t].read = src[t].read /\ src'[t].stage = src[t].stage
  BY <1>1, WokenFields, SessionOf
<1>8. OwnersInv'
  BY <1>2, <1>3, <1>7 DEF IInv, OwnersInv
<1>9. CountInv' /\ inFlight' \in 0..MaxInFlight
  <2>1. IsFiniteSet(Charged) /\ s \in Charged /\ inFlight = Cardinality(Charged)
    BY FS_Subset, FiniteAssumption DEF Charged, IInv, CountInv
  <2>2. inFlight \in 0..MaxInFlight /\ MaxInFlight \in Nat
    BY PoolAssumption DEF IInv, TypeOK
  <2>3. CASE y.stage = "broken"
    <3>1. Charged' = Charged
      BY <1>7, <2>1, <2>3 DEF Charged
    <3> QED
      BY <2>1, <2>2, <2>3, <3>1 DEF CountInv
  <2>4. CASE y.stage # "broken"
    <3>1. Charged' = Charged \ {s}
      BY <1>7, <2>4 DEF Charged
    <3>2. Cardinality(Charged \ {s}) = Cardinality(Charged) - 1 /\ Cardinality(Charged \ {s}) \in Nat
      BY <2>1, FS_RemoveElement, FS_CardinalityType
    <3> QED
      BY <2>1, <2>2, <2>4, <3>1, <3>2 DEF CountInv
  <2> QED
    BY <2>3, <2>4
<1>10. CacheOf(lru, block')
  BY <1>2, <1>3, ElementOfSeq DEF IInv, LruInv, CacheOf
<1> QED
  BY <1>1, <1>3, <1>6, <1>8, <1>9, <1>10

-----------------------------------------------------------------------------
(***************************************************************************)
(* The cache.                                                              *)
(***************************************************************************)

LEMMA CacheTyped ==
  ASSUME NEW q, NEW b, CacheOf(q, b)
  PROVE  IsInjective(q) /\ Range(q) \subseteq Slots
BY LenProperties, ElementOfSeq DEF CacheOf, IsInjective, Range

\* A block that was used goes to the end.
LEMMA CacheTouched ==
  ASSUME NEW q, NEW b, CacheOf(q, b), NEW n \in 1..Len(q)
  PROVE  CacheOf(Append(RemoveAt(q, n), q[n]), b)
<1> DEFINE left == SubSeq(q, 1, n - 1)
           right == SubSeq(q, n + 1, Len(q))
<1>1. q \in Seq(Slots) /\ Len(q) \in Nat /\ n \in Nat /\ \A m \in 1..Len(q) : q[m] \in Slots
  BY LenProperties, ElementOfSeq DEF CacheOf
<1>2. left \in Seq(Slots) /\ Len(left) = n - 1 /\ \A m \in 1..n - 1 : left[m] = q[m]
  <2>1. 1 \in Int /\ n - 1 \in Int /\ \A m \in 1..(n - 1) : q[m] \in Slots
    BY <1>1
  <2>2. /\ left \in Seq(Slots)
        /\ Len(left) = IF 1 <= n - 1 THEN (n - 1) - 1 + 1 ELSE 0
        /\ \A m \in 1..((n - 1) - 1 + 1) : left[m] = q[1 + m - 1]
    BY <2>1, SubSeqProperties
  <2> HIDE DEF left
  <2> QED
    BY <1>1, <2>2
<1>3. /\ right \in Seq(Slots) /\ Len(right) = Len(q) - n
      /\ \A m \in 1..Len(q) - n : right[m] = q[n + m]
  <2>1. n + 1 \in Int /\ Len(q) \in Int /\ \A m \in (n + 1)..Len(q) : q[m] \in Slots
    BY <1>1
  <2>2. /\ right \in Seq(Slots)
        /\ Len(right) = IF n + 1 <= Len(q) THEN Len(q) - (n + 1) + 1 ELSE 0
        /\ \A m \in 1..(Len(q) - (n + 1) + 1) : right[m] = q[(n + 1) + m - 1]
    BY <2>1, SubSeqProperties
  <2> HIDE DEF right
  <2> QED
    BY <1>1, <2>2
<1> DEFINE rest == left \o right
<1>4. RemoveAt(q, n) = rest
  BY DEF RemoveAt
<1> HIDE DEF left, right
<1>5. /\ rest \in Seq(Slots) /\ Len(rest) = Len(q) - 1
      /\ \A m \in 1..Len(q) - 1 : rest[m] = IF m < n THEN q[m] ELSE q[m + 1]
  <2>1. /\ rest \in Seq(Slots) /\ Len(rest) = Len(left) + Len(right)
        /\ \A m \in 1..Len(left) + Len(right) :
             rest[m] = IF m <= Len(left) THEN left[m] ELSE right[m - Len(left)]
    BY <1>2, <1>3, ConcatProperties
  <2> HIDE DEF rest
  <2> QED
    BY <1>1, <1>2, <1>3, <2>1
<1> HIDE DEF rest
<1> DEFINE r == Append(rest, q[n])
<1>6. /\ r \in Seq(Slots) /\ Len(r) = Len(q)
      /\ \A m \in 1..Len(q) : r[m] = IF m = Len(q) THEN q[n] ELSE rest[m]
  BY <1>1, <1>5
<1> HIDE DEF r
<1>7. \A m \in 1..Len(q) : r[m] = IF m = Len(q) THEN q[n] ELSE IF m < n THEN q[m] ELSE q[m + 1]
  BY <1>1, <1>5, <1>6
<1>8. \A m, k \in 1..Len(q) : r[m] = r[k] => m = k
  BY <1>1, <1>7 DEF CacheOf
<1>9. \A m \in 1..Len(q) : b[r[m]].buffer = "here"
  BY <1>1, <1>7 DEF CacheOf
<1>10. CacheOf(r, b)
  BY <1>6, <1>8, <1>9 DEF CacheOf
<1> QED
  BY <1>4, <1>10 DEF r

\* A block that was published goes to the end.
LEMMA CacheGrows ==
  ASSUME NEW q, NEW b, CacheOf(q, b), NEW i \in Slots, b[i].buffer = "here",
         \A n \in 1..Len(q) : q[n] # i
  PROVE  CacheOf(Append(q, i), b)
<1>1. q \in Seq(Slots) /\ Len(q) \in Nat
  BY LenProperties DEF CacheOf
<1> DEFINE r == Append(q, i)
<1>2. /\ r \in Seq(Slots) /\ Len(r) = Len(q) + 1
      /\ \A n \in 1..Len(q) + 1 : r[n] = IF n = Len(q) + 1 THEN i ELSE q[n]
  BY <1>1
<1> HIDE DEF r
<1>3. CacheOf(r, b)
  BY <1>1, <1>2 DEF CacheOf
<1> QED
  BY <1>3 DEF r

\* A set of natural numbers that is not empty has a least element.
LEMMA LeastNatural ==
  ASSUME NEW T \in SUBSET Nat, T # {}
  PROVE  \E x \in T : \A y \in T : x =< y
<1> DEFINE R == {ss \in Nat \X Nat : ss[1] < ss[2]}
<1>1. IsWellFoundedOn(R, Nat)
  BY NatLessThanWellFounded DEF OpToRel
<1>2. \A x, y \in Nat : y < x => <<y, x>> \in R
  OBVIOUS
<1> HIDE DEF R
<1>3. PICK x \in T : \A y \in T : <<y, x>> \notin R
  BY <1>1, WFMin
<1>4. \A y \in T : ~(y < x)
  BY <1>2, <1>3
<1> QED
  BY <1>3, <1>4

\* Eviction takes blocks away from the front.
LEMMA CacheEvicted ==
  ASSUME NEW b, CacheOf(lru, b)
  PROVE  CacheOf(Evicted, b)
<1> DEFINE remaining == {n \in 0..Len(lru) : Exclusive(SubSeq(lru, n + 1, Len(lru))) # {}}
           first == CHOOSE n \in remaining : \A m \in remaining : n =< m
           rest == SubSeq(lru, first + 1, Len(lru))
<1>1. lru \in Seq(Slots) /\ Len(lru) \in Nat /\ \A m \in 1..Len(lru) : lru[m] \in Slots
  BY LenProperties, ElementOfSeq DEF CacheOf
<1>2. Evicted = IF remaining = {} THEN <<>> ELSE rest
  BY DEF Evicted
<1>3. CASE remaining = {}
  <2>1. CacheOf(<<>>, b)
    BY EmptySeq DEF CacheOf
  <2> QED
    BY <1>2, <1>3, <2>1
<1>4. CASE remaining # {}
  <2>1. remaining \subseteq 0..Len(lru)
    OBVIOUS
  <2> HIDE DEF remaining
  <2>2. \E n \in remaining : \A m \in remaining : n =< m
    <3>1. remaining \in SUBSET Nat
      BY <1>1, <2>1
    <3> QED
      BY <1>4, <3>1, LeastNatural
  <2>3. first \in 0..Len(lru)
    BY <2>1, <2>2
  <2> HIDE DEF first
  <2>4. first + 1 \in Int /\ Len(lru) \in Int /\ \A m \in (first + 1)..Len(lru) : lru[m] \in Slots
    BY <1>1, <2>3
  <2>5. /\ rest \in Seq(Slots)
        /\ Len(rest) = IF first + 1 <= Len(lru) THEN Len(lru) - (first + 1) + 1 ELSE 0
        /\ \A m \in 1..(Len(lru) - (first + 1) + 1) : rest[m] = lru[(first + 1) + m - 1]
    BY <2>4, SubSeqProperties
  <2> HIDE DEF rest
  <2>6. /\ Len(rest) = Len(lru) - first
        /\ \A m \in 1..Len(rest) : m + first \in 1..Len(lru) /\ rest[m] = lru[m + first]
    BY <1>1, <2>3, <2>5
  <2>7. \A m, k \in 1..Len(rest) : rest[m] = rest[k] => m = k
    BY <1>1, <2>3, <2>6 DEF CacheOf
  <2>8. \A m \in 1..Len(rest) : b[rest[m]].buffer = "here"
    BY <2>6 DEF CacheOf
  <2>9. CacheOf(rest, b)
    BY <2>5, <2>7, <2>8 DEF CacheOf
  <2> QED
    BY <1>2, <1>4, <2>9
<1> QED
  BY <1>3, <1>4
-----------------------------------------------------------------------------
(***************************************************************************)
(* Steps that leave the pool alone.                                        *)
(***************************************************************************)

\* What a session that moves outside the pool may become.
Reasonable(s, y) ==
  /\ y \in Session /\ Sound(s, y, block)
  /\ y.read = src[s].read
  /\ y.stage = "broken" <=> src[s].stage = "broken"

LEMMA Quiet ==
  ASSUME IInv, NEW s \in Sessions, NEW y, Reasonable(s, y),
         src' = [src EXCEPT ![s] = y], UNCHANGED pool,
         lease' \in Sessions \cup {None}, lease # None => lease' # None,
         waiters \subseteq waiters', waiters' \subseteq Sessions,
         Cardinality(waiters') =< WaiterSlots, faults' \in 0..MaxFaults,
         y.parked => y.io = "running" \/ (lease' # None /\ s \in waiters')
  PROVE  IInv'
<1>1. UNCHANGED <<block, lru, inFlight>> /\ y \in Session /\ Moves(s, y)
  BY DEF pool, Reasonable, Moves
<1>2. src' \in [Sessions -> Session] /\ SessionInv' /\ OwnersInv' /\ CountInv'
  BY <1>1, PoolStays DEF Reasonable
<1>3. ParkedWillWake'
  BY <1>1, MovesParked
<1>4. TypeOK'
  BY <1>1, <1>2 DEF IInv, TypeOK
<1>5. LruInv'
  BY <1>1 DEF IInv, LruInv, CacheOf
<1> QED
  BY <1>2, <1>3, <1>4, <1>5 DEF IInv

\* The lease is returned, and the pool as it was but for the order of the cache.
LEMMA Returned ==
  ASSUME IInv, NEW s \in Sessions, NEW y, Reasonable(s, y), ~y.parked,
         Return([src EXCEPT ![s] = y]), UNCHANGED <<block, inFlight>>,
         CacheOf(lru', block), faults' \in 0..MaxFaults
  PROVE  IInv'
<1>1. /\ lease' = None /\ waiters' = {} /\ src' = Woken([src EXCEPT ![s] = y])
      /\ y \in Session /\ Moves(s, y)
  BY DEF Return, Reasonable, Moves
<1>2. src' \in [Sessions -> Session] /\ SessionInv' /\ OwnersInv' /\ CountInv'
  BY <1>1, PoolStays DEF Reasonable
<1>3. ParkedWillWake'
  BY <1>1, ReturnWakes
<1>4. LruInv'
  BY DEF LruInv, CacheOf
<1>5. TypeOK'
  BY <1>1, <1>2, CacheTyped, WaitersFit DEF IInv, TypeOK
<1> QED
  BY <1>2, <1>3, <1>4, <1>5 DEF IInv

\* The lease is returned, and the read of the session has ended.
LEMMA ReturnedReleased ==
  ASSUME IInv, NEW s \in Sessions, NEW y \in Session, ~y.parked, y.stage # "broken",
         Return([src EXCEPT ![s] = y]),
         src[s].read # None, y.read = None,
         NEW w \in {"here", "lost"},
         block' = [block EXCEPT ![src[s].read.slot].buffer = w],
         Sound(s, y, block'), inFlight' = inFlight - 1,
         CacheOf(lru, block') => CacheOf(lru', block'), faults' \in 0..MaxFaults
  PROVE  IInv'
<1>1. /\ lease' = None /\ waiters' = {} /\ src' = Woken([src EXCEPT ![s] = y])
      /\ Moves(s, y)
  BY DEF Return, Moves
<1>2. /\ src' \in [Sessions -> Session]
      /\ block' \in [Slots -> [key : Keys \cup {None}, buffer : {"here", "out", "lost"}]]
      /\ inFlight' \in 0..MaxInFlight
      /\ SessionInv' /\ OwnersInv' /\ CountInv' /\ CacheOf(lru, block')
  BY <1>1, Released
<1>3. ParkedWillWake'
  BY <1>1, ReturnWakes
<1>4. LruInv' /\ CacheOf(lru', block')
  BY <1>2 DEF LruInv, CacheOf
<1>5. TypeOK'
  BY <1>1, <1>2, <1>4, CacheTyped, WaitersFit DEF IInv, TypeOK
<1> QED
  BY <1>2, <1>3, <1>4, <1>5 DEF IInv

LEMMA Defaults ==
  ASSUME IInv
  PROVE  /\ lease \in Sessions \cup {None} /\ waiters \subseteq Sessions
         /\ Cardinality(waiters) =< WaiterSlots /\ faults \in 0..MaxFaults
         /\ None \notin Sessions /\ IsFiniteSet(waiters)
BY NoneAssumption, FiniteAssumption, FS_Subset DEF IInv, TypeOK

LEMMA FaultCounted ==
  ASSUME IInv, Fault
  PROVE  faults' \in 0..MaxFaults
BY PoolAssumption DEF IInv, TypeOK, Fault

LEMMA ClosedIsSound ==
  /\ Closed \in Session /\ [Closed EXCEPT !.stage = "broken"] \in Session
  /\ ~Closed.parked /\ Closed.read = None /\ Closed.stage = "closed"
  /\ \A s, b : Sound(s, Closed, b)
  /\ \A s, b : Sound(s, [Closed EXCEPT !.stage = "broken"], b)
BY DEF Closed, Session, Sound

LEMMA TakeKeeps ==
  ASSUME IInv, NEW s \in Sessions, Take(s)
  PROVE  IInv'
<1>1. lease = None /\ lease' = s /\ UNCHANGED <<src, waiters, pool, faults>>
  BY DEF Take
<1>2. src' = [src EXCEPT ![s] = src[s]]
  BY <1>1 DEF IInv, TypeOK
<1>3. Reasonable(s, src[s])
  BY SessionOf DEF Reasonable
<1>4. src[s].parked => src[s].io = "running"
  BY <1>1 DEF IInv, ParkedWillWake
<1> QED
  BY <1>1, <1>2, <1>3, <1>4, Defaults, Quiet

LEMMA WaitKeeps ==
  ASSUME IInv, NEW s \in Sessions, Wait(s)
  PROVE  IInv'
<1> DEFINE y == [src[s] EXCEPT !.at = "out", !.want = None, !.parked = TRUE]
<1>1. /\ lease # None /\ HasRoom(s) /\ waiters' = waiters \cup {s}
      /\ src[s].at # "out"
      /\ UNCHANGED <<lease, pool, faults>>
  BY DEF Wait, WantsPool
<1>2. src' = [src EXCEPT ![s] = y]
  BY DEF Wait, IInv, TypeOK
<1>3. Reasonable(s, y)
  <2>1. src[s] \in Session /\ Sound(s, src[s], block)
    BY SessionOf
  <2>2. y \in Session
    BY <1>1, SessionOf, <2>1, NoneAssumption DEF Session
  <2>3. y.read = src[s].read /\ y.stage = src[s].stage
    BY <1>1, SessionOf, <2>1 DEF Session
  <2>4. Sound(s, y, block)
    BY <1>1, SessionOf, <2>1, NoneAssumption DEF Wait, WantsPool, Reasonable, Sound, Session
  <2> QED
    BY <1>1, SessionOf, <2>1, <2>2, <2>3, <2>4 DEF Wait, WantsPool, Reasonable, Session
<1>4. Cardinality(waiters') =< WaiterSlots
  <2>1. Cardinality(waiters) \in Nat /\ WaiterSlots \in Nat /\ Cardinality(waiters) =< WaiterSlots
    BY Defaults, FS_CardinalityType, PoolAssumption
  <2>2. Cardinality(waiters \cup {s}) = IF s \in waiters THEN Cardinality(waiters) ELSE Cardinality(waiters) + 1
    BY Defaults, FS_AddElement
  <2> QED
    BY <1>1, <2>1, <2>2 DEF HasRoom
<1> HIDE DEF y
<1> QED
  BY <1>1, <1>2, <1>3, <1>4, Defaults, Quiet

LEMMA RefuseKeeps ==
  ASSUME IInv, NEW s \in Sessions, Refuse(s)
  PROVE  IInv'
<1> DEFINE y == [src[s] EXCEPT !.at = "out", !.want = None]
<1>1. src[s].at # "out" /\ UNCHANGED <<lease, waiters, pool, faults>>
  BY DEF Refuse, WantsPool
<1>2. src' = [src EXCEPT ![s] = y]
  BY DEF Refuse, IInv, TypeOK
<1>3. Reasonable(s, y) /\ ~y.parked
  BY <1>1, SessionOf DEF Refuse, WantsPool, Reasonable, Sound, Session
<1> HIDE DEF y
<1> QED
  BY <1>1, <1>2, <1>3, Defaults, Quiet

LEMMA OpenKeeps ==
  ASSUME IInv, NEW s \in Sessions, Open(s)
  PROVE  IInv'
<1> DEFINE y == [Closed EXCEPT !.stage = "opening", !.io = "running"]
<1>1. src' = [src EXCEPT ![s] = y] /\ UNCHANGED <<lease, waiters, pool, faults>>
  BY DEF Open
<1>2. Reasonable(s, y) /\ ~y.parked
  BY SessionOf DEF Open, Closed, Reasonable, Sound, Session
<1> HIDE DEF y
<1> QED
  BY <1>1, <1>2, Defaults, Quiet

LEMMA CompletesKeeps ==
  ASSUME IInv, NEW s \in Sessions, Completes(s)
  PROVE  IInv'
<1> DEFINE y == [src[s] EXCEPT !.io = "ready", !.parked = FALSE]
<1>1. UNCHANGED <<lease, waiters, pool, faults>>
  BY DEF Completes
<1>2. src' = [src EXCEPT ![s] = y]
  BY DEF Completes, IInv, TypeOK
<1>3. Reasonable(s, y) /\ ~y.parked
  <2>1. src[s] \in Session /\ Sound(s, src[s], block)
    BY SessionOf
  <2>2. y \in Session
    BY SessionOf, <2>1, NoneAssumption DEF Session
  <2>3. y.read = src[s].read /\ y.stage = src[s].stage
    BY SessionOf, <2>1 DEF Session
  <2>4. Sound(s, y, block)
    BY SessionOf, <2>1, NoneAssumption DEF Completes, Reasonable, Sound, Session
  <2> QED
    BY SessionOf, <2>1, <2>2, <2>3, <2>4 DEF Completes, Reasonable, Session
<1> HIDE DEF y
<1> QED
  BY <1>1, <1>2, <1>3, Defaults, Quiet

LEMMA PollOpenKeeps ==
  ASSUME IInv, NEW s \in Sessions, PollOpen(s)
  PROVE  IInv'
<1>1. Calls(s) /\ UNCHANGED <<lease, waiters, pool, faults>>
  BY DEF PollOpen
<1>2. CASE /\ src[s].stage = "opening" /\ src[s].io = "running"
           /\ src' = [src EXCEPT ![s].parked = TRUE]
  <2> DEFINE y == [src[s] EXCEPT !.parked = TRUE]
  <2>1. src' = [src EXCEPT ![s] = y]
    BY <1>2 DEF IInv, TypeOK
  <2>2. Reasonable(s, y) /\ y.io = "running"
    BY <1>1, <1>2, SessionOf DEF Calls, Reasonable, Sound, Session
  <2> HIDE DEF y
  <2> QED
    BY <1>1, <2>1, <2>2, Defaults, Quiet
<1>3. CASE /\ src[s].stage = "opening" /\ src[s].io = "ready"
           /\ src' = [src EXCEPT ![s].stage = "opened", ![s].io = "none",
                                 ![s].at = "identify", ![s].parked = FALSE]
  <2> DEFINE y == [src[s] EXCEPT !.stage = "opened", !.io = "none", !.at = "identify", !.parked = FALSE]
  <2>1. src' = [src EXCEPT ![s] = y]
    BY <1>3 DEF IInv, TypeOK
  <2>2. Reasonable(s, y) /\ ~y.parked
    BY <1>1, <1>3, SessionOf DEF Calls, Reasonable, Sound, Session
  <2> HIDE DEF y
  <2> QED
    BY <1>1, <2>1, <2>2, Defaults, Quiet
<1>4. CASE /\ src[s].stage = "opening" /\ src[s].io = "ready"
           /\ src' = [src EXCEPT ![s].stage = "failed", ![s].io = "none", ![s].parked = FALSE]
  <2> DEFINE y == [src[s] EXCEPT !.stage = "failed", !.io = "none", !.parked = FALSE]
  <2>1. src' = [src EXCEPT ![s] = y]
    BY <1>4 DEF IInv, TypeOK
  <2>2. Reasonable(s, y) /\ ~y.parked
    BY <1>1, <1>4, SessionOf DEF Calls, Reasonable, Sound, Session
  <2> HIDE DEF y
  <2> QED
    BY <1>1, <2>1, <2>2, Defaults, Quiet
<1>5. CASE /\ src[s].stage = "opened"
           /\ src' = [src EXCEPT ![s].at = "identify", ![s].parked = FALSE]
  <2> DEFINE y == [src[s] EXCEPT !.at = "identify", !.parked = FALSE]
  <2>1. src' = [src EXCEPT ![s] = y]
    BY <1>5 DEF IInv, TypeOK
  <2>2. Reasonable(s, y) /\ ~y.parked
    BY <1>1, <1>5, SessionOf DEF Calls, Reasonable, Sound, Session
  <2> HIDE DEF y
  <2> QED
    BY <1>1, <2>1, <2>2, Defaults, Quiet
<1> QED
  BY <1>2, <1>3, <1>4, <1>5 DEF PollOpen

LEMMA PollReadKeeps ==
  ASSUME IInv, NEW s \in Sessions, NEW o \in Offsets, PollRead(s, o)
  PROVE  IInv'
<1> DEFINE y == [src[s] EXCEPT !.last = None, !.at = "lookup", !.want = o, !.parked = FALSE]
<1>1. /\ Calls(s) /\ src[s].stage = "open" /\ src[s].io # "lost"
      /\ UNCHANGED <<lease, waiters, pool, faults>>
  BY DEF PollRead
<1>2. src' = [src EXCEPT ![s] = y]
  BY DEF PollRead, IInv, TypeOK
<1>3. Reasonable(s, y) /\ ~y.parked
  <2>1. src[s] \in Session /\ Sound(s, src[s], block)
    BY SessionOf
  <2>2. y \in Session
    BY <1>1, SessionOf, NoneAssumption, <2>1, NoneAssumption DEF Session
  <2>3. y.read = src[s].read /\ y.stage = src[s].stage
    BY <1>1, SessionOf, NoneAssumption, <2>1 DEF Session
  <2>4. Sound(s, y, block)
    BY <1>1, SessionOf, NoneAssumption, <2>1, NoneAssumption DEF Calls, Reasonable, Sound, Session
  <2> QED
    BY <1>1, SessionOf, NoneAssumption, <2>1, <2>2, <2>3, <2>4 DEF Calls, Reasonable, Session
<1> HIDE DEF y
<1> QED
  BY <1>1, <1>2, <1>3, Defaults, Quiet

LEMMA PhysicalKeeps ==
  ASSUME IInv, NEW s \in Sessions, Physical(s)
  PROVE  IInv'
<1>1. src[s].at = "physical" /\ UNCHANGED <<lease, waiters, pool>>
  BY DEF Physical
<1>2. src[s].read # None /\ ~src[s].parked
  BY <1>1, SessionOf DEF Sound
<1>3. CASE /\ src[s].io = "running" /\ UNCHANGED faults
           /\ src' = [src EXCEPT ![s].at = "out", ![s].want = None, ![s].parked = TRUE]
  <2> DEFINE y == [src[s] EXCEPT !.at = "out", !.want = None, !.parked = TRUE]
  <2>1. src' = [src EXCEPT ![s] = y]
    BY <1>3 DEF IInv, TypeOK
  <2>2. Reasonable(s, y) /\ y.io = "running"
    BY <1>1, <1>2, <1>3, SessionOf DEF Reasonable, Sound, Session
  <2> HIDE DEF y
  <2> QED
    BY <1>1, <1>3, <2>1, <2>2, Defaults, Quiet
<1>4. CASE /\ src[s].io = "ready" /\ UNCHANGED faults
           /\ src' = [src EXCEPT ![s].at = "finish", ![s].io = "done"]
  <2> DEFINE y == [src[s] EXCEPT !.at = "finish", !.io = "done"]
  <2>1. src' = [src EXCEPT ![s] = y]
    BY <1>4 DEF IInv, TypeOK
  <2>2. Reasonable(s, y) /\ ~y.parked
    BY <1>1, <1>2, <1>4, SessionOf DEF Reasonable, Sound, Session
  <2> HIDE DEF y
  <2> QED
    BY <1>1, <1>4, <2>1, <2>2, Defaults, Quiet
<1>5. CASE /\ src[s].io = "ready" /\ Fault
           /\ src' = [src EXCEPT ![s].at = "out", ![s].want = None, ![s].io = "lost"]
  <2> DEFINE y == [src[s] EXCEPT !.at = "out", !.want = None, !.io = "lost"]
  <2>1. src' = [src EXCEPT ![s] = y]
    BY <1>5 DEF IInv, TypeOK
  <2>2. Reasonable(s, y) /\ ~y.parked
    BY <1>1, <1>2, <1>5, SessionOf DEF Reasonable, Sound, Session
  <2>3. faults' \in 0..MaxFaults
    BY <1>5, FaultCounted
  <2> HIDE DEF y
  <2> QED
    BY <1>1, <2>1, <2>2, <2>3, Defaults, Quiet
<1> QED
  BY <1>3, <1>4, <1>5 DEF Physical

LEMMA DropSourceKeeps ==
  ASSUME IInv, NEW s \in Sessions, DropSource(s)
  PROVE  IInv'
<1>1. /\ src[s].at = "out" /\ ~src[s].retiring /\ src[s].stage # "broken"
      /\ UNCHANGED <<lease, waiters, pool, faults>>
  BY DEF DropSource, Calls
<1>2. CASE HasPending(s)
  <2> DEFINE y == [src[s] EXCEPT !.retiring = TRUE, !.parked = FALSE]
  <2>1. src' = [src EXCEPT ![s] = y]
    BY <1>2 DEF DropSource, ToRetire
  <2>2. src[s] \in Session /\ Sound(s, src[s], block)
    BY SessionOf
  <2>3. y \in Session /\ ~y.parked /\ y.read = src[s].read /\ y.stage = src[s].stage
    BY <2>2 DEF Session
  <2>4. Sound(s, y, block)
    BY <1>1, <1>2, <2>2 DEF HasPending, Sound, Session
  <2> HIDE DEF y
  <2> QED
    BY <1>1, <2>1, <2>3, <2>4, Defaults, Quiet DEF Reasonable
<1>3. CASE ~HasPending(s)
  <2>1. src' = [src EXCEPT ![s] = Closed]
    BY <1>3 DEF DropSource
  <2>2. Reasonable(s, Closed)
    BY <1>1, <1>3, ClosedIsSound DEF HasPending, Reasonable
  <2> QED
    BY <1>1, <2>1, <2>2, ClosedIsSound, Defaults, Quiet
<1> QED
  BY <1>2, <1>3

LEMMA RetireKeeps ==
  ASSUME IInv, NEW s \in Sessions, Retire(s)
  PROVE  IInv'
<1>1. /\ src[s].retiring /\ ~src[s].parked /\ src[s].at = "out"
      /\ UNCHANGED <<lease, waiters, pool, faults>>
  BY DEF Retire
<1>2. CASE /\ src[s].stage = "opening" /\ src[s].io = "running"
           /\ src' = [src EXCEPT ![s].parked = TRUE]
  <2> DEFINE y == [src[s] EXCEPT !.parked = TRUE]
  <2>1. src' = [src EXCEPT ![s] = y]
    BY <1>2 DEF IInv, TypeOK
  <2>2. Reasonable(s, y) /\ y.io = "running"
    BY <1>1, <1>2, SessionOf DEF Reasonable, Sound, Session
  <2> HIDE DEF y
  <2> QED
    BY <1>1, <2>1, <2>2, Defaults, Quiet
<1>3. CASE /\ src[s].stage = "opening" /\ src[s].io = "ready"
           /\ src' = [src EXCEPT ![s] = Closed]
  <2>1. Reasonable(s, Closed)
    BY <1>3, SessionOf, ClosedIsSound DEF Reasonable, Sound
  <2> QED
    BY <1>1, <1>3, <2>1, ClosedIsSound, Defaults, Quiet
<1>4. ASSUME src[s].stage = "open",
             NEW a \in {"abandon", "finish", "physical"},
             src' = [src EXCEPT ![s].last = None, ![s].at = a]
      PROVE  IInv'
  <2> DEFINE y == [src[s] EXCEPT !.last = None, !.at = a]
  <2>1. src' = [src EXCEPT ![s] = y]
    BY <1>4 DEF IInv, TypeOK
  <2>2. Reasonable(s, y) /\ ~y.parked
    <3>1. src[s] \in Session /\ Sound(s, src[s], block)
      BY SessionOf
    <3>2. y \in Session
      BY <1>1, <1>4, SessionOf, <3>1, NoneAssumption DEF Session
    <3>3. y.read = src[s].read /\ y.stage = src[s].stage
      BY <1>1, <1>4, SessionOf, <3>1 DEF Session
    <3>4. Sound(s, y, block)
      BY <1>1, <1>4, SessionOf, <3>1, NoneAssumption DEF Reasonable, Sound, Session
    <3> QED
      BY <1>1, <1>4, SessionOf, <3>1, <3>2, <3>3, <3>4 DEF Reasonable, Session
  <2> HIDE DEF y
  <2> QED
    BY <1>1, <2>1, <2>2, Defaults, Quiet
<1> QED
  BY <1>2, <1>3, <1>4 DEF Retire
-----------------------------------------------------------------------------
(***************************************************************************)
(* Steps that work on the pool.                                            *)
(***************************************************************************)

\* The read of a session that gives up is not published, and its buffer not given back.
LEMMA BreakKeeps ==
  ASSUME IInv, NEW s \in Sessions, Break(s)
  PROVE  IInv'
<1> DEFINE y == [Closed EXCEPT !.stage = "broken"]
<1>1. /\ src[s].retiring /\ src[s].at \in {"identify", "lookup", "reserve", "finish", "abandon"}
      /\ src' = [src EXCEPT ![s] = y]
      /\ block' = [block EXCEPT ![src[s].read.slot].buffer = "lost"]
      /\ lease # None /\ UNCHANGED <<lease, waiters, lru, inFlight, faults>>
  BY DEF Break, WantsPool
<1>2. src[s].read # None
  BY <1>1, SessionOf DEF Sound
<1>3. y \in Session /\ y.read = None /\ y.stage = "broken" /\ ~y.parked /\ Sound(s, y, block')
  BY ClosedIsSound DEF Closed
<1>4. Moves(s, y)
  BY <1>1 DEF Moves
<1> HIDE DEF y
<1>5. /\ src' \in [Sessions -> Session]
      /\ block' \in [Slots -> [key : Keys \cup {None}, buffer : {"here", "out", "lost"}]]
      /\ inFlight' \in 0..MaxInFlight
      /\ SessionInv' /\ OwnersInv' /\ CountInv' /\ CacheOf(lru, block')
  BY <1>1, <1>2, <1>3, <1>4, Released
<1>6. ParkedWillWake'
  BY <1>1, <1>3, MovesParked
<1>7. LruInv'
  BY <1>1, <1>5 DEF LruInv, CacheOf
<1>8. TypeOK'
  BY <1>1, <1>5 DEF IInv, TypeOK
<1> QED
  BY <1>5, <1>6, <1>7, <1>8 DEF IInv

LEMMA HitKeeps ==
  ASSUME IInv, NEW s \in Sessions, Hit(s)
  PROVE  IInv'
<1>1. PICK n \in Cached(KeyWanted(s)) :
        /\ lru' = Append(RemoveAt(lru, n), lru[n])
        /\ Return([src EXCEPT ![s].at = "out", ![s].want = None,
                              ![s].last = [slot |-> lru[n], key |-> KeyWanted(s)]])
  BY DEF Hit
<1>2. /\ src[s].at = "lookup" /\ UNCHANGED <<block, inFlight, faults>>
      /\ n \in 1..Len(lru) /\ block[lru[n]].key = KeyWanted(s)
  BY DEF Hit, Cached
<1>3. CacheOf(lru', block)
  BY <1>1, <1>2, CacheTouched DEF IInv, LruInv
<1> DEFINE h == [slot |-> lru[n], key |-> KeyWanted(s)]
           y == [src[s] EXCEPT !.at = "out", !.want = None, !.last = h]
<1>4. src[s] \in Session /\ Sound(s, src[s], block)
  BY SessionOf
<1>5. /\ h \in Blocks /\ h.key.source = s
      /\ block[h.slot] = [key |-> h.key, buffer |-> "here"]
  <2>1. lru[n] \in Slots /\ block[lru[n]].buffer = "here"
    BY <1>2, ElementOfSeq DEF IInv, LruInv, CacheOf
  <2>2. src[s].want \in Offsets
    BY <1>2, <1>4 DEF Sound, Session
  <2>3. KeyWanted(s) \in Keys /\ KeyWanted(s).source = s
    BY <2>2 DEF KeyWanted, Keys
  <2>4. block[lru[n]] \in [key : Keys \cup {None}, buffer : {"here", "out", "lost"}]
    BY <2>1 DEF IInv, TypeOK
  <2> QED
    BY <1>2, <2>1, <2>3, <2>4 DEF Blocks
<1>6. Return([src EXCEPT ![s] = y])
  <2>1. [src EXCEPT ![s] = y] = [src EXCEPT ![s].at = "out", ![s].want = None, ![s].last = h]
    BY DEF IInv, TypeOK
  <2> QED
    BY <1>1, <2>1
<1> HIDE DEF h
<1>7. y \in Session /\ y.read = src[s].read /\ y.stage = src[s].stage /\ ~y.parked
  BY <1>2, <1>4, <1>5 DEF Session, Sound
<1>8. Sound(s, y, block)
  BY <1>2, <1>4, <1>5 DEF Sound, Session
<1> HIDE DEF y
<1> QED
  BY <1>2, <1>3, <1>6, <1>7, <1>8, Defaults, Returned DEF Reasonable

LEMMA MissKeeps ==
  ASSUME IInv, NEW s \in Sessions, Miss(s)
  PROVE  IInv'
<1>1. PICK a \in {"reserve", "finish", "physical"} :
        /\ Return([src EXCEPT ![s].at = a])
        /\ a = "reserve" <=> src[s].read = None
  BY DEF Miss
<1>2. src[s].at = "lookup" /\ UNCHANGED <<block, lru, inFlight, faults>>
  BY DEF Miss, pool
<1> DEFINE y == [src[s] EXCEPT !.at = a]
<1>3. Return([src EXCEPT ![s] = y])
  <2>1. [src EXCEPT ![s] = y] = [src EXCEPT ![s].at = a]
    BY DEF IInv, TypeOK
  <2> QED
    BY <1>1, <2>1
<1>4. Reasonable(s, y) /\ ~y.parked
  BY <1>1, <1>2, SessionOf DEF Reasonable, Sound, Session
<1>5. CacheOf(lru', block)
  BY <1>2 DEF IInv, LruInv
<1> HIDE DEF y
<1> QED
  BY <1>2, <1>3, <1>4, <1>5, Defaults, Returned

LEMMA UnreservedKeeps ==
  ASSUME IInv, NEW s \in Sessions, Unreserved(s)
  PROVE  IInv'
<1>1. /\ src[s].at = "reserve" /\ UNCHANGED <<block, inFlight, faults>>
      /\ lru' = lru \/ lru' = Evicted
      /\ Return([src EXCEPT ![s].at = "out", ![s].want = None])
  BY DEF Unreserved
<1> DEFINE y == [src[s] EXCEPT !.at = "out", !.want = None]
<1>2. Return([src EXCEPT ![s] = y])
  <2>1. [src EXCEPT ![s] = y] = [src EXCEPT ![s].at = "out", ![s].want = None]
    BY DEF IInv, TypeOK
  <2> QED
    BY <1>1, <2>1
<1>3. Reasonable(s, y) /\ ~y.parked
  BY <1>1, SessionOf DEF Reasonable, Sound, Session
<1>4. CacheOf(lru', block)
  BY <1>1, CacheEvicted DEF IInv, LruInv
<1> HIDE DEF y
<1> QED
  BY <1>1, <1>2, <1>3, <1>4, Defaults, Returned

LEMMA ShortReadKeeps ==
  ASSUME IInv, NEW s \in Sessions, ShortRead(s)
  PROVE  IInv'
<1>1. src[s].at = "finish" /\ ~src[s].retiring /\ UNCHANGED <<block, lru, inFlight>>
  BY DEF ShortRead, pool
<1>2. src[s].read # None /\ CacheOf(lru', block)
  BY <1>1, SessionOf DEF Sound, IInv, LruInv
<1>3. CASE /\ Return([src EXCEPT ![s].at = "physical", ![s].io = "running"])
           /\ UNCHANGED faults
  <2> DEFINE y == [src[s] EXCEPT !.at = "physical", !.io = "running"]
  <2>1. [src EXCEPT ![s] = y] = [src EXCEPT ![s].at = "physical", ![s].io = "running"]
    BY DEF IInv, TypeOK
  <2>2. Return([src EXCEPT ![s] = y])
    BY <1>3, <2>1
  <2>3. Reasonable(s, y) /\ ~y.parked
    BY <1>1, <1>2, SessionOf DEF Reasonable, Sound, Session
  <2> HIDE DEF y
  <2> QED
    BY <1>1, <1>2, <1>3, <2>2, <2>3, Defaults, Returned
<1>4. CASE /\ Fault
           /\ Return([src EXCEPT ![s].at = "out", ![s].want = None, ![s].io = "lost"])
  <2> DEFINE y == [src[s] EXCEPT !.at = "out", !.want = None, !.io = "lost"]
  <2>1. [src EXCEPT ![s] = y] = [src EXCEPT ![s].at = "out", ![s].want = None, ![s].io = "lost"]
    BY DEF IInv, TypeOK
  <2>2. Return([src EXCEPT ![s] = y])
    BY <1>4, <2>1
  <2>3. Reasonable(s, y) /\ ~y.parked
    BY <1>1, <1>2, SessionOf DEF Reasonable, Sound, Session
  <2>4. faults' \in 0..MaxFaults
    BY <1>4, FaultCounted
  <2> HIDE DEF y
  <2> QED
    BY <1>1, <1>2, <2>2, <2>3, <2>4, Returned
<1> QED
  BY <1>3, <1>4 DEF ShortRead

LEMMA AbandonKeeps ==
  ASSUME IInv, NEW s \in Sessions, Abandon(s)
  PROVE  IInv'
<1>1. /\ src[s].at = "abandon"
      /\ block' = [block EXCEPT ![src[s].read.slot].buffer = "lost"]
      /\ inFlight' = inFlight - 1 /\ UNCHANGED <<lru, faults>>
      /\ Return([src EXCEPT ![s] = Closed])
  BY DEF Abandon
<1>2. src[s].read # None
  BY <1>1, SessionOf DEF Sound
<1> QED
  BY <1>1, <1>2, ClosedIsSound, Defaults, ReturnedReleased

LEMMA AbortKeeps ==
  ASSUME IInv, NEW s \in Sessions, Abort(s)
  PROVE  IInv'
<1>1. /\ src[s].at = "finish" /\ Restored(s) /\ UNCHANGED lru
      /\ Return([src EXCEPT ![s] = Closed])
  BY DEF Abort
<1>2. src[s].read # None
  BY <1>1, SessionOf DEF Sound
<1>3. PICK w \in {"here", "lost"} : block' = [block EXCEPT ![src[s].read.slot].buffer = w]
  BY <1>1 DEF Restored
<1>4. inFlight' = inFlight - 1 /\ faults' \in 0..MaxFaults
  BY <1>1, FaultCounted, Defaults DEF Restored
<1> QED
  BY <1>1, <1>2, <1>3, <1>4, ClosedIsSound, ReturnedReleased

LEMMA FailReadKeeps ==
  ASSUME IInv, NEW s \in Sessions, FailRead(s)
  PROVE  IInv'
<1> DEFINE y == [src[s] EXCEPT !.at = "out", !.want = None, !.read = None, !.io = "none"]
<1>1. /\ src[s].at = "finish" /\ ~src[s].retiring /\ Restored(s) /\ UNCHANGED lru
      /\ Return(Ended(s))
  BY DEF FailRead
<1>2. Ended(s) = [src EXCEPT ![s] = y]
  BY DEF Ended, IInv, TypeOK
<1>3. src[s] \in Session /\ Sound(s, src[s], block) /\ src[s].read # None /\ src[s].stage = "open"
  BY <1>1, SessionOf DEF Sound
<1>4. PICK w \in {"here", "lost"} : block' = [block EXCEPT ![src[s].read.slot].buffer = w]
  BY <1>1 DEF Restored
<1>5. inFlight' = inFlight - 1 /\ faults' \in 0..MaxFaults
  BY <1>1, FaultCounted, Defaults DEF Restored
<1>6. y \in Session /\ y.read = None /\ y.stage = "open" /\ y.last = src[s].last /\ ~y.parked
  BY <1>1, <1>3 DEF Session, Sound
<1>7. Sound(s, y, block')
  <2>1. src[s].last # None => block'[src[s].last.slot] = block[src[s].last.slot]
    BY <1>3, <1>4, Apart DEF IInv, TypeOK
  <2> QED
    BY <1>1, <1>3, <2>1 DEF Sound, Session
<1> HIDE DEF y
<1> QED
  BY <1>1, <1>2, <1>3, <1>4, <1>5, <1>6, <1>7, ReturnedReleased

LEMMA PublishKeeps ==
  ASSUME IInv, NEW s \in Sessions, Publish(s)
  PROVE  IInv'
<1> DEFINE r == src[s].read
           y == [src[s] EXCEPT !.at = "out", !.want = None, !.read = None, !.io = "none",
                               !.last = r]
<1>1. /\ src[s].at = "finish" /\ ~src[s].retiring
      /\ block' = [block EXCEPT ![r.slot].buffer = "here"]
      /\ inFlight' = inFlight - 1 /\ lru' = Append(lru, r.slot)
      /\ Return([Ended(s) EXCEPT ![s].last = r]) /\ UNCHANGED faults
  BY DEF Publish
<1>2. [Ended(s) EXCEPT ![s].last = r] = [src EXCEPT ![s] = y]
  BY DEF Ended, IInv, TypeOK
<1>3. src[s] \in Session /\ Sound(s, src[s], block) /\ r # None /\ src[s].stage = "open"
  BY <1>1, SessionOf DEF Sound
<1>4. /\ r \in Blocks /\ r.slot \in Slots /\ r.key.source = s
      /\ block[r.slot] = [key |-> r.key, buffer |-> "out"]
  BY <1>3, Apart DEF Sound
<1>5. block'[r.slot] = [key |-> r.key, buffer |-> "here"]
  BY <1>1, <1>4 DEF IInv, TypeOK
<1>6. Return([src EXCEPT ![s] = y])
  BY <1>1, <1>2
<1>7. y \in Session /\ y.read = None /\ y.stage = "open" /\ y.last = r /\ ~y.parked
  BY <1>1, <1>3, <1>4 DEF Session, Sound
<1>8. Sound(s, y, block')
  BY <1>1, <1>3, <1>4, <1>5 DEF Sound, Session
<1>9. ASSUME CacheOf(lru, block')
      PROVE  CacheOf(lru', block')
  <2>1. \A n \in 1..Len(lru) : lru[n] # r.slot
    BY <1>4 DEF IInv, LruInv, CacheOf
  <2>2. block'[r.slot].buffer = "here" /\ r.slot \in Slots
    BY <1>4, <1>5
  <2>3. CacheOf(Append(lru, r.slot), block')
    <3> HIDE DEF r
    <3> QED
      BY <1>9, <2>1, <2>2, CacheGrows
  <2> QED
    BY <1>1, <2>3
<1> HIDE DEF y
<1> QED
  BY <1>1, <1>3, <1>6, <1>7, <1>8, <1>9, Defaults, ReturnedReleased DEF r
LEMMA IdentifyKeeps ==
  ASSUME IInv, NEW s \in Sessions, Identify(s)
  PROVE  IInv'
<1> DEFINE y == [src[s] EXCEPT !.stage = "open", !.at = "out"]
<1>1. /\ src[s].at = "identify" /\ UNCHANGED <<lru, inFlight, faults>>
      /\ lease' = None /\ waiters' = {} /\ src' = Woken([src EXCEPT ![s] = y])
  <2>1. [src EXCEPT ![s] = y] = [src EXCEPT ![s].stage = "open", ![s].at = "out"]
    BY DEF IInv, TypeOK
  <2> QED
    BY <2>1 DEF Identify, Return
<1>2. block' = [i \in Slots |->
        IF block[i].key # None /\ block[i].key.source = s
          THEN [block[i] EXCEPT !.key = None] ELSE block[i]]
  BY DEF Identify
<1>3. src[s] \in Session /\ Sound(s, src[s], block) /\ src[s].stage = "opened"
  BY <1>1, SessionOf DEF Sound
<1>4. /\ y \in Session /\ y.read = None /\ y.last = None /\ y.stage = "open" /\ ~y.parked
      /\ src[s].read = None
      /\ Sound(s, y, block')
  BY <1>1, <1>3 DEF Sound, Session
<1>5. /\ block' \in [Slots -> [key : Keys \cup {None}, buffer : {"here", "out", "lost"}]]
      /\ \A i \in Slots : block'[i].buffer = block[i].buffer
      /\ \A i \in Slots : block[i].key # None /\ block[i].key.source # s => block'[i] = block[i]
  BY <1>2 DEF IInv, TypeOK
<1> HIDE DEF y
<1>6. /\ src' \in [Sessions -> Session]
      /\ SameButWoken(y, src'[s])
      /\ \A t \in Sessions \ {s} : SameButWoken(src[t], src'[t])
  BY <1>1, <1>4, MovesTo DEF Moves
<1>7. ASSUME NEW t \in Sessions \ {s}
      PROVE  Sound(t, src'[t], block')
  <2>1. src[t] \in Session /\ Sound(t, src[t], block)
    BY SessionOf
  <2>2. src[t].read # None => block'[src[t].read.slot] = block[src[t].read.slot]
    <3>1. ASSUME src[t].read # None
          PROVE  /\ src[t].read.slot \in Slots /\ src[t].read.key \in Keys
                 /\ block[src[t].read.slot].key = src[t].read.key /\ src[t].read.key.source # s
      BY <2>1, <3>1, Apart DEF Sound
    <3> QED
      BY <1>5, <3>1, NoneAssumption
  <2>3. src[t].last # None => block'[src[t].last.slot] = block[src[t].last.slot]
    <3>1. ASSUME src[t].last # None
          PROVE  /\ src[t].last.slot \in Slots /\ src[t].last.key \in Keys
                 /\ block[src[t].last.slot].key = src[t].last.key /\ src[t].last.key.source # s
      BY <2>1, <3>1, Apart DEF Sound
    <3> QED
      BY <1>5, <3>1, NoneAssumption
  <2>4. Sound(t, src[t], block')
    BY <2>1, <2>2, <2>3, SoundElsewhere
  <2> QED
    BY <1>6, <2>1, <2>4, WokenSound
<1>8. SessionInv'
  BY <1>4, <1>6, <1>7, WokenSound DEF SessionInv
<1>9. \A t \in Sessions : src'[t].read = src[t].read /\ (src'[t].stage = "broken" <=> src[t].stage = "broken")
  BY <1>3, <1>4, <1>6, WokenFields, SessionOf
<1>10. OwnersInv'
  BY <1>5, <1>9 DEF IInv, OwnersInv
<1>11. CountInv'
  <2>1. Charged' = Charged
    BY <1>9 DEF Charged
  <2> QED
    BY <1>1, <2>1 DEF IInv, CountInv
<1>12. LruInv'
  BY <1>1, <1>5, ElementOfSeq DEF IInv, LruInv, CacheOf
<1>13. ParkedWillWake'
  BY <1>1, <1>4, ReturnWakes
<1>14. TypeOK'
  BY <1>1, <1>5, <1>6, WaitersFit DEF IInv, TypeOK
<1> QED
  BY <1>8, <1>10, <1>11, <1>12, <1>13, <1>14 DEF IInv

\* A read takes a block that nobody holds and the cache no longer has.
LEMMA ReserveKeeps ==
  ASSUME IInv, NEW s \in Sessions, Reserve(s)
  PROVE  IInv'
<1> DEFINE i == CHOOSE i \in Exclusive(Evicted) : \A j \in Exclusive(Evicted) : i =< j
           k == KeyWanted(s)
           r == [slot |-> i, key |-> k]
           running == [src[s] EXCEPT !.read = r, !.io = "running", !.at = "physical"]
           lost == [src[s] EXCEPT !.read = r, !.io = "lost", !.at = "out", !.want = None]
<1>1. /\ src[s].at = "reserve" /\ inFlight < MaxInFlight /\ inFlight' = inFlight + 1
      /\ lru' = Evicted /\ Exclusive(Evicted) # {}
      /\ block' = [block EXCEPT ![i] = [key |-> k, buffer |-> "out"]]
  BY DEF Reserve, RoomInFlight
<1>2. src[s] \in Session /\ Sound(s, src[s], block)
  BY SessionOf
<1>3. i \in Exclusive(Evicted)
  <2>1. Exclusive(Evicted) \in SUBSET Nat
    BY PoolAssumption DEF Exclusive, Slots
  <2>2. \E m \in Exclusive(Evicted) : \A j \in Exclusive(Evicted) : m =< j
    BY <1>1, <2>1, LeastNatural
  <2> QED
    BY <2>2
<1> HIDE DEF i
<1>4. /\ i \in Slots /\ block[i].buffer = "here" /\ i \notin Range(Evicted)
      /\ \A t \in Sessions : src[t].last # None => src[t].last.slot # i
      /\ \A t \in Sessions : src[t].read # None => src[t].read.slot # i
  BY <1>3, Apart DEF Exclusive, Unheld
<1>5. k \in Keys /\ k.source = s /\ src[s].read = None /\ src[s].stage = "open"
      /\ ~src[s].parked /\ ~src[s].retiring
  BY <1>1, <1>2 DEF KeyWanted, Keys, Sound, Session
<1> HIDE DEF k
<1>6. r \in Blocks /\ r # None /\ r.slot = i /\ r.key = k
  BY <1>4, <1>5, NoneAssumption DEF Blocks
<1>7. /\ block' \in [Slots -> [key : Keys \cup {None}, buffer : {"here", "out", "lost"}]]
      /\ block'[i] = [key |-> k, buffer |-> "out"]
      /\ \A j \in Slots \ {i} : block'[j] = block[j]
  BY <1>1, <1>4, <1>5 DEF IInv, TypeOK
<1> HIDE DEF r
<1>8. PICK y \in {running, lost} :
        /\ lease' = None /\ waiters' = {} /\ src' = Woken([src EXCEPT ![s] = y])
        /\ faults' \in 0..MaxFaults
  <2>1. src \in [Sessions -> Session]
    BY DEF IInv, TypeOK
  <2>2. [[src EXCEPT ![s].read = r] EXCEPT ![s].io = "running", ![s].at = "physical"]
          = [src EXCEPT ![s] = running]
    BY <2>1
  <2>3. [[src EXCEPT ![s].read = r] EXCEPT ![s].io = "lost", ![s].at = "out", ![s].want = None]
          = [src EXCEPT ![s] = lost]
    BY <2>1
  <2> HIDE DEF running, lost
  <2>4. \/ /\ Return([src EXCEPT ![s] = running])
           /\ UNCHANGED faults
        \/ /\ Fault
           /\ Return([src EXCEPT ![s] = lost])
    BY <2>2, <2>3 DEF Reserve, i, k, r
  <2> QED
    BY <2>4, FaultCounted, Defaults DEF Return
<1>9. /\ y \in Session /\ y.read = r /\ y.last = src[s].last /\ y.stage = "open" /\ ~y.parked
      /\ ~y.retiring /\ y.io \in {"running", "lost"} /\ y.at \in {"physical", "out"}
  <2>1. running \in Session /\ lost \in Session
    BY <1>2, <1>6 DEF Session
  <2>2. \A z \in {running, lost} :
          /\ z.read = r /\ z.last = src[s].last /\ z.stage = src[s].stage
          /\ z.parked = src[s].parked /\ z.retiring = src[s].retiring
          /\ z.io \in {"running", "lost"} /\ z.at \in {"physical", "out"}
    BY <1>2 DEF Session
  <2> HIDE DEF running, lost
  <2>3. y \in Session
    BY <1>8, <2>1
  <2>4. y.parked = src[s].parked /\ y.retiring = src[s].retiring
    BY <1>8, <2>2
  <2> QED
    BY <1>5, <1>8, <2>2, <2>3, <2>4
<1> HIDE DEF running, lost
<1>10. Sound(s, y, block')
  <2>1. src[s].last # None => block'[src[s].last.slot] = block[src[s].last.slot]
    BY <1>4, <1>7, Apart
  <2> QED
    BY <1>2, <1>5, <1>6, <1>7, <1>9, <2>1 DEF Sound
<1>11. /\ src' \in [Sessions -> Session]
       /\ SameButWoken(y, src'[s])
       /\ \A t \in Sessions \ {s} : SameButWoken(src[t], src'[t])
  BY <1>8, <1>9, MovesTo DEF Moves
<1>12. ASSUME NEW t \in Sessions \ {s}
       PROVE  Sound(t, src'[t], block')
  <2>1. src[t] \in Session /\ Sound(t, src[t], block)
    BY SessionOf
  <2>2. /\ src[t].read # None => block'[src[t].read.slot] = block[src[t].read.slot]
        /\ src[t].last # None => block'[src[t].last.slot] = block[src[t].last.slot]
    BY <1>4, <1>7, Apart
  <2>3. Sound(t, src[t], block')
    BY <2>1, <2>2, SoundElsewhere
  <2> QED
    BY <1>11, <2>1, <2>3, WokenSound
<1>13. SessionInv'
  BY <1>9, <1>10, <1>11, <1>12, WokenSound DEF SessionInv
<1>14. /\ src'[s].read = r /\ src'[s].stage = "open"
       /\ \A t \in Sessions \ {s} : src'[t].read = src[t].read /\ src'[t].stage = src[t].stage
  BY <1>9, <1>11, WokenFields, SessionOf
<1>15. OwnersInv'
  <2>1. ASSUME NEW j \in Slots, block'[j].buffer = "out"
        PROVE  \E t \in Sessions : src'[t].read # None /\ src'[t].read.slot = j
    <3>1. CASE j = i
      BY <1>6, <1>14, <3>1
    <3>2. CASE j # i
      <4>1. PICK t \in Sessions : src[t].read # None /\ src[t].read.slot = j
        BY <1>7, <2>1, <3>2 DEF IInv, OwnersInv
      <4> QED
        BY <1>5, <1>14, <4>1
    <3> QED
      BY <3>1, <3>2
  <2>2. ASSUME NEW t \in Sessions, NEW u \in Sessions,
               src'[t].read # None, src'[u].read # None, src'[t].read.slot = src'[u].read.slot
        PROVE  t = u
    BY <1>4, <1>6, <1>14, <2>2 DEF IInv, OwnersInv
  <2> QED
    BY <2>1, <2>2 DEF OwnersInv
<1>16. CountInv' /\ inFlight' \in 0..MaxInFlight
  <2>1. IsFiniteSet(Charged) /\ s \notin Charged /\ inFlight = Cardinality(Charged)
    BY <1>5, FS_Subset, FiniteAssumption DEF Charged, IInv, CountInv
  <2>2. Charged' = Charged \cup {s}
    BY <1>6, <1>14 DEF Charged
  <2>3. Cardinality(Charged \cup {s}) = Cardinality(Charged) + 1
    BY <2>1, FS_AddElement
  <2>4. inFlight \in 0..MaxInFlight /\ MaxInFlight \in Nat
    BY PoolAssumption DEF IInv, TypeOK
  <2> QED
    BY <1>1, <2>1, <2>2, <2>3, <2>4 DEF CountInv
<1>17. CacheOf(lru', block')
  <2> DEFINE q == Evicted
  <2>1. CacheOf(q, block)
    BY CacheEvicted DEF IInv, LruInv
  <2>2. \A n \in 1..Len(q) : q[n] \in Slots /\ q[n] # i
    <3>1. i \notin Range(q)
      BY <1>4
    <3> HIDE DEF q
    <3> QED
      BY <2>1, <3>1, LenProperties, ElementOfSeq DEF CacheOf, Range
  <2>3. lru' = q
    BY <1>1
  <2> HIDE DEF q
  <2>4. CacheOf(q, block')
    BY <1>7, <2>1, <2>2 DEF CacheOf
  <2> QED
    BY <2>3, <2>4
<1>18. LruInv'
  BY <1>17 DEF LruInv, CacheOf
<1>19. ParkedWillWake'
  BY <1>8, <1>9, ReturnWakes
<1>20. TypeOK'
  BY <1>7, <1>8, <1>11, <1>16, <1>17, CacheTyped, WaitersFit DEF IInv, TypeOK
<1> QED
  BY <1>13, <1>15, <1>16, <1>18, <1>19, <1>20 DEF IInv

-----------------------------------------------------------------------------

LEMMA InitHolds ==
  ASSUME Init
  PROVE  IInv
<1>1. /\ src = [s \in Sessions |-> Closed] /\ lease = None /\ waiters = {}
      /\ block = [i \in Slots |-> [key |-> None, buffer |-> "here"]]
      /\ lru = <<>> /\ inFlight = 0 /\ faults = 0
  BY DEF Init
<1>2. /\ src \in [Sessions -> Session]
      /\ \A s \in Sessions : src[s].read = None /\ src[s].stage = "closed" /\ ~src[s].parked
  BY <1>1, ClosedIsSound
<1>3. CacheOf(lru, block)
  BY <1>1, EmptySeq DEF CacheOf
<1>4. 0 \in 0..MaxInFlight /\ 0 \in 0..MaxFaults
      /\ waiters \subseteq Sessions /\ Cardinality(waiters) =< WaiterSlots
  BY <1>1, PoolAssumption, FS_EmptySet
<1>5. TypeOK
  BY <1>1, <1>2, <1>3, <1>4, CacheTyped DEF TypeOK
<1>6. SessionInv
  BY <1>1, ClosedIsSound DEF SessionInv
<1>7. OwnersInv
  BY <1>1, <1>2 DEF OwnersInv
<1>8. CountInv
  <2>1. Charged = {}
    BY <1>2 DEF Charged
  <2> QED
    BY <1>1, <2>1, FS_EmptySet DEF CountInv
<1>9. ParkedWillWake
  BY <1>2 DEF ParkedWillWake
<1> QED
  BY <1>3, <1>5, <1>6, <1>7, <1>8, <1>9 DEF IInv, LruInv

LEMMA NextKeeps ==
  ASSUME IInv, [Next]_vars
  PROVE  IInv'
<1>1. ASSUME NEW s \in Sessions, Operate(s)
      PROVE  IInv'
  BY <1>1, IdentifyKeeps, HitKeeps, MissKeeps, ReserveKeeps, UnreservedKeeps, PublishKeeps,
     FailReadKeeps, ShortReadKeeps, AbortKeeps, AbandonKeeps DEF Operate
<1>2. ASSUME NEW s \in Sessions, Continue(s)
      PROVE  IInv'
  BY <1>1, <1>2, TakeKeeps, WaitKeeps, RefuseKeeps, BreakKeeps, PhysicalKeeps DEF Continue
<1>3. CASE UNCHANGED vars
  <2>1. UNCHANGED <<src, lease, waiters, block, lru, inFlight, faults>>
    BY <1>3 DEF vars, pool
  <2>2. UNCHANGED <<TypeOK, SessionInv, OwnersInv>>
    BY <2>1 DEF TypeOK, SessionInv, OwnersInv
  <2>3. UNCHANGED <<CountInv, LruInv, ParkedWillWake>>
    BY <2>1 DEF CountInv, Charged, LruInv, CacheOf, ParkedWillWake
  <2> QED
    BY <2>2, <2>3 DEF IInv
<1> QED
  BY <1>2, <1>3, OpenKeeps, CompletesKeeps, PollOpenKeeps, DropSourceKeeps, RetireKeeps,
     PollReadKeeps DEF Next

(* The invariant of the sessions, the pool and the waiters, as above. *)
THEOREM Inductive == Spec => []IInv
<1>1. Init => IInv
  BY InitHolds
<1>2. IInv /\ [Next]_vars => IInv'
  BY NextKeeps
<1> QED
  BY <1>1, <1>2, PTL DEF Spec

(* Every variable keeps its type: there are never more reads in flight or  *)
(* waiters than there is room for, and the cache has a block once.         *)
THEOREM Typing == Spec => []TypeOK
<1>1. IInv => TypeOK
  BY DEF IInv
<1> QED
  BY <1>1, Inductive, PTL

\* Each buffer that is out has exactly one read, each other none.
LEMMA Accounted ==
  ASSUME IInv
  PROVE  BuffersAccounted
<1>1. ASSUME NEW i \in Slots
      PROVE  Cardinality(Reading(i)) = IF block[i].buffer = "out" THEN 1 ELSE 0
  <2>1. CASE block[i].buffer = "out"
    <3>1. PICK s \in Sessions : src[s].read # None /\ src[s].read.slot = i
      BY <2>1 DEF IInv, OwnersInv
    <3>2. Reading(i) = {s}
      BY <3>1 DEF IInv, OwnersInv, Reading
    <3> QED
      BY <2>1, <3>2, FS_Singleton
  <2>2. CASE block[i].buffer # "out"
    <3>1. Reading(i) = {}
      BY <2>2, Apart DEF Reading
    <3> QED
      BY <2>2, <3>1, FS_EmptySet
  <2> QED
    BY <2>1, <2>2
<1> QED
  BY <1>1 DEF BuffersAccounted, IInv, CountInv, Charged

(* A reservation is given back on publication, failure, retirement and     *)
(* unwinding, each time exactly once (BlockPool: begin, restore, abandon). *)
THEOREM ReservationsReturn == Spec => []BuffersAccounted
<1>1. IInv => BuffersAccounted
  BY Accounted
<1> QED
  BY <1>1, Inductive, PTL

(* A block that a session holds keeps its bytes, though it was evicted     *)
(* (Handle::get_mut in BlockPool::begin).                                  *)
THEOREM BlocksHeld == Spec => []HeldBlocksKept
<1>1. IInv => HeldBlocksKept
  <2>1. ASSUME IInv, NEW s \in Sessions, src[s].last # None
        PROVE  /\ block[src[s].last.slot].key = src[s].last.key
               /\ block[src[s].last.slot].buffer = "here"
    <3>1. block[src[s].last.slot] = [key |-> src[s].last.key, buffer |-> "here"]
      BY <2>1, SessionOf DEF Sound
    <3> QED
      BY <3>1
  <2> QED
    BY <2>1 DEF HeldBlocksKept
<1> QED
  BY <1>1, Inductive, PTL

(* A session that was told to wait has somebody to wake it (poll_take;     *)
(* Drop of Lease).                                                         *)
THEOREM WaitersWoken == Spec => []ParkedWillWake
<1>1. IInv => ParkedWillWake
  BY DEF IInv
<1> QED
  BY <1>1, Inductive, PTL
=============================================================================
